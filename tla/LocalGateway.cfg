\* Two development processes and one token; the ping of Redis may fail, so that
\* L1 may be the only store.
SPECIFICATION GatewaySpec
CONSTANTS
    Instance = {i1, i2}
    Token = {t1}
    User = {u1}
    TTL = 2
    Production = FALSE
    MaxEntries = 1
    Fractions = 1
    MaxSec = 2
    MaxKeys = 2
CONSTRAINT UsesBound
SYMMETRY Symmetry
INVARIANTS
    LocalSingleUse
    EphemeralSingleUse
    TokensSurviveRestart
