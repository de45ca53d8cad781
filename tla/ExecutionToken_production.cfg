\* Two production processes, two tokens; L1 holds one entry, so it overflows.
SPECIFICATION Spec
CONSTANTS
    Instance = {i1, i2}
    Token = {t1, t2}
    User = {u1, u2}
    TTL = 2
    Production = TRUE
    MaxEntries = 1
    Fractions = 2
    MaxSec = 2
SYMMETRY Symmetry
INVARIANTS
    SingleUseBeforeDeadline
    CacheCoherent
    ExecutionBacked
PROPERTY
    ImplementsSingleUse
