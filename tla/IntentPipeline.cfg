\* Two processes, five files; calls only share the processes, so one call is enough.
\* Or two processes, one account, the token of its registration and one of a login.
SPECIFICATION PartsSpec
CONSTANTS
    Instance = {i1, i2}
    Call = {c1}
    Request <- MCRequest
    File <- MCFile
    Settings <- MCSettings
    TTL = 1
    MaxUses = 2
    MaxTime = 2
    Gateway = {g1, g2}
    Account = {a1}
    JWT = {t1, t2}
    Lifetime = 1
    Skew = 0
    MaxHandling = 1
    MaxDrift = 1
    Horizon = 4
SYMMETRY Symmetry
INVARIANTS
    ExecutedWasAllowed
    RunsBacked
    AuthorityEnds
PROPERTY
    RevocationTakesEffect
\* An account whose registration failed has nothing more to do once time is up.
CHECK_DEADLOCK FALSE
