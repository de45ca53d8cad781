\* One production process, one token: used in its first second and in its last.
SPECIFICATION Spec
CONSTANTS
    Instance = {i1}
    Token = {t1}
    User = {u1}
    TTL = 1
    Production = TRUE
    MaxEntries = 2
    Fractions = 2
    MaxSec = 2
INVARIANT
    ConsumedOnce
