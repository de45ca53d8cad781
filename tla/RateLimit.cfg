\* Up to two processes, a limit of two, three windows of two seconds; or a
\* velocity tracker with two threads and two scopes.
SPECIFICATION LimitsSpec
CONSTANTS
    Instance = {i1, i2}
    MaxCalls = 2
    Window = 2
    MaxWindow = 2
    MaxRequests = 5
    Thread = {th1, th2}
    Scope = {s1, s2}
    Charge <- Charges
    WindowSeconds = 1
    Max <- Limits
    MaxTime = 3
    MaxRecords = 4
SYMMETRY Symmetry
INVARIANTS
    LimitPerWindow
    RefusedAtLimit
    LeakBounded
    SlidingLimit
    WindowExact
    BlockedUntilReset
