\* One or two processes; expiry falls between the reads and the commits.
SPECIFICATION Spec
CONSTANTS
    Process = {p1, p2}
    Request = {r1, r2}
    Approver = {a1, a2}
    Tenant = {"acme"}
    TTL = 1
    MaxTime = 2
SYMMETRY Symmetry
INVARIANTS
    ResolvedByDecision
    ResolvedIsNotPending
    OneDecisionPerRequest
    RaceBounded
PROPERTY
    ImplementsQueue
\* Once every request is resolved and the clock is at its bound, nothing is left to do.
CHECK_DEADLOCK FALSE
