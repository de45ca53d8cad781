\* Two processes decide the same request at the same time.
SPECIFICATION Spec
CONSTANTS
    Process = {p1, p2}
    Request = {r1}
    Approver = {a1, a2}
    Tenant = {"acme"}
    TTL = 1
    MaxTime = 2
SYMMETRY Symmetry
INVARIANT
    NoDuplicateDecision
\* Once every request is resolved and the clock is at its bound, nothing is left to do.
CHECK_DEADLOCK FALSE
