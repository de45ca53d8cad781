\* Two processes, three requests, two addresses.
SPECIFICATION FairSpec
CONSTANTS
    r1 = r1
    r2 = r2
    r3 = r3
    p1 = p1
    e1 = e1
    Process = {p1, p2}
    Request = {r1, r2, r3}
    Email = {e1, e2}
CONSTRAINT Canonical
INVARIANTS
    ToldIsTrue
    AfterCreated
    NoDeadlock
PROPERTIES
    ImplementsAccounts
    AnsweredWithoutOverlap
    AnsweredOnePerProcess
\* Registrations of one address may wait for each other.
CHECK_DEADLOCK FALSE
