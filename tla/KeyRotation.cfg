\* Up to two processes on one directory; five keys fill the lists and rotate them twice.
SPECIFICATION Spec
CONSTANTS
    Process = {p1, p2}
    MaxPrevious = 2
    MaxKeys = 5
SYMMETRY Symmetry
INVARIANTS
    RecentKeysOnDisk
    RestartCanSign
    OnlyOldestMissing
    RetiredForgotten
PROPERTIES
    KeysStayInHand
    ImplementsRetention
\* Metadata torn by a crash stops every process for good.
CHECK_DEADLOCK FALSE
