\* One process that dies between the deletion of a key and the metadata.
SPECIFICATION Spec
CONSTANTS
    Process = {p1}
    MaxPrevious = 2
    MaxKeys = 6
INVARIANT
    JwksServable
CHECK_DEADLOCK FALSE
