\* One process logs a verification and exports.
SPECIFICATION ExportSpec
CONSTANTS
    Process = {p1}
    MaxRecords = 3
    MaxTime = 1
    Reported = {}
INVARIANT
    ExportVerifies
CHECK_DEADLOCK FALSE
