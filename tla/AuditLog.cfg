\* One or two processes write five records, any of them cut short, and export
\* the evidence.
SPECIFICATION ExportSpec
CONSTANTS
    Process = {p1, p2}
    MaxRecords = 5
    MaxTime = 1
    Reported = {1, 2, 4}
SYMMETRY Symmetry
INVARIANTS
    LinkedInOrder
    NamesEarlierRecord
    LossBounded
    EvidenceMeaning
    OmissionShows
    PackageComplete
\* The last record may be the end.
CHECK_DEADLOCK FALSE
