SPECIFICATION Spec
CONSTANTS
    Procs = {p1, p2}
    Listings <- MCListings
    Free = Free
    Orphan = Orphan
    MaxVersions = 4
    MaxFaults = 2
INVARIANTS
    TypeOK
    PointerIsReadable
    OutcomeIsTrue
    AdditionsSurvive
PROPERTIES
    LineageIsLinear
CHECK_DEADLOCK FALSE
