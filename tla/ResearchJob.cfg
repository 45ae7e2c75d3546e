SPECIFICATION Spec
CONSTANTS
    Procs = {p1, p2}
    Free = Free
    None = None
    Listings = 3
    BatchSize = 2
    AttemptsPerListing = 2
    MaxAge = 1
    MaxTime = 2
    MaxGeneration = 15
INVARIANTS
    TypeOK
    CallsAreRecorded
    CollectedInOrder
    OneSnapshot
    SucceededIsActivated
PROPERTIES
    ProgressIsKept
CHECK_DEADLOCK FALSE
