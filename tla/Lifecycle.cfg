SPECIFICATION Spec
CONSTANTS
    Procs = {p1, p2}
    Events <- MCEvents
    Retention = 2
    Skew = 1
    MaxTime = 4
    MaxVersion = 3
    MaxErased = 1
INVARIANTS
    TypeOK
    CheckpointCovered
PROPERTIES
    RecordAdvances
    PruneSparesTouched
    NoResurrection
CHECK_DEADLOCK FALSE
