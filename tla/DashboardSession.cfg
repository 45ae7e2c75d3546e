SPECIFICATION Spec
CONSTANTS
    Sessions = {s1, s2, s3}
    MaxRevisions = 3
    MaxAttempts = 3
SYMMETRY Symmetry
INVARIANTS
    ActsOnWhatIsShown
CHECK_DEADLOCK FALSE
