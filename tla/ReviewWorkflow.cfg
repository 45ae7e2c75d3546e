SPECIFICATION Spec
CONSTANTS
    Contents = {"sound", "thin"}
    Versions = {1, 2}
    Feedback <- MCFeedback
    RejectedWith <- MCRejectedWith
    Unbuildable <- MCUnbuildable
    MaxRevisions = 2
    MaxRetries = 1
    MaxCrashes = 1
INVARIANTS
    TypeOK
    CheckpointValidates
    AtMostOneCall
    StartIsDurable
    SuccessIsFinal
    ApprovedIsCurrent
PROPERTIES
    DecidedIsImmutable
    RetryIsExplicit
    Settles
CHECK_DEADLOCK FALSE
