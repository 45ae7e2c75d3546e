SPECIFICATION Spec
CONSTANTS
    Tickets = {t1}
    Roots = {t1}
    Sessions = {s1, s2, s3, s4}
    Contents = {c1, c2}
    Evidence = {e1, e2}
    PullRequests = {p1}
    Blockers = {}
    Profiles <- DesignProfiles
    Allocations = {}
    Grants = {}
    Used <- DesignUsed
    Pausable <- DesignPausable
    WritersDie = TRUE
    MaxRevisions = 1
    AmendsFrom <- AmendsFirst
    NoSession = NoSession
    NoContent = NoContent
    NoPr = NoPr
SYMMETRY Symmetry
INVARIANTS
    GateIsEarned
