SPECIFICATION Spec
CONSTANTS
    Tickets = {t1}
    Roots = {t1}
    Sessions = {s1, s2, s3}
    Contents = {c1, c2}
    Evidence = {e1, e2}
    PullRequests = {p1}
    Blockers = {b1}
    Profiles <- OneProfiles
    Allocations = {}
    Grants <- OneGrants
    Used <- OneUsed
    Pausable <- OnePausable
    WritersDie = FALSE
    MaxRevisions = 1
    AmendsFrom <- Never
    NoSession = NoSession
    NoContent = NoContent
    NoPr = NoPr
SYMMETRY Symmetry
INVARIANTS
    GateIsEarned
    FailuresAreRepaired
