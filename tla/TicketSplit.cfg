SPECIFICATION Spec
CONSTANTS
    Tickets = {t1, t2, t3}
    Roots = {t1}
    Sessions = {s1, s2}
    Contents = {c1, c2}
    Evidence = {e1, e2}
    PullRequests = {p1}
    Blockers = {}
    Profiles <- SplitProfiles
    Allocations <- SplitAllocations
    Grants <- SplitGrants
    Used <- SplitUsed
    Pausable <- SplitPausable
    WritersDie = FALSE
    MaxRevisions = 0
    AmendsFrom <- Never
    NoSession = NoSession
    NoContent = NoContent
    NoPr = NoPr
SYMMETRY Symmetry
INVARIANTS
    ReviewIsIndependent
    AllowanceConserved
