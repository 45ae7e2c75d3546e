SPECIFICATION Spec
CONSTANTS
    Publishers = {p1, p2}
    k1 = k1
    k2 = k2
    i1 = i1
    i2 = i2
    Keys = {k1, k2}
    Isins = {i1, i2}
    Candidates <- MCCandidates
    Absent = Absent
    Free = Free
    MaxAttempts = 3
    MaxFaults = 2
SYMMETRY Symmetry
INVARIANTS
    RegistryIsOneHistory
CHECK_DEADLOCK FALSE
