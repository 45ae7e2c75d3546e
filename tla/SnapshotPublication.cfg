SPECIFICATION Spec
CONSTANTS
    Snapshots <- MCSnapshots
    Symbols <- MCSymbols
    Members <- MCMembers
    Publishers = {p1, p2}
    Readers = {r1}
    Indexers = {i1}
    None = None
    Generic = Generic
    MaxFaults = 1
INVARIANTS
    TypeOK
    ActiveIsComplete
PROPERTIES
    NoLostPublication
    AtomicCatalog
CHECK_DEADLOCK FALSE
