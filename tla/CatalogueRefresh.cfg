SPECIFICATION Spec
CONSTANTS
    x1 = x1
    x2 = x2
    a = a
    b = b
    c = c
    d = d
    e = e
    Symbols = {a, b, c, d, e}
    Manifest <- MCManifest
    Listings <- MCListings
    Additions <- MCAdditions
    PageSize = 2
    MaxPages = 2
    MaxRows = 4
    MaxAttempts = 6
    MaxChanges = 2
INVARIANTS
    CompleteIsTrue
CHECK_DEADLOCK FALSE
