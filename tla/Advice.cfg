SPECIFICATION Spec
CONSTANTS
    MaxAge = 5
    Tolerance = 1
    IssuerAge = 45
    Limit = 5
    Taxonomy = {"technology", "energy"}
    MaxExpense = 1
    MinVolume = 5
    MaxConcentration = 6
    Regions = {"PCX"}
    TotalWeight = 10000
    MinPositions = 3
    MaxPositions = 5
    PoolLimit = 10
    MinWeight = 500
    MaxWeight = 8000
    MaxCategory = 8000
    GrowthCategories = {1, 2}
    DefensiveCategories = {4}
    RateNum = 11
    RateDen = 10
    Profiles <- MCProfiles
    Altered <- MCAltered
    Ranked <- Index
    Elsewhere <- MCElsewhere
    FxOutcomes = {"none", "fx_missing", "fx_stale"}
    MaxFound = 6
INVARIANTS
    PositionsAreVerified
    DraftReconciles
    ShortlistSearchIsComplete
