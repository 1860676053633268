SPECIFICATION Spec
CONSTANTS
    Blank = Blank
    Garbled = Garbled
    Fraction = Fraction
    Lookback = 6
    MinDelay = 1
    MaxDelay = 2
    Inactivity = 1
    Prices <- MCPrices
    Categories <- MCCategories
    Brands <- MCBrands
    Now = 7
    FutureTolerance = 1
    MaxAge = 5
    ValidationPercent = 15
    TestPercent = 15
    MinimumRecords = 3
    SourceSplit = "train"
    ColdUserMinimum = 3
    ColdItemUsers = 2
    LowPercent = 33
    HighPercent = 67
    MinCooccurrence = 2
    SupportPerMille = 10
    MaxNeighbors = 1
    SimilarTopK = 1
    MinSimilarity = 10
    TopK = 2
    Threshold = 4
    Sources <- MCSources
    Offsets <- MCOffsets
    Quantities = {2}
    Drifts <- MCDrifts
    Damaged <- MCDamaged
    MaxDefects = 1
    StrictModes = {TRUE, FALSE}
    Appeals <- MCAppeals
INVARIANTS
    TypeOK
    CleanBatchPasses
    CleanBatchFlows
    ValidRowsAreTrue
    ContaminationIsLocal
    ScoreAgreesWithVerdict
    LookupFailsForQuarantinedProduct
    EventFeaturesSeeOnlyThePast
    FeatureTablesAgree
    RecommendsUnseenOnly
    MetricsAreShares
CHECK_DEADLOCK FALSE
