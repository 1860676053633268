SPECIFICATION Spec
CONSTANTS
    Procs = {p1, p2}
    Files <- MCFiles
    RequiredFiles <- MCRequiredFiles
    Api = "popularity"
    Batches = {b1}
    Storage = "local"
    ApiUrls = {"http", "other"}
    Scheduled = FALSE
    ApiAttempts = 2
    S3Attempts = 2
    MaxHour = 0
    MaxGen = 2
    MaxRuns = 3
INVARIANTS
    TypeOK
    ManifestDescribesStore
    SuccessfulRunIsStored
    SuccessfulRunsAgree
PROPERTIES
    NeverOverwritten
    ImplementsRawStore
CHECK_DEADLOCK FALSE
