SPECIFICATION FairSpec
CONSTANTS
    Procs = {p1}
    Files <- MCFiles
    RequiredFiles <- MCRequiredFiles
    Api = "popularity"
    Batches = {b1}
    Storage = "s3"
    ApiUrls = {"http"}
    Scheduled = TRUE
    ApiAttempts = 2
    S3Attempts = 2
    MaxHour = 1
    MaxGen = 2
    MaxRuns = 3
INVARIANTS
    ManifestDescribesStore
    SuccessfulRunIsStored
    ChecksumsAreTrue
PROPERTIES
    NeverOverwritten
    RunTerminates
CHECK_DEADLOCK FALSE
