SPECIFICATION Spec
CONSTANTS
    Procs = {p1}
    Files <- MCFiles
    RequiredFiles <- MCRequiredFiles
    Api = "popularity"
    Batches = {b1}
    Storage = "local"
    ApiUrls = {"http"}
    Scheduled = TRUE
    ApiAttempts = 2
    S3Attempts = 2
    MaxHour = 0
    MaxGen = 2
    MaxRuns = 2
INVARIANTS
    SuccessIsCommitted
CHECK_DEADLOCK FALSE
