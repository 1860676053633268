SPECIFICATION Spec
CONSTANTS
    Procs = {p1, p2}
    Files <- MCFiles
    RequiredFiles <- MCRequiredFiles
    Api = "popularity"
    Batches = {b1}
    Storage = "s3"
    ApiUrls = {"http"}
    Scheduled = FALSE
    ApiAttempts = 2
    S3Attempts = 1
    MaxHour = 0
    MaxGen = 2
    MaxRuns = 2
PROPERTIES
    NeverOverwritten
CHECK_DEADLOCK FALSE
