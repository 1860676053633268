SPECIFICATION Spec
CONSTANTS
    Files <- MCFiles
    Retries <- MCRetries
    Parameters <- MCParameters
    MaxRuns = 2
    MaxHour = 1
    MaxRelease = 2
    MaxFaults = 1
    MaxBatches = 6
INVARIANTS
    GateMeansOwnManifest
CHECK_DEADLOCK FALSE
