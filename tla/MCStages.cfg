SPECIFICATION Spec
CONSTANTS
    Files <- MCFiles
    Retries <- MCRetries
    Parameters <- MCParameters
    MaxRuns = 2
    MaxHour = 1
    MaxRelease = 2
    MaxFaults = 1
    MaxBatches = 6
INVARIANTS
    TypeOK
    FreshBatchIsCurrent
    TrainedOnOwnBatch
    FeaturesStoredOnce
    FaultFreeRunsFailForCause
    StrictRunsTrainOnCleanBatches
PROPERTIES
    ImplementsLineage
    DagRunEnds
CHECK_DEADLOCK FALSE
