SPECIFICATION Spec
CONSTANTS
    Registrars = {r1}
    Stages <- MCPair
    Order <- MCPairOrder
    Root = "incoming"
    Parent <- MCPairParent
    Reporter <- MCPairReporter
    Statuses = {"SUCCESS", "FAILED"}
    Restores = {}
    ByBatch = TRUE
    MaxContent = 3
INVARIANTS
    TypeOK
    OneCurrent
    FullRegistrationGivesLineage
    FullRegistrationVerifies
    RegistryIsReadable
PROPERTIES
    HistoryIsRetained
CHECK_DEADLOCK FALSE
