SPECIFICATION Spec
CONSTANTS
    Registrars = {r1}
    Stages <- MCPair
    Order <- MCPairOrder
    Root = "incoming"
    Parent <- MCPairParent
    Reporter <- MCPairReporter
    Statuses = {"SUCCESS"}
    Restores = {TRUE, FALSE}
    ByBatch = FALSE
    MaxContent = 3
INVARIANTS
    OneCurrent
CHECK_DEADLOCK FALSE
