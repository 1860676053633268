SPECIFICATION Spec
CONSTANTS
    Registrars = {r1, r2}
    Stages <- MCPair
    Order <- MCPairOrder
    Root = "incoming"
    Parent <- MCPairParent
    Reporter <- MCPairReporter
    Statuses = {"SUCCESS"}
    Restores = {TRUE}
    ByBatch = FALSE
    MaxContent = 3
INVARIANTS
    VersionsAreUnique
    ParentIsRegistered
    ParentSuppliesInput
SYMMETRY RegistrarSymmetry
CHECK_DEADLOCK FALSE
