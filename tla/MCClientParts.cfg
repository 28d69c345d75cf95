SPECIFICATION MCSpec
CONSTANTS
    TrContainers = {"c1", "c2"}
    TrPorts = {5432}
    TrPackets = {1, 2, 3}
    TrNets = {11, 12}
    TrNone = none
    TrPermits = 2
    TrOwners <- MCTrOwners
    HeNets = {"n1", "n2"}
    EpSides = {"s", "c"}
    GeNets = {"n1", "n2"}
    GeMaxLinks = 2
    GeMaxCarriers = 2
    PfMaxEdits = 2
    PfMaxDrops = 1
    PfConfigs <- MCPfConfigs
    PfPaths <- MCPfPaths
    PdConns = {"h", "t", "u"}
    PdServices = {"a", "b"}
    CLOSE_RETRIES = 2
    PdSlots = 2
    PdMaxFaults = 1
    PdMaxRetries = 1
    PdKind <- MCPdKind
CHECK_DEADLOCK FALSE
INVARIANTS HeldPacketsWake RulesFollowClaims StandingEdgesServe EndpointsStandOrGo
INVARIANTS CarriersMatchMembers RequestsFollowConfig 
