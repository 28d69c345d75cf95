SPECIFICATION MCSpec
CONSTANTS
    p1 = p1
    p2 = p2
    x1 = x1
    x2 = x2
    a1 = a1
    a2 = a2
    b1 = b1
    c1 = c1
    c2 = c2
    EntryService = "A"
    Replicas <- Single
    ServiceOf <- Served
    ProxyClients = {p1, p2}
    Deployments <- HitOrShared
    MaxNets = 4
    RgNodes = {"n1", "n2"}
    RgProxy = "n2"
    RgUnits = {"c1", "proc"}
    RgMaxUses = 1
    RgMaxChanges = 2
    RgKey <- MCRgKey
    RgConfigs <- MCRgConfigs
    RgAtStart <- MCRgAtStart
CHECK_DEADLOCK FALSE
INVARIANTS NothingStranded ReplicasFollowReports
 
