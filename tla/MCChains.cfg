SPECIFICATION FairSpec
CONSTANTS
    p1 = p1
    p2 = p2
    x1 = x1
    x2 = x2
    a1 = a1
    a2 = a2
    b1 = b1
    c1 = c1
    c2 = c2
    EntryService = "A"
    Replicas <- Single
    ServiceOf <- Served
    ProxyClients = {p1, p2}
    Deployments <- Overlapping
    MaxNets = 4
INVARIANTS HoldersAreCounted NothingStranded
PROPERTY RequestsReturn
CHECK_DEADLOCK FALSE
