SPECIFICATION Spec
CONSTANTS
    n1 = n1
    n2 = n2
    Nodes = {n1, n2}
    Builds = {1, 2}
    Shapes <- AllShapes
    MaxSessions = 2
    SessionsOf <- OneRestarts
    MIN_NET_ID = 101
    MAX_NET_ID = 101
    Ordered = TRUE
INVARIANTS LivesKeptApart LiveEdgeStands TornDownIsForgotten
PROPERTY PoolContract
CHECK_DEADLOCK FALSE
