SPECIFICATION FairSpec
CONSTANTS
    n1 = n1
    n2 = n2
    Nodes = {n1, n2}
    Builds = {1}
    Shapes <- GroupShapes
    MaxSessions = 2
    SessionsOf <- OneRestarts
    MIN_NET_ID = 101
    MAX_NET_ID = 101
    Ordered = TRUE
PROPERTIES BuildsSettle NoForgottenProcess
CHECK_DEADLOCK FALSE
