SPECIFICATION FairSpec
CONSTANTS
    k1 = k1
    d1 = d1
    d2 = d2
    Keys = {k1}
    Dsts = {d1, d2}
    Builds = {1, 2}
    MAX_DESTS_PER_EDGE = 1
    MAX_PENDING_DSTS = 1
    MaxDeaths = 1
PROPERTY StaleIsReclaimed
INVARIANTS NoStrandedNet RowsAgree
CHECK_DEADLOCK FALSE
