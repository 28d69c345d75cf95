SPECIFICATION FairSpec
CONSTANTS
    i1 = i1
    i2 = i2
    b1 = b1
    e1 = e1
    d1 = d1
    d2 = d2
    IngressKeys = {i1}
    BackendKeys = {b1}
    EgressNets = {e1}
    Dsts = {d1}
    CAPACITY = 2
    BATCH_SIZE = 2
    MaxLives = 3
    MaxRestarts = 1
PROPERTY GapCloses
INVARIANTS OpenRowsAreLive ExactUnlessInterrupted
CHECK_DEADLOCK FALSE
