SPECIFICATION LvFairSpec
CONSTANTS
    o1 = o1
    o2 = o2
    f1 = f1
    f2 = f2
    f3 = f3
    NoOwner = NoOwner
    Owners = {o1}
    Flows = {f1, f2}
    MayOwn <- Attribution
    MaxFlushes = 0
PROPERTY NeverReapedOpen
