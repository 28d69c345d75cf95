SPECIFICATION MCSpec
CONSTANTS
    BsKeys = {k1}
    BsGens = {1, 2, 3}
    BsMaxIngress = 1
    BsMaxNets = 4
    PsReplicas = {1, 2}
    PsMaxCmds = 3
    PsContainer <- MCPsContainer
    LpMaxCount = 2
    LpEpochs = {1, 2}
    LpLatencies = {1, 2}
    LpSlack = 0
    AdHosts = {"p", "d"}
    AdPairs <- MCAdPairs
    BUCKET_BURST = 1
    RECOVERY_QUIET = 1
    COMPLETION_HISTORY = 2
    AdMaxRate = 1
    CfStacks = {"a", "b"}
    CfHosts = {"h"}
    CfRequests = {r1, r2}
    CfMaxEdits = 4
    CfMaxFaults = 1
    CfOffers <- MCCfOffers
    TfFlows = {f1}
    TfSessions = {s1}
    TfCacheEmpty = FALSE
    TfMaxChanges = 2
    FrRules <- MCFrRules
    FrCountries = {"x", "y"}
    FrAddresses = {"a", "b"}
    FrMaxGroups = 2
    FrMaxRules = 2
    AcUsers = {u1, u2}
    AcRequests = {r1, r2}
    AcTokens = {1, 2}
    NoAc = NoAc
    AcAdmin = u1
    AcMaxFailed = 2
    AcTtl = 1
    AcMaxRequests = 4
    AcMaxVer = 2
    AcMaxSecret = 2
    AcMaxFaults = 1
    CtDomains = {"e"}
    CtUiNames <- MCCtUiNames
    CtHandlers = {h1}
    CtMaxIssues = 2
    CtMaxDeletes = 1
    CtMaxFaults = 1
    MIN_NET_ID = 101
    MAX_NET_ID = 105
CHECK_DEADLOCK FALSE
INVARIANT StoredConfigLoads
