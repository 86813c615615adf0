\* The same instances: two workflows, two tickers.
CONSTANTS
    CnvCreates <- MCCreates
    CasOpens = {a, b, c}
    WfeInstances <- MCInstances
    WfeWorkers = {w, v}
    WfeMaxTicks = 2
    TmpMaxAttempts = 2
    FsRows <- MCRows
    FsMaxRows = 1
    FsMaxFailing = 1
    IdxEvents <- MCEvents
    IdxQueueSize = 2
    IdxDedupeSize = 3
    IdxMaxDeliveries = 2
    NatMessages = {m, p}
    NatPoison = {p}
    NatSubs = {s, t}
    NatMaxDeliver = 2
    HubConns <- MCConns
    HubMaxTotal = 2
    HubBuffer = 1
    HubMaxEvents = 2
    TgwKeys = {j, k}
    TgwLimits = {1, 3}
    TgwCap = 2
    TgwMinute = 2
    TgwMaxKeys = 1
    TgwMaxTime = 2
    TgwMaxCalls = 3
SPECIFICATION PlSpec
INVARIANT WfeExecutedStepRecorded
CHECK_DEADLOCK FALSE
