\* One call on each provider: placed, hung up, transferred; sessions that drop.
CONSTANTS
    AmiRequests = {a, b}
    AmiMaxSessions = 2
    AvRequests <- MCAvRequests
    AvMaxCommands = 1
    AvMaxDrops = 1
    AvMaxSent = 1
    AvQueueSize = 2
    EslRequests = {a, b, c}
    EslMaxConns = 2
    EvRequests <- MCEvRequests
    EvMaxCommands = 1
    EvMaxDrops = 1
    AtvRequests <- MCAtvRequests
    AtvMaxRetries = 1
    AtvMaxCallbacks = 2
    TwvRequests <- MCTwvRequests
    TwvMaxRetries = 1
SPECIFICATION VpSpec
INVARIANTS
    AvLegLife
    EvLegLife
    AtvCommandsHonest
    TwvTruthful
    AmiRepliesReach
    EslOwnReply
PROPERTIES
    EslCloseEnds
    AmiImplementsCommands
    EslImplementsCommands
CHECK_DEADLOCK FALSE
