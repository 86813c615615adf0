\* Sends that repeat, tables at their cap, a carrier that may lose its answer.
CONSTANTS
    AtsRequests <- MCSends
    AtsMaxRetries = 1
    AtsCap = 1
    AtuCallbacks <- MCCallbacks
    AtuCap = 1
    TwsRequests <- MCSends
    TwsMaxRetries = 1
    WacRequests = {a, b}
    WacMaxAttempts = 2
SPECIFICATION MpSpec
INVARIANTS
    AtsSendsAccounted
    AtuSessionsKept
    TwsSingleSend
    WacDeliveriesHonest
PROPERTIES
    WacStatusArrives
CHECK_DEADLOCK FALSE
