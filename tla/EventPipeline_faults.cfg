\* Two processes, one event, every kind of fault.
SPECIFICATION PipelineFairSpec
CONSTANTS
    Events = {1}
    Workers = {w1, w2}
    Tokens = {t1, t2, t3}
    NoToken = none
    MaxAttempts = 2
    BatchSize = 1
    MaxCrashes = 1
    MaxBusErrors = 1
    MaxDBErrors = 1
    MaxHandlers = 2
INVARIANT EffectLostOnlyByFault
PROPERTY EveryEventTakesEffect
CHECK_DEADLOCK FALSE
