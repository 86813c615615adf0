\* One dispatcher that crashes once and then runs for ever.
SPECIFICATION FairSpec
CONSTANTS
    Events = {1}
    Workers = {w1}
    Tokens = {t1, t2}
    NoToken = none
    MaxAttempts = 2
    BatchSize = 1
    MaxCrashes = 1
    MaxBusErrors = 0
    MaxDBErrors = 0
PROPERTY AbandonedRowsReclaimed
CHECK_DEADLOCK FALSE
