\* One dispatcher, three rows in batches of two, every kind of fault.
SPECIFICATION FairSpec
CONSTANTS
    Events = {1, 2, 3}
    Workers = {w1}
    Tokens = {t1, t2, t3}
    NoToken = none
    MaxAttempts = 2
    BatchSize = 2
    MaxCrashes = 1
    MaxBusErrors = 2
    MaxDBErrors = 1
INVARIANT NoOrphanRow
PROPERTIES
    ImplementsDeliveryFinal
    EventuallyClosed
CHECK_DEADLOCK FALSE
