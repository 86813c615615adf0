\* Two competing dispatchers, batches of up to two rows, every kind of fault.
SPECIFICATION Spec
CONSTANTS
    Events = {1, 2}
    Workers = {w1, w2}
    Tokens = {t1, t2, t3, t4}
    NoToken = none
    MaxAttempts = 2
    BatchSize = 2
    MaxCrashes = 1
    MaxBusErrors = 2
    MaxDBErrors = 1
SYMMETRY ModelSymmetry
INVARIANTS
    IInv
    NoSilentLoss
PROPERTIES
    ImplementsDelivery
CHECK_DEADLOCK FALSE
