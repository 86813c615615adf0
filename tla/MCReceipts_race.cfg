\* Two draining workers race a carrier request and an agent; every fault.
SPECIFICATION Spec
CONSTANTS
    ReceiptIds = {"sim_ringing", "sim_ended", "web_ringing"}
    Calls = {c1}
    Subject <- AllToOneCall
    Target <- EventTarget
    Simulated = {"sim_ringing", "sim_ended"}
    Earlier <- SimulatorOrder
    Workers = {w1, w2}
    Requests = {q1}
    OperatorMoves = {"completed"}
    MaxAttempts = 1
    BatchSize = 2
    MaxCrashes = 1
    MaxDBErrors = 1
    MaxRedeliveries = 1
SYMMETRY WorkerSymmetry
INVARIANTS
    IInv
    SingleEffect
    ProcessedMeansReached
CHECK_DEADLOCK FALSE
