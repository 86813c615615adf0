\* One worker drains the simulator's receipts and crashes between any two steps.
SPECIFICATION FairSpec
CONSTANTS
    ReceiptIds = {"sim_ringing", "sim_connected", "sim_ended"}
    Calls = {c1}
    Subject <- AllToOneCall
    Target <- EventTarget
    Simulated = {"sim_ringing", "sim_connected", "sim_ended"}
    Earlier <- SimulatorOrder
    Workers = {w1}
    Requests = {}
    OperatorMoves = {}
    MaxAttempts = 1
    BatchSize = 3
    MaxCrashes = 3
    MaxDBErrors = 0
    MaxRedeliveries = 0
PROPERTIES
    AppliedRowsGetMarked
    HangupTakesEffect
CHECK_DEADLOCK FALSE
