CONSTANTS
    c1 = c1
    c2 = c2
    Ctrls <- MCTwoCtrls
    DebugLogging <- MCFirstLogs
    CanOpen = TRUE
    MaxEpochsPerCtrl = 20
SPECIFICATION Spec
CHECK_DEADLOCK FALSE
INVARIANTS
    OneRowPerInterval
