SPECIFICATION Spec
CONSTANTS
    o1 = o1
    o2 = o2
    Order = {o1}
    MaxAttempts = 2
    MinAttempts = 3
    ThresholdNum = 1
    ThresholdDen = 4
    JitoEnabled = FALSE
    ShadowMode = TRUE
    MaxWindow = 1
    MaxFaults = 1
    MaxCrash = 0
INVARIANT ShadowSendsNothing
CHECK_DEADLOCK FALSE
