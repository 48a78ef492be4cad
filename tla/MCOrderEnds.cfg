SPECIFICATION FairSpec
CONSTANTS
    o1 = o1
    o2 = o2
    Order = {o1, o2}
    MaxAttempts = 2
    MinAttempts = 3
    ThresholdNum = 1
    ThresholdDen = 4
    JitoEnabled = FALSE
    ShadowMode = TRUE
    MaxWindow = 1
    MaxFaults = 2
    MaxCrash = 1
PROPERTY EveryExecutionEnds
CHECK_DEADLOCK FALSE
