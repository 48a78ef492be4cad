SPECIFICATION Spec
CONSTANTS
    o1 = o1
    o2 = o2
    Order = {o1, o2}
    MaxAttempts = 2
    MinAttempts = 2
    ThresholdNum = 1
    ThresholdDen = 4
    JitoEnabled = TRUE
    ShadowMode = FALSE
    MaxWindow = 1
    MaxFaults = 1
    MaxCrash = 1
SYMMETRY OrderSymmetry
INVARIANTS
    FillsPerOrder
    RecordedOnlyIfLanded
    LandedIsRecorded
CHECK_DEADLOCK FALSE
