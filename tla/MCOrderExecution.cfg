SPECIFICATION Spec
CONSTANTS
    o1 = o1
    o2 = o2
    Order = {o1, o2}
    MaxAttempts = 2
    MinAttempts = 3
    ThresholdNum = 1
    ThresholdDen = 4
    JitoEnabled = TRUE
    ShadowMode = FALSE
    MaxWindow = 2
    MaxFaults = 0
    MaxCrash = 1
SYMMETRY OrderSymmetry
INVARIANTS
    TypeOK
    RetryOnlyInDoubt
    StatusTellsFills
    RouteStatsExact
PROPERTIES
    NoRetryIntoQuarantine
    RefinesLifecycle
CHECK_DEADLOCK FALSE
