SPECIFICATION SceneSpec
CONSTANTS
    s1 = s1
    s2 = s2
    flatten = flatten
    Sweep = {s1, s2}
    Flatten = flatten
    SurvivalRungs = 1
    LadderRungs = 1
    BuyQty = 4
    MaxBuys = 2
    MaxExits = 2
    MaxFaults = 1
SYMMETRY SweepSymmetry
INVARIANTS
    TypeOK
    HoldingsFollowFills
    SavedIsCurrent
    SuppressedWhilePending
CHECK_DEADLOCK FALSE
