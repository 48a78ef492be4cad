SPECIFICATION SceneSpec
CONSTANTS
    s1 = s1
    s2 = s2
    flatten = flatten
    Sweep = {s1, s2}
    Flatten = flatten
    SurvivalRungs = 0
    LadderRungs = 2
    BuyQty = 4
    MaxBuys = 1
    MaxExits = 2
    MaxFaults = 0
SYMMETRY SweepSymmetry
INVARIANT RungFiresOnce
CHECK_DEADLOCK FALSE
