SPECIFICATION FairSpec
CONSTANTS
    o1 = o1
    o2 = o2
    o3 = o3
    x1 = x1
    mA = mA
    mB = mB
    Order = {o1, o2, o3}
    ForeignOrder = {x1}
    Mint = {mA, mB}
    MintOf <- MCMintOf
    PendingTimeout = 2
    MatchJitter = 1
    PollLimit = 2
    OrderIdMatching = FALSE
    MaxTime = 3
    MaxRow = 2
    MaxRestart = 0
INVARIANT RewardedBySameMint
PROPERTY EverySelectionSettles
CHECK_DEADLOCK FALSE
