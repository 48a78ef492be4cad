SPECIFICATION Spec
CONSTANTS
    o1 = o1
    o2 = o2
    o3 = o3
    x1 = x1
    mA = mA
    mB = mB
    Order = {o1, o2}
    ForeignOrder = {x1}
    Mint = {mA, mB}
    MintOf <- MCMintOf
    PendingTimeout = 2
    MatchJitter = 1
    PollLimit = 2
    OrderIdMatching = TRUE
    MaxTime = 3
    MaxRow = 3
    MaxRestart = 1
INVARIANTS
    TypeOK
    IndexesAgree
    RewardedOnce
    RowUsedOnce
    OnlyTiesAreSkipped
    ShiftIsFifo
    MisattributedOnlyWhenAbsent
PROPERTY RefinesLedger
CHECK_DEADLOCK FALSE
