SPECIFICATION CoreSpec
CONSTANTS
    f1 = f1
    Request = {}
    HealthTtl = 1
    Patience = 1
    LastTime = 1
    Flatten = {f1}
    Dashboard = {}
    MaxBoots = 1
    MaxEdits = 0
INVARIANT FlattenNeedsWallet
CHECK_DEADLOCK FALSE
