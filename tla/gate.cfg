CONSTANTS
    Buys = {b1, b2}
    Sells = {s1}
    OtherBuys = {x1}
    OtherSells = {}
    MaxOrders = 2
    MaxLoss = 1
    Rooms = {0, 1}
    NumRequests = 2
    MaxDay = 1
    MaxDeletes = 1
    MaxCrashes = 1
    Overlapping = FALSE
    None = None
SYMMETRY BuySymmetry
SPECIFICATION Spec
INVARIANTS
    CapHolds
    PauseHolds
PROPERTY
    JudgedOnCurrentLog
CHECK_DEADLOCK FALSE
