CONSTANTS
    Writers = {w1, w2}
    Clients = {c1}
    Checks = {k1}
    Capacity = 1
    MaxFailures = 2
    Broadcaster = Broadcaster
    Blank = Blank
    Nothing = Nothing
SPECIFICATION FairSpec
INVARIANTS
    NothingStale
PROPERTY
    Delivered
    SplitsCatchUp
CHECK_DEADLOCK FALSE
