CONSTANTS
    Own = {o1}
    Ext = {}
    MaxQty = 2
    Closing = {"canceled"}
    OneId = TRUE
    Overlap = 1
    Nothing = Nothing
    Suspends = FALSE
    BrokerFaults = FALSE
    DbFaults = FALSE
    MaxOrders = 1
    MaxTime = 1
    MaxCrashes = 1
    MaxDrops = 0
    MaxStream = 1
SPECIFICATION FairSpec
INVARIANTS
    QuietMeansSeen
PROPERTIES
    PendingResolves
    FillsArrive
    CancelSettles
