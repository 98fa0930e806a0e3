CONSTANTS
    Own = {o1}
    Ext = {}
    MaxQty = 1
    Closing = {"canceled"}
    OneId = FALSE
    Overlap = 1
    Nothing = Nothing
    Suspends = FALSE
    BrokerFaults = FALSE
    DbFaults = FALSE
    MaxOrders = 1
    MaxTime = 0
    MaxCrashes = 0
    MaxDrops = 0
    MaxStream = 1
SPECIFICATION Spec
INVARIANTS
    OverFetchingIsFree
