CONSTANTS
    Own = {o1}
    Ext = {x1}
    MaxQty = 2
    Closing = {"canceled"}
    OneId = FALSE
    Overlap = 1
    Nothing = Nothing
    Suspends = TRUE
    BrokerFaults = TRUE
    DbFaults = TRUE
    MaxOrders = 1
    MaxTime = 0
    MaxCrashes = 1
    MaxDrops = 1
    MaxStream = 1
SPECIFICATION Spec
INVARIANTS
    TypeOK
    BookedOnce
    PersistedBeforeSent
    EndsTruthfully
PROPERTIES
    TerminalIsFinal
    PartialNeverFallsBack
    ImplementsBook
