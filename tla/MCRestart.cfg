\* The server dies once; its helper is of either kind and may fail.
CONSTANTS
    s1 = s1
    anon = anon
    Symbol <- MCSymbols
    Owner <- MCNoOwner
    Anonymous = anon
    Order <- MCOrders
    MaxOrders = 2
    MemLevels = 2
    HelperMayClose = TRUE
    HelperKinds = {"reference", "database"}
    InitialNet <- MCLong
    Faults = {"late", "pull", "refused", "closed", "unsent", "unseeded"}
    MaxFaults = 1
    MaxSessions = 2
SPECIFICATION RestartSpec
PROPERTIES
    NoTradeThrough
    RestartKeepsTheBook
    IdsAreFresh
\* The model stops when all MaxOrders orders of the last session are decided.
CHECK_DEADLOCK FALSE
