\* A window of one level; pulls race cancels and fills, and time out.
CONSTANTS
    s1 = s1
    alice = alice
    anon = anon
    Symbol <- MCSymbols
    Owner <- MCOneOwner
    Anonymous = anon
    Order <- MCFewOrders
    MaxOrders = 3
    MemLevels = 1
    HelperMayClose = FALSE
    HelperKinds = {"database"}
    InitialNet <- MCLong
    Faults = {"late", "pull"}
    MaxFaults = 1
SPECIFICATION SysSpec
INVARIANTS
    ResidentIsAlive
    StoreHoldsTheBook
    PositionsAgree
    LiveOrdersAreCancellable
\* The model stops when all MaxOrders orders are decided.
CHECK_DEADLOCK FALSE
