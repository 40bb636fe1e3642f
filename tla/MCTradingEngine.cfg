\* Bounded book, a helper that may die at any moment.
CONSTANTS
    s1 = s1
    s2 = s2
    alice = alice
    bob = bob
    anon = anon
    o1 = o1
    Symbol <- MCSymbols
    Owner <- MCOneOwner
    Anonymous = anon
    Order <- MCOrders
    MaxOrders = 3
    MemLevels = 1
    HelperMayClose = TRUE
SPECIFICATION FairSpec
INVARIANTS
    ReportBeforePlace
PROPERTIES
    ImplementsArrivalOrder
    DecidedOncePullsEnd
\* The model stops when all MaxOrders orders are decided.
CHECK_DEADLOCK FALSE
