\* Unbounded book, a helper that dies: is every order still decided?
CONSTANTS
    s1 = s1
    s2 = s2
    alice = alice
    bob = bob
    anon = anon
    o1 = o1
    Symbol <- MCOneSymbol
    Owner <- MCOneOwner
    Anonymous = anon
    Order <- MCOrders
    MaxOrders = 3
    MemLevels = 0
    HelperMayClose = TRUE
SPECIFICATION FairSpec
PROPERTIES
    EveryOrderIsDecided
\* All MaxOrders orders decided: the model, like an idle server, stops.
CHECK_DEADLOCK FALSE
