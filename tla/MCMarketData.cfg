SPECIFICATION StoreSpec
CONSTANTS
    Menu <- MCMenu
    Account <- MCAccount
    Group = {1}
    Price = {1, 2, 3, 4}
    Seed <- MCSeed
    Stp = "resting"
    MaxOrders = 4
INVARIANT ReplicaIsTheBook
INVARIANT StopsAreQuiescent
INVARIANT DerivedStateIsFresh
INVARIANT ReduceOnlyNeverFlips
INVARIANT StorageRebuildsTheQueue
PROPERTY PegsFollowReference
PROPERTY LinksAreProcessed
PROPERTY MatchIsPriceTime
VIEW MCView
CHECK_DEADLOCK FALSE
