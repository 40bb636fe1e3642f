SPECIFICATION StoreSpec
CONSTANTS
    Menu <- MCBracketMenu
    Account <- MCAccount
    Group = {1}
    Price = {1, 2, 3, 4}
    Seed <- MCSeed
    Stp = "none"
    MaxOrders = 5
PROPERTY OcoLegsExclude
CHECK_DEADLOCK FALSE
