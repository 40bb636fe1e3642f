\* A database helper that refuses writes and may die.
CONSTANTS
    OutboxMax = 2
    HelperMayDie = TRUE
    StoreMayFail = TRUE
    RestsAreNoted = TRUE
    MaxRequests = 5
SPECIFICATION OutboxSpec
INVARIANTS
    CalledBackOnce
    CommittedIsHandled
    ConfirmedIsGone
\* The model stops when MaxRequests requests are answered.
CHECK_DEADLOCK FALSE
