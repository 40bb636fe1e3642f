CONSTANTS
    u1 = u1
    u2 = u2
    none = none
    Fd = {f1}
    User <- MCUser
    None = none
    Handshake <- MCHandshake
    AuthHeader = TRUE
    AuthHelper = TRUE
    MaxParts = 2
    MaxConns = 2
    MaxSent = 3
    MaxUpdates = 2
SPECIFICATION WsFairSpec
INVARIANTS
    ResultsAreOwn
    SubscribersSeeAll
PROPERTIES
    OrdersAreOwned
    OrdersAreAnswered
\* Connections, frames and updates are bounded, and a broadcast may end the process.
CHECK_DEADLOCK FALSE
