\* Two connections over one descriptor, two pipelined requests each.
CONSTANTS
    Fd = {f1}
    Request <- MCRequest
    MaxHeader = 6
    MaxBody = 2
    MaxSizeLine = 1
    MaxConns = 2
    MaxRequests = 2
    MaxResponses = 3
SPECIFICATION HttpFairSpec
INVARIANTS
    AnsweredInOrder
PROPERTIES
    ShutIsErased
    RequestsAreAnswered
\* The model stops when every connection is closed.
CHECK_DEADLOCK FALSE
