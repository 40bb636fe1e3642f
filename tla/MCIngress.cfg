CONSTANTS
    InFd = in_fd
    OutFd = out_fd
    Fd = {in_fd, out_fd, f1, f2}
    Delay = {1, 2}
    Milli = 2
    Cap = 1
    MaxLag = 1
    MaxEvents = 3
    MaxTimers = 2
    MaxWork = 3
    MaxRequests = 2
    PipeSize = 2
    MaxTextRecord = 2
    MaxBinaryPayload = 3
SPECIFICATION IngressFairSpec
INVARIANTS
    EachRequestOnce
PROPERTIES
    EventsReachTheirHandler
    CancelledNeverFires
    DueTimersFire
    HelperIsAnswered
