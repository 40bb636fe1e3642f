\* Two helpers with one slot each, caches of two entries and two bytes.
CONSTANTS
    c1 = c1
    c2 = c2
    c3 = c3
    Credential <- MCCredential
    SizeOf <- MCSizeOf
    Helpers = 2
    Depth = 1
    PositiveCapacity = 2
    NegativeCapacity = 1
    PositiveTtl = 2
    NegativeTtl = 1
    MaxBytes = 2
    MaxPurge = 1
    HelperMayDie = TRUE
    MaxTime = 2
    MaxResolves = 4
SPECIFICATION AuthFairSpec
INVARIANTS
    CachesNeverDisagree
    CalledBackOncePerResolve
PROPERTIES
    ServedIsGranted
    EveryWaiterIsAnswered
\* The model stops when MaxResolves requests are answered and MaxTime has come.
CHECK_DEADLOCK FALSE
