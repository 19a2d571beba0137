SPECIFICATION FairSpec
CONSTANTS
    MaxAttempts = 3
    BaseDelay = 1
    MaxDelay = 2
    MaxRetryAfter = 3
    JitterPercent = 50
    QpsWait = 1
    PermitWait = 1
    RequestTimeout = 1
    NULL = NULL
INVARIANTS TypeOK AtMostOneDelivery HonestOutcome BoundedOccupation
PROPERTIES ImplementsApiCall EveryCallReturns
CHECK_DEADLOCK FALSE
