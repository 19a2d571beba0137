SPECIFICATION Spec
CONSTANTS
    MaxAttempts = 3
    BaseDelay = 1
    MaxDelay = 2
    MaxRetryAfter = 3
    JitterPercent = 20
    QpsWait = 1
    PermitWait = 1
    RequestTimeout = 1
    NULL = NULL
INVARIANTS WithinMaxInFlight
CHECK_DEADLOCK FALSE
