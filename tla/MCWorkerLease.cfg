SPECIFICATION WSpec
CONSTANTS
    Orders = {o1, o2}
    Intents = {i1, i2}
    w1 = w1
    w2 = w2
    name = name
    Workers <- MCOneWorker
    OwnerNames = {name}
    Owner <- MCOneOwner
    NULL = NULL
    Lease = 2
    Skew = 0
    Deadlines <- MCDeadlines
    Limit = 2
    MaxTime = 4
    MaxVersion = 8
    Poll = 1
    Life = 4
    MaxCall = 1
    MaxFaults = 0
    LastFault = 3
    Prompt = TRUE
    Prose = FALSE
INVARIANTS ClaimOutlivesCall
CHECK_DEADLOCK FALSE
