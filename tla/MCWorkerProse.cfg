SPECIFICATION WSpec
CONSTANTS
    Orders = {o1}
    Intents = {i1}
    w1 = w1
    w2 = w2
    name = name
    Workers <- MCWorkers
    OwnerNames = {name}
    Owner <- MCOwner
    NULL = NULL
    Lease = 2
    Skew = 0
    Deadlines <- MCDeadlines
    Limit = 1
    MaxTime = 5
    MaxVersion = 20
    Poll = 1
    Life = 2
    MaxCall = 1
    MaxFaults = 1
    LastFault = 2
    Prompt = FALSE
    Prose = TRUE
INVARIANTS EndIsCorroborated
CHECK_DEADLOCK FALSE
