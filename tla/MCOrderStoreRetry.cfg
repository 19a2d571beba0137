SPECIFICATION Spec
CONSTANTS
    Orders = {o1}
    Intents = {}
    w1 = w1
    w2 = w2
    name = name
    Workers <- MCWorkers
    OwnerNames = {name}
    Owner <- MCOwner
    NULL = NULL
    Lease = 1
    Skew = 1
    Deadlines <- MCDeadlines
    Limit = 1
    MaxTime = 3
    MaxVersion = 4
PROPERTIES RetryKeepsReconcileOnly
CHECK_DEADLOCK FALSE
