SPECIFICATION PSpec
CONSTANTS
    Orders = {o1, o2}
    Intents = {i1, i2}
    Coordinators = {k1, k2}
    w1 = w1
    name = name
    Workers <- MCWorkers
    OwnerNames = {name}
    Owner <- MCOwner
    NULL = NULL
    Lease = 1
    Skew = 0
    Deadlines <- MCDeadlines
    Limit = 1
    MaxTime = 0
    MaxVersion = 1
    MaxCrashes = 2
INVARIANTS PTypeOK PaidOrderTraceable ResolvedHasItsOrder LinkedIntentResolved
PROPERTIES ImplementsLedger
SYMMETRY MCSymmetry
CHECK_DEADLOCK FALSE
