SPECIFICATION FairSpec
CONSTANTS
    Second = 5
    NULL = NULL
    Calls = {c1, c2, c3}
    Builders <- MCBuilders
    MaxTries = 2
    MaxTime = 6
INVARIANTS TypeOK PermitsConserved StartRate BoundedWait
PROPERTIES EveryWaitEnds
CHECK_DEADLOCK FALSE
