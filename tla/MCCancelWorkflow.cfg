SPECIFICATION FairSpec
CONSTANTS
    NoText = NoText
    Blank = Blank
    NoRule = NoRule
    TryLater = TryLater
    Text <- MCText
    Options <- MCOptions
    LockBody <- MCLockBody
INVARIANTS TypeOK DispositionTruthful NoLiveNumberAbandoned ReconciliationsBounded
PROPERTIES NoUnsafeCancel WorkflowEnds
CHECK_DEADLOCK FALSE
