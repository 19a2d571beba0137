SPECIFICATION Spec
CONSTANTS
    NoText = NoText
    Blank = Blank
    NoRule = NoRule
    TryLater = TryLater
    Text <- MCText
    Options <- MCOptions
    LockBody <- MCLockBody
INVARIANTS UnknownIsReported
CHECK_DEADLOCK FALSE
