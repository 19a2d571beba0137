SPECIFICATION FairSpec
CONSTANTS
  BaseInterval = 1
  MaxInterval = 2
  JitterPercent = 50
  NULL = NULL
  Orders <- MCOrders
  Values = {a, b}
  MaxTracked = 2
  RetryAfters = {2}
  MaxRows = 3
  MaxChanges = 2
  MaxTroubles = 2
  a = a
  b = b
INVARIANTS TypeOK QueueIsTheDifference LimitHolds RetryAfterRespected
PROPERTIES StopOutranksEvents ImplementsFeed EventuallyTold
CHECK_DEADLOCK FALSE
