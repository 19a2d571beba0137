SPECIFICATION FairSpec
CONSTANTS
  BaseInterval = 2
  MaxInterval = 3
  JitterPercent = 50
  NULL = NULL
  Deadline = 9
  RetryAfters = {1, 4}
  Prose = FALSE
INVARIANTS TypeOK BackoffKept LatestObservationKept ResultIsReal
PROPERTIES StopIsFinal Ends
CHECK_DEADLOCK FALSE
