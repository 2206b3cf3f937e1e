SPECIFICATION Spec
CONSTANTS
  Delivery = {d1}
  JobId = {j1, j2, j3}
  MaxAttempts = 2
  LogSize = 1
  MaxReplays = 0
  MaxCrashes = 0
INVARIANT RetryLadder
CHECK_DEADLOCK FALSE
