SPECIFICATION FairSpec
CONSTANTS
  w1 = w1
  NoJob = NoJob
  JobId = {j1}
  Worker = {w1, w2}
  Operator = {o1}
  PollQueue <- PollAll
  Priority <- OnePriority
  AttemptLimit = {2}
  Delay <- NoDelay
  LockDuration = 1
  MaxTime = 2
  MaxCrashes = 1
  MaxReplays = 1
PROPERTY NoJobStranded
CHECK_DEADLOCK FALSE
