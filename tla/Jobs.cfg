SPECIFICATION FairSpec
CONSTANTS
  w1 = w1
  NoJob = NoJob
  JobId = {j1, j2}
  Worker = {w1, w2}
  Operator = {o1, o2}
  PollQueue <- PollMixed
  Priority <- TwoPriorities
  AttemptLimit = {2}
  Delay <- SomeDelay
  LockDuration = 1
  MaxTime = 1
  MaxCrashes = 1
  MaxReplays = 2
INVARIANT IInv
PROPERTIES CompletedIsFinal ImplementsLedger EveryJobSettles
CHECK_DEADLOCK FALSE
