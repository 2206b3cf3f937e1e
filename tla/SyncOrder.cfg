SPECIFICATION Spec
CONSTANTS
  Flusher = {f1, f2}
  MaxMutations = 2
  MaxAttempts = 2
  MaxLostReplies = 0
  MaxLateRequests = 0
  MaxReloads = 0
INVARIANT AppliedInOrder
CHECK_DEADLOCK FALSE
