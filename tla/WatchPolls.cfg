SPECIFICATION Spec
CONSTANTS
  MaxPolls = 2
  MaxTicks = 2
INVARIANT PollsToTheEnd
CHECK_DEADLOCK FALSE
