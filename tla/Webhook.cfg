SPECIFICATION FairSpec
CONSTANTS
  Delivery = {d1, d2}
  JobId = {j1, j2, j3}
  MaxAttempts = 2
  LogSize = 1
  MaxReplays = 1
  MaxCrashes = 1
INVARIANT WebhookInv
PROPERTIES EveryDeliveryEnds
CHECK_DEADLOCK FALSE
