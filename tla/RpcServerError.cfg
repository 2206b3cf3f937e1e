SPECIFICATION Spec
CONSTANTS
  e1 = e1
  e2 = e2
  e3 = e3
  NoEndpoint = NoEndpoint
  Endpoint = {e1, e2}
  Request = {r1}
  Index <- FirstEndpoints
  Timeout <- SlowMethods
  CircuitThreshold = 2
  CircuitCooldown = 3
  FailureThreshold = 2
  FailoverCooldown = 4
  MaxTime = 1
PROPERTY ServerErrorFailsOver
CHECK_DEADLOCK FALSE
