SPECIFICATION ServicesSpec
CONSTANTS
  e1 = e1
  e2 = e2
  e3 = e3
  NoEndpoint = NoEndpoint
  Endpoint = {e1, e2, e3}
  Request = {r1, r2}
  Index <- FirstEndpoints
  Timeout <- SlowMethods
  CircuitThreshold = 1
  CircuitCooldown = 2
  FailureThreshold = 2
  FailoverCooldown = 3
  MaxTime = 3
  ledger = ledger
  simulation = simulation
  NoRequest = NoRequest
  Key = {ledger, simulation}
  Cacheable = {ledger}
  CacheRequest = {q1, q2, q3}
  Ttl = {1, 2}
  Window = 2
  CallTimeout = 3
  MaxCacheTime = 6
  Caller = {c1}
  MaxRequests = 2
  OwnerMax = 3
  OwnerBurst = 2
  LimitWindow = 3
  MaxClock = 8
  HealthNetwork = {n1, n2}
  Visitor = {v1, v2}
  HealthTtl = 2
  ProbeTimeout = 2
  MaxHealthTime = 6
  DeadJob = {j1}
  Retry = {t1, t2, t3}
  MaxRetries = 2
  MaxCalls = 5
  MaxRows = 3
  MaxStamp = 2
  MaxLag = 1
  Take = {1, 2}
  Question = {a1, a2}
  NoQuestion = NoQuestion
  Malformed = {a2}
  LookNetwork = {n1, n2, n3}
  LookTestnet = n1
  LookUnlisted = {n3}
  WithRegistry = {n1}
  NoNet = NoNet
  Query = {l1, l2}
  MaxHistory = 2
  GroupBits = 2
  Width = 3
  MaxBytes = 2
  MaxSections = 2
  CustomId <- Zero
  CodeId <- Two
  SoughtName <- One
  Byte <- Alphabet
  MaxLength = 6
  Holder = {h1, h2, h3}
  NoAdmin = NoAdmin
  Amount <- Amounts
  MaxAmount = 3
SYMMETRY Symmetric
INVARIANTS
  IInv ProbesApart ListIsComplete
  CacheInv LimitInv HealthInv LettersInv AuditInv
  LookInv ReaderInv TokenInv
CHECK_DEADLOCK FALSE
