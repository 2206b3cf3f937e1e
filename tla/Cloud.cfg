SPECIFICATION MCSpec
CONSTANTS
  Flusher = {f1, f2}
  MaxMutations = 2
  MaxAttempts = 2
  MaxLostReplies = 1
  MaxLateRequests = 1
  MaxReloads = 1
  MaxWorkspaces = 2
  MaxSyncs = 2
  WorkspaceId = {d0, w1, w2}
  DefaultId = d0
  NoWorkspace = NoWorkspace
  MaxHeld = 2
  Run = {r1, r2}
  DeployNetwork = {n1, n2}
  NoDeployNetwork = NoNetwork
  MaxDeployPolls = 1
  Tab = {t1, t2}
  SavedCall = {s1}
  Place = {w1, w2}
  NoPlace = NoPlace
  Backup = Backup
  MaxCopies = 2
SYMMETRY Symmetric
INVARIANTS
  IInv OInv RunsBounded
  CloudInv StoreInv DeployInv DataInv
CHECK_DEADLOCK FALSE
