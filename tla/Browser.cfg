SPECIFICATION BrowserSpec
CONSTANTS
  MaxPolls = 3
  MaxTicks = 3
  Provider = {p1, p2}
  NoWallet = NoWallet
  Network = {n1, n2}
  NoNetwork = NoNetwork
  WalletCall = {c1, c2}
  MaxPageLoads = 1
  Contract = {a, b, c}
  UndoLimit = 3
  WasmFile = {f1, f2}
  NoFile = NoFile
  WizardNetwork = {n1, n2}
  Deployment = {d1}
  MaxWizardPolls = 1
  Target = {t1, t2}
  UpgradeNetwork = {n1, n2}
  UpgradeCall = {c1, c2}
  n1 = n1
  b1 = b1
  b3 = b3
  Binary = {b1, b2, b3}
  NoBinary = NoBinary
  Broken = {b3}
  WithConstructor = {b1, b2}
  WithInputs = {b1}
  UploadNetwork = {n1, n2}
  DefaultLimit = DefaultLimit
  Within <- Small
  Reading = {q1, q2}
  Account = {a1, a2}
  NoAccount = NoAccount
  FeedNetwork = {n1, n2, n3}
  Testnet = n1
  Unlisted = {n3}
  FeedPoll = {q1, q2}
  Function = {f1, f2, f3}
  Constant = {f3}
  NoFunction = NoFunction
  MaxEdits = 4
  StorageKey = {k1, k2, k3}
  StorageNetwork = {n1, n2}
  PageNetwork = {n1, n2}
  PageWorkspace = {w1, w2}
  Load = {l1, l2}
  Address = {a1, a2}
  Decimals <- TokenDecimals
  Nowhere = Nowhere
  Wallet = {a1, a2}
  AccNetwork = {n1, n2}
  NoAccountYet = NoAccountYet
  AccFetch = {q1, q2}
  Button = {b1, b2}
  Funding = {f1, f2}
  NoFunding = NoFunding
  Nobody = Nobody
  PollMax = 2
  MaxFlying = 2
INVARIANTS
  WatchInv WalletInv ContractsInv FormsInv FeedInv AccountInv
PROPERTIES
  FinalIsLast CleanupLeavesOnePoll EveryWatchEnds
  ForgottenAreDisconnected 
  JoinsOnlyTheActive EveryPollingEnds
CHECK_DEADLOCK FALSE
