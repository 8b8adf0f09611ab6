CONSTANTS
  u1 = u1  s1 = s1  s2 = s2  i1 = i1  i2 = i2  usdc = usdc  eurc = eurc
  Users = {u1}
  Solvers = {s1, s2}
  Intents = {i1}
  BondTokens = {usdc}
  DefaultToken = usdc
  NoSolver = NoSolver
  MinBond <- OneUnit
  DstMultiplier = 10
  MaxBondTokens = 1
  MaxActive = 2
  CoverageMultiplier = 4
  FillWindows = {1}
  IntentExpiry = 2
  SlashGrace = 1
  SlashCooldown = 1
  CancelCooldown = 1
  AmendmentCooldown = 1
  MaxExtension = 1
  DisputeWindow = 1
  ArbiterWindow = 1
  Retention = 1
  Bps = 2
  SlashBps = 1
  SlashDivisor = 2
  FeeBps = 1
  VaultShareBps = 0
  MaxBatch = 1
  Deposits = {3}
  Withdrawals = {}
  MinAmounts = {2}
  AmendAmounts = {}
  FillAmounts = {1, 2}
  Lifetimes = {1}
  TransferFees = {0}
  Weights = {2}
  Switches = {TRUE, FALSE}
  RescuedBonds = {}
  RescuedOutput = {}
  Horizon = 4
  MaxTotalBonded = 6
SPECIFICATION FairSpec
CHECK_DEADLOCK FALSE
PROPERTIES EveryIntentPruned ServesDisputes
