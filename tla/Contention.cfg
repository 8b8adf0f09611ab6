CONSTANTS
  u1 = u1  s1 = s1  s2 = s2  i1 = i1  i2 = i2  usdc = usdc  eurc = eurc
  Users = {u1}
  Solvers = {s1, s2}
  Intents = {i1, i2}
  BondTokens = {usdc}
  DefaultToken = usdc
  NoSolver = NoSolver
  MinBond <- OneUnit
  DstMultiplier = 10
  MaxBondTokens = 1
  MaxActive = 1
  CoverageMultiplier = 4
  FillWindows = {1}
  IntentExpiry = 1
  SlashGrace = 1
  SlashCooldown = 1
  CancelCooldown = 1
  AmendmentCooldown = 1
  MaxExtension = 1
  DisputeWindow = 1
  ArbiterWindow = 1
  Retention = 1
  Bps = 2
  SlashBps = 1
  SlashDivisor = 2
  FeeBps = 1
  VaultShareBps = 0
  MaxBatch = 2
  Deposits = {2}
  Withdrawals = {}
  MinAmounts = {2}
  AmendAmounts = {}
  FillAmounts = {1, 2}
  Lifetimes = {1}
  TransferFees = {0}
  Weights = {2}
  Switches = {}
  RescuedBonds = {}
  RescuedOutput = {2}
  Horizon = 2
  MaxTotalBonded = 4
SPECIFICATION Spec
SYMMETRY Symmetry
CHECK_DEADLOCK FALSE
INVARIANTS Bookkeeping
PROPERTIES ImplementsLifecycle ViewsForetell
