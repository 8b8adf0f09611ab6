CONSTANTS
  u1 = u1  s1 = s1  s2 = s2  i1 = i1  i2 = i2  usdc = usdc  eurc = eurc
  Users = {u1}
  Solvers = {s1}
  Intents = {i1}
  BondTokens = {usdc, eurc}
  DefaultToken = usdc
  NoSolver = NoSolver
  MinBond <- OneUnit
  DstMultiplier = 15
  MaxBondTokens = 2
  MaxActive = 2
  CoverageMultiplier = 4
  FillWindows = {1}
  IntentExpiry = 1
  SlashGrace = 1
  SlashCooldown = 1
  CancelCooldown = 1
  AmendmentCooldown = 1
  MaxExtension = 1
  DisputeWindow = 1
  ArbiterWindow = 1
  Retention = 1
  Bps = 4
  SlashBps = 2
  SlashDivisor = 2
  FeeBps = 1
  VaultShareBps = 0
  MaxBatch = 2
  Deposits = {2, 3}
  Withdrawals = {}
  MinAmounts = {2, 3}
  AmendAmounts <- Signed
  FillAmounts = {1, 2, 4}
  Lifetimes = {1}
  TransferFees = {0, 1}
  Weights = {3}
  Switches = {}
  RescuedBonds = {1}
  RescuedOutput = {}
  Horizon = 3
  MaxTotalBonded = 5
SPECIFICATION Spec
CHECK_DEADLOCK FALSE
INVARIANTS EscrowConserved ExposureCoversHeld
