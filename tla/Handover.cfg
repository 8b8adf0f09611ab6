CONSTANTS
  u1 = u1  s1 = s1  s2 = s2  i1 = i1  i2 = i2  usdc = usdc  eurc = eurc
  Users = {u1}
  Solvers = {s1, s2}
  Intents = {i1}
  BondTokens = {usdc}
  DefaultToken = usdc
  NoSolver = NoSolver
  MinBond <- OneUnit
  DstMultiplier = 10
  MaxBondTokens = 1
  MaxActive = 2
  CoverageMultiplier = 4
  FillWindows = {1, 2}
  IntentExpiry = 2
  SlashGrace = 1
  SlashCooldown = 2
  CancelCooldown = 1
  AmendmentCooldown = 1
  MaxExtension = 1
  DisputeWindow = 1
  ArbiterWindow = 1
  Retention = 1
  Bps = 2
  SlashBps = 1
  SlashDivisor = 1
  FeeBps = 1
  VaultShareBps = 0
  MaxBatch = 2
  Deposits = {2}
  Withdrawals = {1}
  MinAmounts = {3}
  AmendAmounts = {2}
  FillAmounts = {1, 3}
  Lifetimes = {2}
  TransferFees = {0}
  Weights = {2}
  Switches = {TRUE, FALSE}
  RescuedBonds = {}
  RescuedOutput = {}
  Horizon = 5
  MaxTotalBonded = 4
SPECIFICATION Spec
SYMMETRY Symmetry
CHECK_DEADLOCK FALSE
INVARIANTS UserPaid
PROPERTIES BondLockedWhileHolding TermsFixedWhileHeld
