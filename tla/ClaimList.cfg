CONSTANTS
  o1 = o1  o2 = o2  o3 = o3  o4 = o4  NoOp = NoOp
  Ops = {o1, o2, o3, o4}
  Predecessor <- Chain
  SelfCalls = {o4}
  FirstRoles = {"Proposer", "Executor", "Canceller", "Admin"}
  FirstDelay = 1
  Delays = {0, 2}
  GracePeriod = 1
  Horizon = 3
  m1 = m1  m2 = m2  m3 = m3  Gap = Gap
  Members = {m1, m2, m3}
  PageSize = 2
  Pages = {0, 1, 2}
  MaxSlots = 3
  LastTime = 3
  h1 = h1  h2 = h2  h3 = h3  c1 = c1
  Parties = {h1, h2}
  Deployer = h1
  Nobody = Nobody
  Chains = {c1}
  AdminTimelockDelay = 2
  MaxPending = 2
  Holders = {h1, h2, h3}
  FirstAdmin = h1
  NoHolder = NoHolder
  RoleDelay = 2
  n1 = n1  n2 = n2  n3 = n3
  EntryNames = {n1, n2, n3}
  Addresses = {h1, h2}
  NoAddress = NoAddress
  k1 = k1  k2 = k2
  Cores = {k1, k2}
  NoCore = NoCore
  Parts = 10
  MaxFeeParts = 3
  WindowBonus <- Bonuses
  SlashRate <- Rates
  FlatSlash = 2
  MaxPriceAge = 2
  MaxDeviation = 2
  MaxDecimals = 1
  ScoreScale = 5
  ExtensionTable <- Extensions
  OneExtension = 10
  MostExtension = 14
  Quotes <- SomeQuotes
SPECIFICATION DelaysSpec
CHECK_DEADLOCK FALSE
INVARIANT ListsShowTheirSets
