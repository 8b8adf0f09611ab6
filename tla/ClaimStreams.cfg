CONSTANTS
  s1 = s1  s2 = s2  i1 = i1  i2 = i2
  Solvers = {s1, s2}
  Intents = {i1, i2}
  TopTier = 2
  DefaultThresholds <- FirstThresholds
  SlashBps <- SlashRates
  Bps = 10
  VolumeScale = 2
  Word = 8
  MaxTunableBond = 6
  MaxTunableScore = 9
  Bonds = {1, 5}
  Amounts = {2}
  Volumes = {3}
  Rows <- SomeRows
  MaxBond = 5
  LastTime = 3
  l1 = l1  l2 = l2
  LPs = {l1, l2}
  VirtualShares = 2
  VirtualAssets = 2
  VaultBps = 10
  ResetBps = 5
  Configs <- SomeConfigs
  FirstConfig <- TheConfig
  Deposits = {2, 3}
  Redemptions = {1, 2, 3}
  Incomes = {1, 4}
  Covers = {1, 4}
  MaxAssets = 9
  MaxShares = 7
  MaxQueued = 5
  g1 = g1  g2 = g2  p1 = p1  p2 = p2
  Governors = {g1, g2}
  FirstGovernor = g1
  NoGovernor = NoGovernor
  Senders = {p1}
  Recipients = {p2}
  StreamIds = {0, 1}
  Schedules <- SomeSchedules
  Totals = {0, 3}
  TopUps = {0, 2}
  NewEnds = {1, 4}
  MaxTotal = 5
  a1 = a1  a2 = a2
  Accounts = {a1, a2}
  SinkLists <- SomeSinks
  FirstSinks <- TwoSinks
  WeightDelay = 1
  TotalBps = 10
  MaxSinks = 2
  Fees = {0, 1, 5}
  MaxBooked = 6
  d1 = d1  d2 = d2  e1 = e1  e2 = e2  x1 = x1
  IntentIds = {d1, d2}
  ChainIds = {1, 2, 70000}
  MaxChainId = 65535
  AxelarChains = {x1}
  Emitters = {e1, e2}
  NoEmitter = NoEmitter
  Vaas <- SomeVaas
  AxelarMessages <- SomeAxelar
  Terms <- SomeTerms
  ValidityWindow = 1
  b1 = b1  usdc = usdc  eurc = eurc
  Bonders = {b1}
  Currencies = {usdc, eurc, doge}
  LegacyToken = usdc
  LegacyMin = 1
  FallbackMin = 1
  Minimums = {1, 2}
  MaxListed = 2
  Stakes = {1, 2}
  TransferCosts = {0, 1}
  MaxStake = 2
  w1 = w1  doge = doge  pol = pol  aptos = aptos
  Submitters = {w1}
  Day = 2
  Caps = {2, 3}
  FirstCap = 2
  MaxAdmitted = 3
  DstTokens = {usdc}
  SrcChains = {pol, aptos}
  Family <- Families
  Formats = {"evm", "solana"}
  ListedDst = {usdc}
  ListedSrc = {pol}
  Plausible <- Bounds
  MaxAmount = 2
  Minimum = {2}
  Default = Default
  Lives = {Default}
  FirstExpiry = 2
  Settings <- Setting
  BucketSize = 2
  MaxPageSize = 2
  MaxBatchSize = 3
  Batches <- SomeBatches
  Singles <- SomeSingles
  Switched = {"dst_allowlist", "policy"}
  MaxNonce = 3
SPECIFICATION BooksSpec
SYMMETRY Symmetry
CHECK_DEADLOCK FALSE
PROPERTY VestedStays
