CONSTANTS
  a1 = a1  a2 = a2  a3 = a3  c1 = c1  c2 = c2
  Arbiters = {a1, a2, a3}
  Cases = {c1, c2}
  Parties <- TheParties
  BondAmount = 3
  PanelSize = 3
  Threshold = 2
  VoteWindow = 1
  ArbiterWindow = 1
  Bps = 2
  SlashBps = 1
  Switches = {TRUE}
  Horizon = 2
SPECIFICATION FairSpec
CHECK_DEADLOCK FALSE
INVARIANTS OpenVotesExact BondsBacked PanelsMajorityRules OnlyLosersPay
PROPERTIES RoundsSettle
