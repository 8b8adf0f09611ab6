CONSTANTS
  a1 = a1  a2 = a2
  Accounts = {a1, a2}
  ProposalIds = {0}
  Bonds = {0, 2}
  FirstConfig <- Slow
  Configs <- MCConfigs
  MaxCheckpoints = 2
  Horizon = 4
SPECIFICATION Spec
SYMMETRY Symmetry
CHECK_DEADLOCK FALSE
INVARIANTS SearchFindsLatest TimelockAskedOnce
PROPERTIES VotesFinal PastPowerKept
