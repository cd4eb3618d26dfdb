SPECIFICATION Spec
CONSTANTS
  Callers = {bot}
  ProtocolIds = {0, 1}
  Addresses = {aave}
  NoAddress = noAddress
  AllocationChoices = {4000, 10001}
  StrategyAmounts = {1, 2}
  MaxUint = 2
  MinInterval = 1
  MaxRebalanceAmount = 1
  LastSecond = 1
  Users = {owner}
  Owner = owner
  Controller = controller
  Shares <- SomeShares
  Lent = {0, 1}
  VaultAddr = vault
  NoPool = noPool
  ONE = 4
  BpsYear = 2
  MaxRateBps = 2
  DeployRateBps = 2
  DeployMinimum = 1
  Amounts = {2}
  InitialTokens <- OwnersTokens
INVARIANT NothingLeftBehind
PROPERTIES RebalanceConserves AllocatedMeansMet
