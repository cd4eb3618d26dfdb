SPECIFICATION Spec
CONSTANTS
  Accounts = {a1, a2}
  Borrowers = {b}
  PoolChoices = {pool}
  VaultAddr = vault
  NoPool = noPool
  ONE = 8
  BpsYear = 3
  MaxRateBps = 2
  DeployRateBps = 1
  DeployMinimum = 1
  Amounts = {0, 1, 2}
  RateChoices = {0, 2, 3}
  MinimumChoices = {0}
  InitialTokens <- TwoEach
  MaxTime = 2
SYMMETRY Symmetry
INVARIANTS IndexDiscipline PrincipalsCoverTotal ShownRateIsApplied
PROPERTY KeepsLedger
CHECK_DEADLOCK FALSE
