SPECIFICATION Spec
CONSTANTS
  Accounts = {l, pool}
  Borrowers = {b1, b2}
  PoolChoices = {pool}
  VaultAddr = vault
  NoPool = noPool
  PoolAddr = pool
  RegistryAddr = registry
  ONE = 8
  BpsYear = 4
  MaxRateBps = 2
  DeployRateBps = 0
  DeployMinimum = 1
  Amounts = {1, 2}
  RateChoices = {2}
  MinimumChoices = {0}
  InitialTokens <- LenderTokens
  MaxTime = 1
  CollateralTokens = {weth}
  CollateralAmounts = {1, 2}
  MaxCollateral = 4
  Bps = 20
  ConfigChoices <- OneConfig
  BaseBorrowRate = 2
  OptimalUtilization = 16
  Slope1 = 2
  Slope2 = 10
  LIQUIDATION_BONUS = 1
  LIQUIDATION_THRESHOLD = 16
  ValueScale = 2
  AssetPrices = {1}
  Prices = {0, 2, 5}
  InitialCollateral = 2
SYMMETRY Symmetry
INVARIANTS TypeOK BorrowIndexDiscipline PositionsCoverTotalBorrowed PledgesAreHeld LendersAreBacked PledgesCountOnce
PROPERTIES DebtMatchesTokens LoansAreCovered KeepsLenderLedger
CHECK_DEADLOCK FALSE
