SPECIFICATION RegistrySpec
CONSTANTS
  Users = {u1, u2}
  CollateralTokens = {t1, t2, t3}
  CollateralAmounts = {0, 1, 2}
  MaxCollateral = 3
  Bps = 20
  ConfigChoices <- MCConfigChoices
SYMMETRY Symmetry
INVARIANTS ArrayNamesHoldings TotalsAddUp
