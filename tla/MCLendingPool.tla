--------------------------- MODULE MCLendingPool ---------------------------
(* Small instances of LendingPool for TLC.                                 *)
EXTENDS LendingPool, TLC

(* Weth-like collateral: liquidation threshold 80%, LTV 65%, in units of   *)
(* Bps = 20.                                                               *)
OneConfig == {[enabled |-> TRUE, ltv |-> 13, liquidationThreshold |-> 16, liquidationBonus |-> 1]}

(* Lenders start with tokens to deposit, borrowers with one for interest.  *)
LenderTokens ==
  [h \in Accounts \cup Borrowers \cup {VaultAddr} |->
     CASE h \in Borrowers -> 1
       [] h \in {VaultAddr, PoolAddr} -> 0
       [] OTHER -> 3]

Symmetry == Permutations(Borrowers)
-----------------------------------------------------------------------------
(* "Health Factor < 1.0: Liquidation triggered" (liquidity-model.md:153):  *)
(* someone who has the tokens for half of a bad debt can liquidate it.     *)
UnhealthyIsLiquidated ==
  \A u, liquidator \in Borrowers :
    LET half == GetUserDebt(u) \div 2 IN
    Priced(u) /\ Unhealthy(u) /\ half >= minDepositAmount /\ half <= totalBorrowed
      /\ tokens[liquidator] >= half /\ userCollateralTokens[u] # << >>
      => ENABLED Liquidate(liquidator, u, half)
=============================================================================
