------------------------------ MODULE MCVault ------------------------------
(* Small instances of Vault for TLC.                                       *)
EXTENDS Vault, TLC

(* Depositors start with two tokens, everyone else with none.              *)
TwoEach == [a \in Holders |-> IF a \in Accounts THEN 2 ELSE 0]

Symmetry == Permutations(Accounts)

(* A depositor can leave whenever the vault holds the tokens for it:       *)
(* "Withdraw anytime with accumulated interest" (DepositForm.tsx:189).     *)
WithdrawAnytime ==
  \A u \in Accounts :
    BalanceOf(u) > 0 /\ tokens[VaultAddr] >= BalanceOf(u)
      => ENABLED Withdraw(u, BalanceOf(u))
=============================================================================
