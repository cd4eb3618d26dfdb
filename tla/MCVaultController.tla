-------------------------- MODULE MCVaultController --------------------------
(* A small instance of VaultController for TLC.                            *)
EXTENDS VaultController, TLC

(* The owner has two tokens.                                               *)
OwnersTokens == [a \in Users \cup {Controller, VaultAddr} |-> IF a = Owner THEN 2 ELSE 0]

SomeShares == {Allocation(10000, 0, 0), Allocation(0, 10000, 0), Allocation(5000, 4000, 2000)}
=============================================================================
