-------------------------- MODULE MCOracleManager --------------------------
(* Small instances of OracleManager for TLC.                               *)
EXTENDS OracleManager, TLC

Symmetry == Permutations(Feeds)
=============================================================================
