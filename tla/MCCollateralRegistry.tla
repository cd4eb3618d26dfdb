------------------------ MODULE MCCollateralRegistry ------------------------
(* Small instances of CollateralRegistry for TLC.                          *)
EXTENDS CollateralRegistry, TLC

Config(on, ltv, threshold) ==
  [enabled |-> on, ltv |-> ltv, liquidationThreshold |-> threshold, liquidationBonus |-> 1]

(* One of each kind: acceptable, switched off, and one per refused bound.  *)
MCConfigChoices == {Config(TRUE, 13, 16), Config(FALSE, 13, 16), Config(TRUE, 21, 20),
                    Config(TRUE, 13, 21), Config(TRUE, 16, 16)}

Symmetry == Permutations(Users) \cup Permutations(CollateralTokens)
=============================================================================
