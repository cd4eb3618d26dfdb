------------------------- MODULE CollateralRegistry -------------------------
(***************************************************************************)
(* contracts/CollateralRegistry.sol: who has pledged how much of which     *)
(* token.  The registry only keeps the books; the ERC-20 transfers are its *)
(* caller's business.  Each function is called by the holder of            *)
(* LENDING_POOL_ROLE, except configureCollateral, called by the admin.     *)
(***************************************************************************)
EXTENDS Integers, Sequences, Functions, FiniteSets

CONSTANTS
  Users,              \* addresses that may have collateral
  CollateralTokens,   \* ERC-20 tokens
  CollateralAmounts,  \* amounts calls may name
  MaxCollateral,      \* bound on what the registry holds of a token
  Bps,                \* 10000, a whole in basis points
  ConfigChoices       \* configurations the admin may ask for

ASSUME RegistryConstants ==
  /\ IsFiniteSet(Users)
  /\ CollateralAmounts \subseteq Nat /\ MaxCollateral \in Nat /\ Bps \in Nat \ {0}
  /\ ConfigChoices \subseteq [enabled : BOOLEAN, ltv : Nat,
                              liquidationThreshold : Nat, liquidationBonus : Nat]

VARIABLES
  collateralConfigs,     \* token -> CollateralConfig
  userCollateral,        \* user -> token -> amount
  userCollateralTokens,  \* user -> tokens, in the array's order
  totalCollateral        \* token -> amount

registryVars == <<collateralConfigs, userCollateral, userCollateralTokens, totalCollateral>>

NoConfig == [enabled |-> FALSE, ltv |-> 0, liquidationThreshold |-> 0, liquidationBonus |-> 0]

RegistryInit ==
  /\ collateralConfigs = [t \in CollateralTokens |-> NoConfig]
  /\ userCollateral = [u \in Users |-> [t \in CollateralTokens |-> 0]]
  /\ userCollateralTokens = [u \in Users |-> << >>]
  /\ totalCollateral = [t \in CollateralTokens |-> 0]

ConfigureCollateral(token, config) ==
  /\ config.ltv <= Bps
  /\ config.liquidationThreshold <= Bps
  /\ config.liquidationThreshold > config.ltv
  /\ collateralConfigs' = [collateralConfigs EXCEPT ![token] = config]
  /\ UNCHANGED <<userCollateral, userCollateralTokens, totalCollateral>>

-----------------------------------------------------------------------------
(* _removeCollateralToken: the last entry takes the place of the first one *)
(* that names the token, and the array is cut by one; an array without the *)
(* token is left as it is.                                                 *)
IsFirst(list, i, token) == list[i] = token /\ \A j \in 1..(i - 1) : list[j] # token

RemoveLast(list, token) ==
  IF \E i \in DOMAIN list : list[i] = token THEN SubSeq(list, 1, Len(list) - 1) ELSE list
RemoveToken(list, token) ==
  IF \E i \in DOMAIN list : list[i] = token
  THEN LET i == CHOOSE k \in DOMAIN list : IsFirst(list, k, token) IN
       [j \in 1..(Len(list) - 1) |-> IF j = i THEN list[Len(list)] ELSE list[j]]
  ELSE list

PushAlways(list, token, held) == Append(list, token)
PushToken(list, token, held) == IF held = 0 THEN Append(list, token) ELSE list

DepositCollateral(user, token, amount) ==
  /\ collateralConfigs[token].enabled
  /\ amount > 0
  /\ userCollateralTokens' = [userCollateralTokens EXCEPT ![user] =
                                PushToken(@, token, userCollateral[user][token])]
  /\ userCollateral' = [userCollateral EXCEPT ![user][token] = @ + amount]
  /\ totalCollateral' = [totalCollateral EXCEPT ![token] = @ + amount]
  /\ UNCHANGED collateralConfigs

(* What withdrawing and seizing have in common: the amount leaves the      *)
(* user's balance and the total, and an emptied token leaves the array.    *)
ReleaseForgetsTotal(user, token, amount) ==
  /\ userCollateral' = [userCollateral EXCEPT ![user][token] = @ - amount]
  /\ userCollateralTokens' = [userCollateralTokens EXCEPT ![user] =
                                IF userCollateral[user][token] = amount
                                THEN RemoveToken(@, token) ELSE @]
  /\ UNCHANGED <<collateralConfigs, totalCollateral>>
Release(user, token, amount) ==
  /\ userCollateral' = [userCollateral EXCEPT ![user][token] = @ - amount]
  /\ totalCollateral' = [totalCollateral EXCEPT ![token] = @ - amount]
  /\ userCollateralTokens' = [userCollateralTokens EXCEPT ![user] =
                                IF userCollateral[user][token] = amount
                                THEN RemoveToken(@, token) ELSE @]
  /\ UNCHANGED collateralConfigs

WithdrawCollateral(user, token, amount) ==
  /\ userCollateral[user][token] >= amount
  /\ totalCollateral[token] >= amount
  /\ Release(user, token, amount)

SeizedAmount(user, token, amount) ==
  IF amount > userCollateral[user][token] THEN userCollateral[user][token] ELSE amount

SeizeCollateral(user, token, amount) ==
  LET seized == SeizedAmount(user, token, amount) IN
  IF seized > 0
  THEN totalCollateral[token] >= seized /\ Release(user, token, seized)
  ELSE UNCHANGED registryVars

RegistryNext ==
  \/ \E u \in Users, t \in CollateralTokens, amount \in CollateralAmounts :
       \/ /\ totalCollateral[t] + amount <= MaxCollateral
          /\ DepositCollateral(u, t, amount)
       \/ WithdrawCollateral(u, t, amount)
       \/ SeizeCollateral(u, t, amount)
  \/ \E t \in CollateralTokens, config \in ConfigChoices : ConfigureCollateral(t, config)

RegistrySpec == RegistryInit /\ [][RegistryNext]_registryVars

-----------------------------------------------------------------------------
(* Amounts are unsigned and the arrays hold tokens.                        *)
RegistryTypeOK ==
  /\ collateralConfigs \in [CollateralTokens -> ConfigChoices \cup {NoConfig}]
  /\ userCollateral \in [Users -> [CollateralTokens -> Nat]]
  /\ userCollateralTokens \in [Users -> Seq(CollateralTokens)]
  /\ totalCollateral \in [CollateralTokens -> Nat]

(* The array that the lending pool walks to value a user's collateral      *)
(* (LendingPool.sol:299) names each token with a balance, exactly once,    *)
(* and no other: a token missing there backs nothing, a token named twice  *)
(* backs double.                                                           *)
NamesOnce(list) == \A i, j \in DOMAIN list : list[i] = list[j] => i = j
ArrayNamesHoldings ==
  \A u \in Users :
    /\ NamesOnce(userCollateralTokens[u])
    /\ \A t \in CollateralTokens :
         userCollateral[u][t] > 0 <=> \E i \in DOMAIN userCollateralTokens[u] :
                                         userCollateralTokens[u][i] = t

(* totalCollateral is the sum of the users' balances of each token, so its *)
(* checked subtraction never stands in the way of a release.               *)
Pledged(t) == [u \in Users |-> userCollateral[u][t]]
TotalsAddUp == \A t \in CollateralTokens : totalCollateral[t] = SumFunction(Pledged(t))
=============================================================================
