-------------------------- MODULE CollateralProofs --------------------------
(***************************************************************************)
(* Proofs about what the lending pool reads of its collateral: how much is *)
(* pledged, from the registry, and what it is worth, from the oracle.      *)
(*                                                                         *)
(* The registry: the array that the pool walks stays in step with the      *)
(* balances, and the totals with the sum of them.  The array's order plays *)
(* no part; what the two list operations do to the set of tokens named is  *)
(* stated once, in PushNames and RemoveNames, from Arithmetic's lists.     *)
(*                                                                         *)
(* The oracle: the ring holds the latest prices from its write index on    *)
(* (Place turns a place of the ring into an age), the median lies among    *)
(* what the feeds say because ranks are distinct, a price near one that    *)
(* was weighed into the average lies near the average, and points leave    *)
(* the window as the clock runs.                                           *)
(***************************************************************************)
EXTENDS CollateralRegistry, OracleManager, Arithmetic, SequenceTheorems

RegistryInv == RegistryTypeOK /\ ArrayNamesHoldings

(* ArrayNamesHoldings for one user's array and balances.                   *)
InStep(list, balances) ==
  /\ list \in Seq(CollateralTokens)
  /\ NamesOnce(list)
  /\ \A t \in CollateralTokens : balances[t] > 0 <=> Names(list, t)

LEMMA InStepIsInvariant ==
  ArrayNamesHoldings /\ userCollateralTokens \in [Users -> Seq(CollateralTokens)]
    <=> /\ \A u \in Users : InStep(userCollateralTokens[u], userCollateral[u])
        /\ userCollateralTokens \in [Users -> Seq(CollateralTokens)]
  BY DEF ArrayNamesHoldings, InStep, Names

(* A token is pushed when its balance is zero, so it is not named twice.   *)
LEMMA PushNames ==
  ASSUME NEW list \in Seq(CollateralTokens), NEW token \in CollateralTokens, NEW held \in Nat,
         NamesOnce(list), held > 0 <=> Names(list, token)
  PROVE  /\ PushToken(list, token, held) \in Seq(CollateralTokens)
         /\ NamesOnce(PushToken(list, token, held))
         /\ \A t \in CollateralTokens :
              Names(PushToken(list, token, held), t) <=> Names(list, t) \/ t = token
<1>1. CASE held # 0
  BY <1>1 DEF PushToken
<1>2. CASE held = 0
  <2>1. ~Names(list, token) /\ Distinct(list)
    BY <1>2 DEF NamesOnce, Distinct
  <2>2. /\ Append(list, token) \in Seq(CollateralTokens)
        /\ Distinct(Append(list, token))
        /\ \A y : Names(Append(list, token), y) <=> Names(list, y) \/ y = token
    BY <2>1, AppendedName
  <2>3. QED
    BY <1>2, <2>2 DEF PushToken, NamesOnce, Distinct
<1>3. QED
  BY <1>1, <1>2

(* The entry that is taken out is the only one of its token, and the last  *)
(* entry, moved to its place, stays.                                       *)
LEMMA RemoveNames ==
  ASSUME NEW list \in Seq(CollateralTokens), NEW token \in CollateralTokens, NamesOnce(list)
  PROVE  /\ RemoveToken(list, token) \in Seq(CollateralTokens)
         /\ NamesOnce(RemoveToken(list, token))
         /\ \A t \in CollateralTokens :
              Names(RemoveToken(list, token), t) <=> Names(list, t) /\ t # token
<1>1. CASE ~Names(list, token)
  BY <1>1 DEF RemoveToken, Names
<1>2. CASE Names(list, token)
  <2> DEFINE at == CHOOSE k \in DOMAIN list : IsFirst(list, k, token)
             new == [j \in 1..(Len(list) - 1) |-> IF j = at THEN list[Len(list)] ELSE list[j]]
  <2>1. at \in DOMAIN list /\ list[at] = token
    <3>1. PICK i \in DOMAIN list : list[i] = token
      BY <1>2 DEF Names
    <3>2. IsFirst(list, i, token)
      BY <3>1 DEF IsFirst, NamesOnce
    <3>3. QED
      BY <3>1, <3>2 DEF IsFirst
  <2>2. RemoveToken(list, token) = new
    BY <1>2 DEF RemoveToken, Names
  <2>3. Distinct(list)
    BY DEF NamesOnce, Distinct
  <2> HIDE DEF at
  <2>4. /\ new \in Seq(CollateralTokens) /\ Distinct(new)
        /\ \A y : Names(new, y) <=> Names(list, y) /\ y # list[at]
    <3> DEFINE cut == new
    <3>1. cut = [j \in 1..(Len(list) - 1) |-> IF j = at THEN list[Len(list)] ELSE list[j]]
      OBVIOUS
    <3> HIDE DEF cut
    <3>2. /\ cut \in Seq(CollateralTokens) /\ Distinct(cut)
          /\ \A y : Names(cut, y) <=> Names(list, y) /\ y # list[at]
      BY <2>1, <2>3, <3>1, PoppedName
    <3>3. QED
      BY <3>2 DEF cut
  <2> HIDE DEF new
  <2>5. QED
    BY <2>1, <2>2, <2>4 DEF NamesOnce, Distinct
<1>3. QED
  BY <1>1, <1>2

-----------------------------------------------------------------------------
LEMMA RegistryInitHolds == RegistryInit => RegistryInv
<1> SUFFICES ASSUME RegistryInit PROVE RegistryInv
  OBVIOUS
<1>1. << >> \in Seq(CollateralTokens) /\ DOMAIN << >> = {}
  OBVIOUS
<1>2. RegistryTypeOK
  BY <1>1 DEF RegistryInit, RegistryTypeOK
<1>3. ArrayNamesHoldings
  BY <1>1 DEF RegistryInit, ArrayNamesHoldings, NamesOnce
<1>4. QED
  BY <1>2, <1>3 DEF RegistryInv

(* A step that gives one user a balance and an array in step with it.      *)
LEMMA OneUserMoves ==
  ASSUME RegistryInv, NEW user \in Users, NEW list, NEW balances,
         NEW total \in [CollateralTokens -> Nat],
         balances \in [CollateralTokens -> Nat],
         InStep(list, balances),
         userCollateral' = [userCollateral EXCEPT ![user] = balances],
         userCollateralTokens' = [userCollateralTokens EXCEPT ![user] = list],
         totalCollateral' = total,
         UNCHANGED collateralConfigs
  PROVE  RegistryInv'
<1>1. RegistryTypeOK'
  BY DEF RegistryInv, RegistryTypeOK, InStep
<1>2. \A u \in Users : InStep(userCollateralTokens[u], userCollateral[u])
  BY InStepIsInvariant DEF RegistryInv, RegistryTypeOK
<1>3. \A u \in Users : InStep(userCollateralTokens'[u], userCollateral'[u])
  BY <1>2 DEF RegistryInv, RegistryTypeOK
<1>4. ArrayNamesHoldings'
  BY <1>3 DEF ArrayNamesHoldings, InStep, Names
<1>5. QED
  BY <1>1, <1>4 DEF RegistryInv

LEMMA DepositStep ==
  ASSUME RegistryInv, NEW u \in Users, NEW t \in CollateralTokens,
         NEW amount \in CollateralAmounts, DepositCollateral(u, t, amount)
  PROVE  RegistryInv'
<1> DEFINE held == userCollateral[u][t]
           list == PushToken(userCollateralTokens[u], t, held)
           balances == [userCollateral[u] EXCEPT ![t] = @ + amount]
           total == [totalCollateral EXCEPT ![t] = @ + amount]
<1>1. /\ amount \in Nat /\ amount > 0 /\ held \in Nat
      /\ userCollateral[u] \in [CollateralTokens -> Nat]
      /\ totalCollateral \in [CollateralTokens -> Nat]
      /\ userCollateral \in [Users -> [CollateralTokens -> Nat]]
      /\ userCollateralTokens \in [Users -> Seq(CollateralTokens)]
  BY RegistryConstants DEF RegistryInv, RegistryTypeOK, DepositCollateral
<1>2. InStep(userCollateralTokens[u], userCollateral[u])
  BY InStepIsInvariant DEF RegistryInv, RegistryTypeOK
<1>3. balances \in [CollateralTokens -> Nat] /\ total \in [CollateralTokens -> Nat]
  BY <1>1
<1>4. /\ list \in Seq(CollateralTokens) /\ NamesOnce(list)
      /\ \A s \in CollateralTokens : Names(list, s) <=> Names(userCollateralTokens[u], s) \/ s = t
  BY <1>1, <1>2, PushNames DEF InStep
<1>5. InStep(list, balances)
  <2> HIDE DEF list
  <2>1. \A s \in CollateralTokens : balances[s] = IF s = t THEN held + amount ELSE userCollateral[u][s]
    BY <1>1
  <2> HIDE DEF balances
  <2>2. \A s \in CollateralTokens : balances[s] > 0 <=> Names(list, s)
    <3>1. TAKE s \in CollateralTokens
    <3>2. userCollateral[u][s] > 0 <=> Names(userCollateralTokens[u], s)
      BY <1>2 DEF InStep
    <3>3. CASE s = t
      BY <1>1, <1>4, <2>1, <3>3
    <3>4. CASE s # t
      BY <1>4, <2>1, <3>2, <3>4
    <3>5. QED
      BY <3>3, <3>4
  <2>3. QED
    BY <1>4, <2>2 DEF InStep
<1>6. /\ userCollateral' = [userCollateral EXCEPT ![u] = balances]
      /\ userCollateralTokens' = [userCollateralTokens EXCEPT ![u] = list]
      /\ totalCollateral' = total
      /\ UNCHANGED collateralConfigs
  BY <1>1 DEF DepositCollateral
<1> HIDE DEF list, balances, total
<1>7. QED
  BY <1>3, <1>5, <1>6, OneUserMoves

(* Withdrawing and seizing: the token leaves the array with its balance.   *)
LEMMA ReleaseStep ==
  ASSUME RegistryInv, NEW u \in Users, NEW t \in CollateralTokens, NEW amount \in Nat,
         userCollateral[u][t] >= amount, totalCollateral[t] >= amount,
         Release(u, t, amount)
  PROVE  RegistryInv'
<1> DEFINE held == userCollateral[u][t]
           list == IF held = amount THEN RemoveToken(userCollateralTokens[u], t)
                   ELSE userCollateralTokens[u]
           balances == [userCollateral[u] EXCEPT ![t] = @ - amount]
           total == [totalCollateral EXCEPT ![t] = @ - amount]
<1>1. /\ held \in Nat
      /\ userCollateral[u] \in [CollateralTokens -> Nat]
      /\ totalCollateral \in [CollateralTokens -> Nat]
      /\ userCollateral \in [Users -> [CollateralTokens -> Nat]]
      /\ userCollateralTokens \in [Users -> Seq(CollateralTokens)]
  BY DEF RegistryInv, RegistryTypeOK
<1>2. InStep(userCollateralTokens[u], userCollateral[u])
  BY InStepIsInvariant DEF RegistryInv, RegistryTypeOK
<1>3. balances \in [CollateralTokens -> Nat] /\ total \in [CollateralTokens -> Nat]
  BY <1>1
<1>4. \A s \in CollateralTokens : balances[s] = IF s = t THEN held - amount ELSE userCollateral[u][s]
  BY <1>1
<1>5. InStep(list, balances)
  <2>1. CASE held = amount
    <3>1. /\ list \in Seq(CollateralTokens) /\ NamesOnce(list)
          /\ \A s \in CollateralTokens :
               Names(list, s) <=> Names(userCollateralTokens[u], s) /\ s # t
      BY <1>1, <1>2, <2>1, RemoveNames DEF InStep
    <3> HIDE DEF list, balances
    <3>2. QED
      BY <1>1, <1>2, <1>4, <2>1, <3>1 DEF InStep
  <2>2. CASE held # amount
    <3>1. list = userCollateralTokens[u]
      BY <2>2
    <3> HIDE DEF list, balances
    <3>2. \A s \in CollateralTokens : balances[s] > 0 <=> userCollateral[u][s] > 0
      BY <1>1, <1>4, <2>2, SMTT(60)
    <3>3. QED
      BY <1>2, <3>1, <3>2 DEF InStep
  <2>3. QED
    BY <2>1, <2>2
<1>6. /\ userCollateral' = [userCollateral EXCEPT ![u] = balances]
      /\ userCollateralTokens' = [userCollateralTokens EXCEPT ![u] = list]
      /\ totalCollateral' = total
      /\ UNCHANGED collateralConfigs
  BY <1>1 DEF Release
<1> HIDE DEF list, balances, total
<1>7. QED
  BY <1>3, <1>5, <1>6, OneUserMoves

LEMMA SeizeStep ==
  ASSUME RegistryInv, NEW u \in Users, NEW t \in CollateralTokens,
         NEW amount \in CollateralAmounts, SeizeCollateral(u, t, amount)
  PROVE  RegistryInv'
<1> DEFINE seized == SeizedAmount(u, t, amount)
<1>1. amount \in Nat /\ userCollateral[u][t] \in Nat
  BY RegistryConstants DEF RegistryInv, RegistryTypeOK
<1>2. seized \in Nat /\ userCollateral[u][t] >= seized
  BY <1>1 DEF SeizedAmount
<1>3. CASE seized > 0
  BY <1>2, <1>3, ReleaseStep DEF SeizeCollateral
<1>4. CASE ~(seized > 0)
  BY <1>4 DEF SeizeCollateral, registryVars, RegistryInv, RegistryTypeOK, ArrayNamesHoldings
<1>5. QED
  BY <1>3, <1>4

LEMMA RegistryStepHolds == RegistryInv /\ [RegistryNext]_registryVars => RegistryInv'
<1> SUFFICES ASSUME RegistryInv, [RegistryNext]_registryVars PROVE RegistryInv'
  OBVIOUS
<1>1. ASSUME NEW u \in Users, NEW t \in CollateralTokens, NEW amount \in CollateralAmounts,
             WithdrawCollateral(u, t, amount)
      PROVE  RegistryInv'
  BY <1>1, ReleaseStep, RegistryConstants DEF WithdrawCollateral
<1>2. ASSUME NEW t \in CollateralTokens, NEW config \in ConfigChoices,
             ConfigureCollateral(t, config)
      PROVE  RegistryInv'
  BY <1>2 DEF ConfigureCollateral, RegistryInv, RegistryTypeOK, ArrayNamesHoldings
<1>3. CASE UNCHANGED registryVars
  BY <1>3 DEF registryVars, RegistryInv, RegistryTypeOK, ArrayNamesHoldings
<1>4. QED
  BY <1>1, <1>2, <1>3, DepositStep, SeizeStep DEF RegistryNext

(* The registry keeps its invariant for every set of users and tokens and  *)
(* for every amount.                                                       *)
THEOREM RegistryInvariant == RegistrySpec => []RegistryInv
  BY RegistryInitHolds, RegistryStepHolds, PTL DEF RegistrySpec

(* Amounts stay unsigned: no release goes below zero (_removeCollateral,   *)
(* seizeCollateral).                                                       *)
THEOREM RegistryTypeCorrect == RegistrySpec => []RegistryTypeOK
<1>1. RegistryInv => RegistryTypeOK
  BY DEF RegistryInv
<1>2. QED
  BY <1>1, RegistryInvariant, PTL

(* The array the lending pool values collateral by names every token with  *)
(* a balance exactly once (_removeCollateralToken, depositCollateral).     *)
THEOREM ArrayNamesWhatIsHeld == RegistrySpec => []ArrayNamesHoldings
<1>1. RegistryInv => ArrayNamesHoldings
  BY DEF RegistryInv
<1>2. QED
  BY <1>1, RegistryInvariant, PTL

-----------------------------------------------------------------------------
(* The totals add up.                                                      *)
LEMMA PledgedTyped ==
  ASSUME RegistryTypeOK, NEW t \in CollateralTokens
  PROVE  IsFiniteSet(Users) /\ Pledged(t) \in [Users -> Int]
<1>1. IsFiniteSet(Users)
  BY RegistryConstants
<1>2. \A u \in Users : userCollateral[u][t] \in Int
  BY DEF RegistryTypeOK
<1>3. QED
  BY <1>1, <1>2 DEF Pledged

(* A step that changes one balance, and the total of that token by as      *)
(* much, leaves every total the sum of its balances.                       *)
LEMMA OneBalanceMoves ==
  ASSUME RegistryTypeOK, RegistryTypeOK', TotalsAddUp,
         NEW user \in Users, NEW token \in CollateralTokens,
         \A u \in Users, t \in CollateralTokens :
           u # user \/ t # token => userCollateral'[u][t] = userCollateral[u][t],
         totalCollateral'[token] = totalCollateral[token]
                                     - userCollateral[user][token] + userCollateral'[user][token],
         \A t \in CollateralTokens : t # token => totalCollateral'[t] = totalCollateral[t]
  PROVE  TotalsAddUp'
<1>1. /\ IsFiniteSet(Users)
      /\ Pledged(token) \in [Users -> Int] /\ Pledged(token)' \in [Users -> Int]
  <2>1. IsFiniteSet(Users) /\ Pledged(token) \in [Users -> Int]
    BY PledgedTyped
  <2>2. \A u \in Users : userCollateral'[u][token] \in Int
    BY DEF RegistryTypeOK
  <2>3. Pledged(token)' \in [Users -> Int]
    BY <2>2 DEF Pledged
  <2>4. QED
    BY <2>1, <2>3
<1>2. /\ Pledged(token)[user] = userCollateral[user][token]
      /\ Pledged(token)'[user] = userCollateral'[user][token]
      /\ \A u \in Users : u # user => Pledged(token)'[u] = Pledged(token)[u]
  BY DEF Pledged
<1>3. \A t \in CollateralTokens : t # token => Pledged(t)' = Pledged(t)
  BY DEF Pledged
<1>4. SumFunction(Pledged(token)') =
        SumFunction(Pledged(token)) - Pledged(token)[user] + Pledged(token)'[user]
  <2> DEFINE f == Pledged(token)
             h == Pledged(token)'
  <2>1. IsFiniteSet(Users) /\ f \in [Users -> Int] /\ h \in [Users -> Int]
        /\ \A u \in Users : u # user => h[u] = f[u]
    BY <1>1, <1>2
  <2> HIDE DEF f, h
  <2>2. SumFunction(h) = SumFunction(f) - f[user] + h[user]
    BY <2>1, SumChanges
  <2>3. QED
    BY <2>2 DEF f, h
<1>5. totalCollateral'[token] = SumFunction(Pledged(token)')
  BY <1>2, <1>4 DEF TotalsAddUp
<1>6. ASSUME NEW t \in CollateralTokens PROVE totalCollateral'[t] = SumFunction(Pledged(t)')
  <2>1. CASE t = token
    BY <1>5, <2>1
  <2>2. CASE t # token
    BY <1>3, <2>2 DEF TotalsAddUp
  <2>3. QED
    BY <2>1, <2>2
<1>7. QED
  BY <1>6 DEF TotalsAddUp

LEMMA TotalsKeptByDeposit ==
  ASSUME RegistryInv, RegistryInv', TotalsAddUp, NEW u \in Users, NEW t \in CollateralTokens,
         NEW amount \in CollateralAmounts, DepositCollateral(u, t, amount)
  PROVE  TotalsAddUp'
<1>1. /\ RegistryTypeOK /\ RegistryTypeOK'
      /\ userCollateral \in [Users -> [CollateralTokens -> Nat]]
      /\ totalCollateral \in [CollateralTokens -> Nat] /\ amount \in Nat
  BY RegistryConstants DEF RegistryInv, RegistryTypeOK
<1>2. /\ userCollateral'[u][t] = userCollateral[u][t] + amount
      /\ totalCollateral'[t] = totalCollateral[t] + amount
      /\ \A v \in Users, s \in CollateralTokens :
           v # u \/ s # t => userCollateral'[v][s] = userCollateral[v][s]
      /\ \A s \in CollateralTokens : s # t => totalCollateral'[s] = totalCollateral[s]
  BY <1>1 DEF DepositCollateral
<1>3. userCollateral[u][t] \in Nat /\ totalCollateral[t] \in Nat
  BY <1>1
<1>4. totalCollateral'[t] = totalCollateral[t] - userCollateral[u][t] + userCollateral'[u][t]
  BY <1>1, <1>2, <1>3
<1>5. QED
  BY <1>1, <1>2, <1>4, OneBalanceMoves

LEMMA TotalsKeptByRelease ==
  ASSUME RegistryInv, RegistryInv', TotalsAddUp, NEW u \in Users, NEW t \in CollateralTokens,
         NEW amount \in Nat, Release(u, t, amount)
  PROVE  TotalsAddUp'
<1>1. /\ RegistryTypeOK /\ RegistryTypeOK'
      /\ userCollateral \in [Users -> [CollateralTokens -> Nat]]
      /\ totalCollateral \in [CollateralTokens -> Nat]
  BY DEF RegistryInv, RegistryTypeOK
<1>2. /\ userCollateral'[u][t] = userCollateral[u][t] - amount
      /\ totalCollateral'[t] = totalCollateral[t] - amount
      /\ \A v \in Users, s \in CollateralTokens :
           v # u \/ s # t => userCollateral'[v][s] = userCollateral[v][s]
      /\ \A s \in CollateralTokens : s # t => totalCollateral'[s] = totalCollateral[s]
  BY <1>1 DEF Release
<1>3. userCollateral[u][t] \in Nat /\ totalCollateral[t] \in Nat
  BY <1>1
<1>4. totalCollateral'[t] = totalCollateral[t] - userCollateral[u][t] + userCollateral'[u][t]
  BY <1>2, <1>3
<1>5. QED
  BY <1>1, <1>2, <1>4, OneBalanceMoves

LEMMA TotalsKept ==
  ASSUME RegistryInv, TotalsAddUp, [RegistryNext]_registryVars
  PROVE  TotalsAddUp'
<1>1. RegistryInv'
  BY RegistryStepHolds
<1>2. CASE UNCHANGED registryVars
  BY <1>2 DEF registryVars, TotalsAddUp, Pledged
<1>3. ASSUME NEW u \in Users, NEW t \in CollateralTokens, NEW amount \in CollateralAmounts,
             DepositCollateral(u, t, amount)
      PROVE  TotalsAddUp'
  BY <1>1, <1>3, TotalsKeptByDeposit
<1>4. ASSUME NEW u \in Users, NEW t \in CollateralTokens, NEW amount \in CollateralAmounts,
             WithdrawCollateral(u, t, amount)
      PROVE  TotalsAddUp'
  BY <1>1, <1>4, TotalsKeptByRelease, RegistryConstants DEF WithdrawCollateral
<1>5. ASSUME NEW u \in Users, NEW t \in CollateralTokens, NEW amount \in CollateralAmounts,
             SeizeCollateral(u, t, amount)
      PROVE  TotalsAddUp'
  <2> DEFINE seized == SeizedAmount(u, t, amount)
  <2>1. seized \in Nat
    BY RegistryConstants DEF RegistryInv, RegistryTypeOK, SeizedAmount
  <2>2. CASE seized > 0
    <3>1. Release(u, t, seized)
      BY <1>5, <2>2 DEF SeizeCollateral
    <3> HIDE DEF seized
    <3>2. QED
      BY <1>1, <2>1, <3>1, TotalsKeptByRelease
  <2>3. CASE ~(seized > 0)
    BY <1>2, <1>5, <2>3 DEF SeizeCollateral
  <2>4. QED
    BY <2>2, <2>3
<1>6. ASSUME NEW t \in CollateralTokens, NEW config \in ConfigChoices,
             ConfigureCollateral(t, config)
      PROVE  TotalsAddUp'
  BY <1>6 DEF ConfigureCollateral, TotalsAddUp, Pledged
<1>7. QED
  BY <1>2, <1>3, <1>4, <1>5, <1>6 DEF RegistryNext

(* totalCollateral is the sum of the users' balances, for any number of    *)
(* users and tokens: the checked subtraction of a release never stands in  *)
(* the way of a user's own balance (depositCollateral, _removeCollateral). *)
THEOREM TotalsAreSums == RegistrySpec => []TotalsAddUp
<1>1. RegistryInit => TotalsAddUp
  <2> SUFFICES ASSUME RegistryInit, NEW t \in CollateralTokens
               PROVE  totalCollateral[t] = SumFunction(Pledged(t))
    BY DEF TotalsAddUp
  <2>1. IsFiniteSet(Users) /\ Pledged(t) \in [Users -> Int]
    BY RegistryInitHolds, PledgedTyped DEF RegistryInv
  <2>2. \A u \in Users : Pledged(t)[u] = 0
    BY DEF RegistryInit, Pledged
  <2>3. SumFunction(Pledged(t)) = 0
    BY <2>1, <2>2, SumOfMapping
  <2>4. QED
    BY <2>3 DEF RegistryInit
<1>2. RegistryInv /\ TotalsAddUp /\ [RegistryNext]_registryVars => TotalsAddUp'
  BY TotalsKept
<1>3. QED
  BY <1>1, <1>2, RegistryInvariant, PTL DEF RegistrySpec

-----------------------------------------------------------------------------
(* The oracle.  The median of a set of prices, by rank: ranks are numbered *)
(* through without a gap, so there is a price at every rank asked for.     *)
IsPrices(prices) ==
  /\ IsFiniteSet(DOMAIN prices) /\ DOMAIN prices \subseteq Int
  /\ prices \in [DOMAIN prices -> Nat]

Rank(prices, i) == Cardinality(Below(prices, i))

LEMMA RankType ==
  ASSUME NEW prices, IsPrices(prices), NEW i \in DOMAIN prices
  PROVE  /\ IsFiniteSet(Below(prices, i))
         /\ Count(prices) \in Nat \ {0}
         /\ Rank(prices, i) \in 0..(Count(prices) - 1)
<1> DEFINE D == DOMAIN prices
<1>1. IsFiniteSet(D) /\ i \in D /\ prices[i] \in Nat /\ i \in Int
  BY DEF IsPrices
<1>2. Below(prices, i) \in SUBSET (D \ {i})
  BY <1>1 DEF Below
<1>3. /\ IsFiniteSet(D \ {i}) /\ Cardinality(D \ {i}) = Cardinality(D) - 1
  BY <1>1, FS_RemoveElement
<1>4. /\ IsFiniteSet(Below(prices, i))
      /\ Cardinality(Below(prices, i)) <= Cardinality(D \ {i})
  BY <1>2, <1>3, FS_Subset
<1>5. Cardinality(D) \in Nat /\ Cardinality(D \ {i}) \in Nat
      /\ Cardinality(Below(prices, i)) \in Nat
  BY <1>1, <1>3, <1>4, FS_CardinalityType
<1>6. QED
  BY <1>3, <1>4, <1>5 DEF Rank, Count

(* What stands before another has the smaller rank. *)
LEMMA RankGrows ==
  ASSUME NEW prices, IsPrices(prices), NEW i \in DOMAIN prices, NEW j \in DOMAIN prices,
         prices[i] < prices[j] \/ (prices[i] = prices[j] /\ i < j)
  PROVE  Rank(prices, i) < Rank(prices, j)
<1>1. \A k \in DOMAIN prices : k \in Int /\ prices[k] \in Nat
  BY DEF IsPrices
<1>2. i \notin Below(prices, i)
  BY <1>1 DEF Below
<1>3. Below(prices, i) \cup {i} \in SUBSET Below(prices, j)
  BY <1>1 DEF Below
<1>4. IsFiniteSet(Below(prices, i)) /\ IsFiniteSet(Below(prices, j))
  BY RankType
<1>5. Cardinality(Below(prices, i) \cup {i}) = Cardinality(Below(prices, i)) + 1
  BY <1>2, <1>4, FS_AddElement
<1>6. Cardinality(Below(prices, i) \cup {i}) <= Cardinality(Below(prices, j))
  BY <1>3, <1>4, FS_Subset
<1>7. Cardinality(Below(prices, i)) \in Nat /\ Cardinality(Below(prices, j)) \in Nat
  BY <1>4, FS_CardinalityType
<1>8. QED
  BY <1>5, <1>6, <1>7 DEF Rank

LEMMA RankedIsMember ==
  ASSUME NEW prices, IsPrices(prices), NEW k \in 1..Count(prices)
  PROVE  \E i \in DOMAIN prices : Rank(prices, i) = k - 1 /\ Ranked(prices, k) = prices[i]
<1> DEFINE D == DOMAIN prices
           n == Count(prices)
           T == 0..(n - 1)
           rank == [i \in D |-> Rank(prices, i)]
<1>1. IsFiniteSet(D) /\ n \in Nat /\ Cardinality(D) = n
  BY FS_CardinalityType DEF IsPrices, Count
<1>2. IsFiniteSet(T) /\ Cardinality(T) = n
  <2> HIDE DEF n
  <2>1. n - 1 \in Int /\ 0 \in Int
    BY <1>1
  <2>2. /\ IsFiniteSet(0..(n - 1))
        /\ Cardinality(0..(n - 1)) = IF 0 > n - 1 THEN 0 ELSE (n - 1) - 0 + 1
    BY <2>1, FS_Interval
  <2>3. QED
    BY <1>1, <2>2
<1>3. rank \in [D -> T]
  BY RankType
<1>4. ASSUME NEW i \in D, NEW j \in D, rank[i] = rank[j] PROVE i = j
  <2>1. /\ i \in Int /\ j \in Int /\ prices[i] \in Nat /\ prices[j] \in Nat
        /\ Rank(prices, i) \in Int /\ Rank(prices, j) \in Int
    BY RankType DEF IsPrices
  <2>2. ~(Rank(prices, i) < Rank(prices, j)) /\ ~(Rank(prices, j) < Rank(prices, i))
    BY <1>4, <2>1
  <2>3. /\ ~(prices[i] < prices[j] \/ (prices[i] = prices[j] /\ i < j))
        /\ ~(prices[j] < prices[i] \/ (prices[j] = prices[i] /\ j < i))
    BY <2>2, RankGrows
  <2>4. QED
    BY <2>1, <2>3
<1>5. rank \in Injection(D, T)
  BY <1>3, <1>4 DEF Injection, IsInjective
<1>6. rank \in Surjection(D, T)
  <2> HIDE DEF D, T, rank
  <2>1. QED
    BY <1>1, <1>2, <1>5, FS_Injection
<1>7. k - 1 \in T
  BY <1>1
<1>8. \E i \in D : rank[i] = k - 1
  BY <1>6, <1>7 DEF Surjection
<1>9. \E i \in D : Rank(prices, i) = k - 1
  BY <1>8
<1>10. QED
  BY <1>9 DEF Ranked, Rank

(* Few prices lie below the one at a rank, and few above.                  *)
LEMMA RankSplits ==
  ASSUME NEW prices, IsPrices(prices), NEW i \in DOMAIN prices, NEW p \in Nat
  PROVE  /\ p <= prices[i] =>
              Cardinality({j \in DOMAIN prices : prices[j] < p}) <= Rank(prices, i)
         /\ prices[i] <= p =>
              Cardinality({j \in DOMAIN prices : prices[j] > p})
                <= Count(prices) - 1 - Rank(prices, i)
<1> DEFINE D == DOMAIN prices
           low == {j \in D : prices[j] < p}
           high == {j \in D : prices[j] > p}
           B == Below(prices, i)
<1>1. IsFiniteSet(D) /\ \A j \in D : j \in Int /\ prices[j] \in Nat
  BY DEF IsPrices
<1>2. IsFiniteSet(B) /\ B \in SUBSET D /\ i \notin B
  BY <1>1, RankType DEF Below
<1>3. ASSUME p <= prices[i] PROVE Cardinality(low) <= Cardinality(B)
  <2>1. low \in SUBSET B
    BY <1>1, <1>3 DEF Below
  <2>2. QED
    BY <1>2, <2>1, FS_Subset
<1>4. ASSUME prices[i] <= p PROVE Cardinality(high) <= Cardinality(D) - 1 - Cardinality(B)
  <2> DEFINE Up == B \cup {i}
  <2>1. IsFiniteSet(Up) /\ Cardinality(Up) = Cardinality(B) + 1
    BY <1>2, FS_AddElement
  <2>2. high \cap Up = {} /\ high \cup Up \in SUBSET D
    BY <1>1, <1>2, <1>4 DEF Below
  <2>3. IsFiniteSet(high)
    BY <1>1, FS_Subset
  <2> HIDE DEF high, Up, B
  <2>4. Cardinality(high \cup Up) = Cardinality(high) + Cardinality(Up) - Cardinality({})
    BY <2>1, <2>2, <2>3, FS_Union
  <2>5. Cardinality(high \cup Up) <= Cardinality(D)
    BY <1>1, <2>2, FS_Subset
  <2>6. /\ Cardinality(high) \in Nat /\ Cardinality(B) \in Nat /\ Cardinality(D) \in Nat
        /\ Cardinality({}) = 0
    BY <1>1, <1>2, <2>3, FS_CardinalityType, FS_EmptySet
  <2>7. QED
    BY <2>1, <2>4, <2>5, <2>6
<1>5. QED
  BY <1>3, <1>4 DEF Rank, Count

(* The median is an unsigned number with as much below it as above.  With  *)
(* an even count it lies between the two middle prices.                    *)
LEMMA MedianSplits ==
  ASSUME NEW prices, IsPrices(prices), Count(prices) # 0
  PROVE  /\ CalculateMedian(prices) \in Nat
         /\ \E i \in DOMAIN prices : prices[i] <= CalculateMedian(prices)
         /\ 2 * Cardinality({j \in DOMAIN prices : prices[j] > CalculateMedian(prices)})
              <= Count(prices)
         /\ 2 * Cardinality({j \in DOMAIN prices : prices[j] < CalculateMedian(prices)})
              <= Count(prices)
<1> DEFINE n == Count(prices)
           half == n \div 2
           m == CalculateMedian(prices)
           high == Cardinality({j \in DOMAIN prices : prices[j] > m})
           low == Cardinality({j \in DOMAIN prices : prices[j] < m})
<1>1. n \in Nat \ {0}
  BY FS_CardinalityType DEF IsPrices, Count
<1>2. /\ half \in Nat
      /\ n % 2 = 0 => n = 2 * half /\ half >= 1
      /\ n % 2 # 0 => n = 2 * half + 1
  <2> HIDE DEF n
  <2> QED
    BY <1>1
<1>3. high \in Nat /\ low \in Nat
  <2>1. /\ IsFiniteSet({j \in DOMAIN prices : prices[j] > m})
        /\ IsFiniteSet({j \in DOMAIN prices : prices[j] < m})
    <3> HIDE DEF m
    <3> QED
      BY FS_Subset DEF IsPrices
  <2>2. QED
    BY <2>1, FS_CardinalityType
<1>4. \A i \in DOMAIN prices : prices[i] \in Nat
  BY DEF IsPrices
<1>5. CASE n % 2 # 0
  <2>1. half + 1 \in 1..Count(prices) /\ m = Ranked(prices, half + 1)
    BY <1>1, <1>2, <1>5 DEF CalculateMedian
  <2>2. PICK i \in DOMAIN prices : Rank(prices, i) = half /\ m = prices[i]
    BY <1>2, <2>1, RankedIsMember
  <2> HIDE DEF m, half, n
  <2>3. m \in Nat
    BY <1>4, <2>2
  <2>4. low <= half /\ high <= n - 1 - half
    BY <2>2, <2>3, RankSplits DEF n
  <2> HIDE DEF low, high
  <2>5. 2 * low <= n /\ 2 * high <= n
    BY <1>1, <1>2, <1>3, <1>5, <2>4
  <2>6. \E k \in DOMAIN prices : prices[k] <= m
    BY <2>2, <2>3
  <2>7. QED
    BY <2>3, <2>5, <2>6 DEF low, high, n, m
<1>6. CASE n % 2 = 0
  <2>1. /\ half \in 1..Count(prices) /\ half + 1 \in 1..Count(prices)
        /\ m = (Ranked(prices, half) + Ranked(prices, half + 1)) \div 2
    BY <1>1, <1>2, <1>6 DEF CalculateMedian
  <2>2. PICK i \in DOMAIN prices : Rank(prices, i) = half - 1 /\ Ranked(prices, half) = prices[i]
    BY <2>1, RankedIsMember
  <2>3. PICK j \in DOMAIN prices :
          Rank(prices, j) = half /\ Ranked(prices, half + 1) = prices[j]
    BY <1>2, <2>1, RankedIsMember
  <2> HIDE DEF m, half, n
  <2>4. prices[i] \in Nat /\ prices[j] \in Nat /\ m = (prices[i] + prices[j]) \div 2
    BY <1>4, <2>1, <2>2, <2>3
  <2>5. prices[i] <= prices[j]
    <3>1. ASSUME prices[j] < prices[i] PROVE FALSE
      <4>1. Rank(prices, j) < Rank(prices, i)
        BY <3>1, RankGrows
      <4>2. QED
        BY <1>2, <2>2, <2>3, <4>1
    <3>2. QED
      BY <2>4, <3>1
  <2>6. m \in Nat /\ prices[i] <= m /\ m <= prices[j]
    BY <2>4, <2>5
  <2>7. low <= half /\ high <= n - 1 - (half - 1)
    BY <2>2, <2>3, <2>6, RankSplits DEF n
  <2> HIDE DEF low, high
  <2>8. 2 * low <= n /\ 2 * high <= n
    BY <1>1, <1>2, <1>3, <1>6, <2>7
  <2>9. QED
    BY <2>6, <2>8 DEF low, high, n, m
<1>7. QED
  BY <1>5, <1>6

-----------------------------------------------------------------------------
(* What getAssetPrice answers is never zero, as no valid price is.         *)
LEMMA ValidPricesTyped ==
  ASSUME TypeOK
  PROVE  /\ IsPrices(ValidPrices)
         /\ \A i \in DOMAIN ValidPrices : ValidPrices[i] > 0
         /\ Count(ValidPrices) <= Len(priceFeeds)
<1> DEFINE D == {k \in DOMAIN priceFeeds : Fresh(priceFeeds[k])}
<1>1. /\ DOMAIN priceFeeds = 1..Len(priceFeeds) /\ Len(priceFeeds) \in Nat
      /\ \A i \in DOMAIN priceFeeds : priceFeeds[i] \in Feeds
  BY DEF TypeOK
<1>2. \A i \in D : answer[priceFeeds[i]].price \in Nat /\ answer[priceFeeds[i]].price > 0
  BY <1>1, OracleConstants DEF TypeOK, Fresh
<1>3. /\ IsFiniteSet(1..Len(priceFeeds))
      /\ Cardinality(1..Len(priceFeeds)) = Len(priceFeeds)
  <2>1. /\ 1 \in Int /\ Len(priceFeeds) \in Int
    BY <1>1
  <2>2. /\ IsFiniteSet(1..Len(priceFeeds))
        /\ Cardinality(1..Len(priceFeeds))
             = IF 1 > Len(priceFeeds) THEN 0 ELSE Len(priceFeeds) - 1 + 1
    BY <2>1, FS_Interval
  <2>3. QED
    BY <1>1, <2>2
<1>4. D \in SUBSET (1..Len(priceFeeds))
  BY <1>1
<1>5. IsFiniteSet(D) /\ Cardinality(D) <= Len(priceFeeds)
  BY <1>3, <1>4, FS_Subset
<1>6. DOMAIN ValidPrices = D /\ \A i \in D : ValidPrices[i] = answer[priceFeeds[i]].price
  BY DEF ValidPrices
<1>7. ValidPrices = [i \in DOMAIN ValidPrices |-> ValidPrices[i]]
  BY DEF ValidPrices
<1>8. ValidPrices \in [DOMAIN ValidPrices -> Nat]
  <2> HIDE DEF D
  <2> QED
    BY <1>2, <1>6, <1>7
<1>9. D \subseteq Int
  BY <1>1
<1> HIDE DEF D
<1>10. QED
  BY <1>2, <1>5, <1>6, <1>8, <1>9 DEF IsPrices, Count

LEMMA PriceIsPositive ==
  ASSUME TypeOK, Count(ValidPrices) >= MIN_ORACLES
  PROVE  Price \in Nat \ {0}
<1>1. IsPrices(ValidPrices) /\ Count(ValidPrices) \in Nat
  BY ValidPricesTyped, FS_CardinalityType DEF IsPrices, Count
<1>2. Count(ValidPrices) # 0
  BY <1>1, OracleConstants
<1>3. /\ Price \in Nat
      /\ \E i \in DOMAIN ValidPrices : ValidPrices[i] <= Price
  BY <1>1, <1>2, MedianSplits DEF Price
<1>4. \A i \in DOMAIN ValidPrices : ValidPrices[i] > 0 /\ ValidPrices[i] \in Nat
  BY ValidPricesTyped DEF IsPrices
<1>5. QED
  BY <1>3, <1>4

(* OracleManager.TypeOK, inductive as it stands: what is recorded is a     *)
(* median of unsigned answers, and it goes to a place of the ring.         *)
THEOREM OracleTypes == Spec => []TypeOK
<1>1. Init => TypeOK
  BY OracleConstants DEF Init, TypeOK
<1>2. ASSUME TypeOK, [Next]_vars PROVE TypeOK'
  <2> USE <1>2 DEF TypeOK
  <2>1. ASSUME NEW feed \in Feeds, AddPriceFeed(feed) PROVE TypeOK'
    BY <2>1 DEF AddPriceFeed
  <2>2. ASSUME NEW i \in 1..MaxFeeds, RemovePriceFeed(i) PROVE TypeOK'
    <3>1. /\ Len(priceFeeds) \in Nat /\ DOMAIN priceFeeds = 1..Len(priceFeeds)
          /\ i \in 1..Len(priceFeeds)
      BY <2>2 DEF RemovePriceFeed
    <3>2. [priceFeeds EXCEPT ![i] = priceFeeds[Len(priceFeeds)]] \in Seq(Feeds)
      BY <3>1
    <3>3. SubSeq([priceFeeds EXCEPT ![i] = priceFeeds[Len(priceFeeds)]], 1, Len(priceFeeds) - 1)
            \in Seq(Feeds)
      BY <3>1, <3>2
    <3>4. QED
      BY <2>2, <3>3 DEF RemovePriceFeed
  <2>3. ASSUME GetAssetPrice PROVE TypeOK'
    <3> DEFINE point == [price |-> Price, timestamp |-> now]
    <3>1. point \in [price : Nat, timestamp : Nat]
      BY <2>3, PriceIsPositive DEF GetAssetPrice, PriceAnswers
    <3>2. UpdatePriceHistory(point) /\ UNCHANGED <<now, priceFeeds, answer>>
      BY <2>3 DEF GetAssetPrice
    <3> HIDE DEF point
    <3>3. CASE Len(priceHistory) < MAX_HISTORY_SIZE
      <4>1. priceHistory' = Append(priceHistory, point) /\ historyIndex' = historyIndex
        BY <3>2, <3>3 DEF UpdatePriceHistory, PushPoint
      <4>2. /\ priceHistory' \in Seq([price : Nat, timestamp : Nat])
            /\ Len(priceHistory') = Len(priceHistory) + 1
        BY <3>1, <4>1
      <4>3. Len(priceHistory') <= MAX_HISTORY_SIZE
        BY <3>3, <4>2, OracleConstants
      <4>4. QED
        BY <3>2, <4>1, <4>2, <4>3
    <3>4. CASE ~(Len(priceHistory) < MAX_HISTORY_SIZE)
      <4>1. /\ priceHistory' = [priceHistory EXCEPT ![historyIndex + 1] = point]
            /\ historyIndex' = (historyIndex + 1) % MAX_HISTORY_SIZE
        BY <3>2, <3>4 DEF UpdatePriceHistory
      <4>2. /\ priceHistory' \in Seq([price : Nat, timestamp : Nat])
            /\ Len(priceHistory') = Len(priceHistory)
        <5>1. historyIndex + 1 \in 1..Len(priceHistory)
          BY <3>4, OracleConstants
        <5>2. QED
          BY <3>1, <4>1, <5>1, ExceptSeq
      <4>3. historyIndex' \in 0..(MAX_HISTORY_SIZE - 1)
        BY <4>1, OracleConstants, SMTT(60)
      <4>4. QED
        BY <3>2, <4>2, <4>3
    <3>5. QED
      BY <3>3, <3>4
  <2>4. ASSUME NEW feed \in Feeds, NEW price \in Answers, FeedAnswers(feed, price)
        PROVE  TypeOK'
    BY <2>4, OracleConstants DEF FeedAnswers
  <2>5. ASSUME Tick PROVE TypeOK'
    <3>1. answer \in [Feeds -> [price : Answers, updatedAt : 0..now']]
      BY <2>5 DEF Tick
    <3>2. QED
      BY <2>5, <3>1 DEF Tick
  <2>6. CASE UNCHANGED vars
    BY <2>6 DEF vars
  <2>7. QED
    BY <2>1, <2>2, <2>3, <2>4, <2>5, <2>6 DEF Next
<1>3. QED
  BY <1>1, <1>2, PTL DEF Spec

-----------------------------------------------------------------------------
(* RingInOrder needs to know that no recorded time lies ahead, and that    *)
(* the index stays at zero until the ring is full.  That every recorded    *)
(* price is positive is what NoJumps reads of the window.                  *)
OracleInv ==
  /\ TypeOK
  /\ \A i \in DOMAIN priceHistory : priceHistory[i].timestamp <= now /\ priceHistory[i].price > 0
  /\ Len(priceHistory) < MAX_HISTORY_SIZE => historyIndex = 0
  /\ RingInOrder

(* Where the k-th oldest of n points stands in a ring whose index is h.    *)
Place(n, h, k) == IF h + k <= n THEN h + k ELSE h + k - n

LEMMA OldestStands ==
  ASSUME NEW n \in Nat \ {0}, NEW h \in 0..(n - 1), NEW k \in 1..n
  PROVE  ((h + k - 1) % n) + 1 = Place(n, h, k)
<1> DEFINE x == h + k - 1
<1>1. x \in Nat /\ x < 2 * n
  OBVIOUS
<1> HIDE DEF x
<1>2. x % n = IF x < n THEN x ELSE x - n
  BY <1>1, ModWraps
<1> USE DEF x
<1>3. QED
  BY <1>2 DEF Place

LEMMA IndexWraps ==
  ASSUME NEW m \in Nat \ {0}, NEW h \in 0..(m - 1)
  PROVE  (h + 1) % m = IF h + 1 < m THEN h + 1 ELSE 0
<1> DEFINE x == h + 1
<1>1. x \in Nat /\ x < 2 * m /\ x <= m
  OBVIOUS
<1> HIDE DEF x
<1>2. x % m = IF x < m THEN x ELSE x - m
  BY <1>1, ModWraps
<1>3. QED
  BY <1>1, <1>2 DEF x

LEMMA PlacesTurn ==
  ASSUME NEW n \in Nat \ {0}, NEW h \in 0..(n - 1), NEW g, g = IF h + 1 < n THEN h + 1 ELSE 0
  PROVE  /\ g \in 0..(n - 1)
         /\ \A k \in 1..n : Place(n, h, k) \in 1..n
         /\ Place(n, g, n) = h + 1
         /\ \A k \in 1..(n - 1) : /\ k + 1 \in 1..n
                                  /\ Place(n, g, k) = Place(n, h, k + 1)
                                  /\ Place(n, g, k) # h + 1
  BY DEF Place

LEMMA PointsTyped ==
  ASSUME OracleInv
  PROVE  /\ DOMAIN priceHistory = 1..Len(priceHistory) /\ now \in Nat
         /\ \A i \in 1..Len(priceHistory) :
              /\ priceHistory[i] \in [price : Nat, timestamp : Nat]
              /\ priceHistory[i].timestamp \in Nat /\ priceHistory[i].timestamp <= now
              /\ priceHistory[i].price \in Nat /\ priceHistory[i].price > 0
<1>1. priceHistory \in Seq([price : Nat, timestamp : Nat]) /\ now \in Nat
  BY DEF OracleInv, TypeOK
<1>2. /\ DOMAIN priceHistory = 1..Len(priceHistory)
      /\ \A i \in 1..Len(priceHistory) : priceHistory[i] \in [price : Nat, timestamp : Nat]
  BY <1>1, LenProperties, ElementOfSeq
<1>3. \A i \in DOMAIN priceHistory : priceHistory[i].timestamp <= now /\ priceHistory[i].price > 0
  BY DEF OracleInv
<1>4. QED
  BY <1>1, <1>2, <1>3

Points == [price : Nat, timestamp : Nat]

(* RingInOrder of a history and an index, read by Place. *)
InOrder(hist, h) ==
  \A j, k \in 1..Len(hist) :
    j <= k => hist[Place(Len(hist), h, j)].timestamp <= hist[Place(Len(hist), h, k)].timestamp

LEMMA RingIsInOrder ==
  ASSUME NEW hist \in Seq(Points), NEW h, Len(hist) > 0 => h \in 0..(Len(hist) - 1)
  PROVE  InOrder(hist, h) <=>
           \A j, k \in DOMAIN hist :
             j <= k => hist[((h + j - 1) % Len(hist)) + 1].timestamp
                         <= hist[((h + k - 1) % Len(hist)) + 1].timestamp
<1>1. Len(hist) \in Nat /\ DOMAIN hist = 1..Len(hist)
  OBVIOUS
<1>2. CASE Len(hist) = 0
  BY <1>1, <1>2 DEF InOrder
<1>3. CASE Len(hist) # 0
  <2>1. Len(hist) \in Nat \ {0} /\ h \in 0..(Len(hist) - 1)
    BY <1>1, <1>3
  <2>2. \A k \in 1..Len(hist) : ((h + k - 1) % Len(hist)) + 1 = Place(Len(hist), h, k)
    BY <2>1, OldestStands
  <2>3. QED
    BY <1>1, <2>2 DEF InOrder
<1>4. QED
  BY <1>2, <1>3

(* A point joins a history that is not full: it becomes the youngest. *)
LEMMA PushKeepsOrder ==
  ASSUME NEW hist \in Seq(Points), NEW point \in Points, InOrder(hist, 0),
         \A i \in 1..Len(hist) : hist[i].timestamp <= point.timestamp
  PROVE  InOrder(Append(hist, point), 0)
<1> DEFINE n == Len(hist)
           new == Append(hist, point)
<1>1. /\ n \in Nat /\ Len(new) = n + 1 /\ new[n + 1] = point
      /\ \A k \in 1..n : new[k] = hist[k]
  OBVIOUS
<1>2. point.timestamp \in Nat
  BY DEF Points
<1>3. \A k \in 1..n : Place(n, 0, k) = k
  BY <1>1 DEF Place
<1>4. \A k \in 1..(n + 1) : Place(n + 1, 0, k) = k
  BY <1>1 DEF Place
<1>5. ASSUME NEW j \in 1..(n + 1), NEW k \in 1..(n + 1), j <= k
      PROVE  new[j].timestamp <= new[k].timestamp
  <2>1. CASE k = n + 1
    <3>1. j = n + 1 \/ j \in 1..n
      BY <1>1
    <3>2. QED
      BY <1>1, <1>2, <2>1, <3>1
  <2>2. CASE k # n + 1
    <3>1. j \in 1..n /\ k \in 1..n
      BY <1>1, <1>5, <2>2
    <3>2. hist[j].timestamp <= hist[k].timestamp
      BY <1>3, <1>5, <3>1 DEF InOrder
    <3>3. QED
      BY <1>1, <3>1, <3>2
  <2>3. QED
    BY <2>1, <2>2
<1> HIDE DEF n, new
<1>6. QED
  BY <1>1, <1>4, <1>5 DEF InOrder, new, n

(* In a full history a point takes the place of the oldest, and every      *)
(* other one is a place older.                                             *)
LEMMA OverwriteKeepsOrder ==
  ASSUME NEW hist \in Seq(Points), NEW point \in Points, Len(hist) > 0,
         NEW h \in 0..(Len(hist) - 1), NEW g, g = IF h + 1 < Len(hist) THEN h + 1 ELSE 0,
         InOrder(hist, h), \A i \in 1..Len(hist) : hist[i].timestamp <= point.timestamp
  PROVE  g \in 0..(Len(hist) - 1) /\ InOrder([hist EXCEPT ![h + 1] = point], g)
<1> DEFINE n == Len(hist)
           new == [hist EXCEPT ![h + 1] = point]
<1>1. n \in Nat \ {0} /\ h \in 0..(n - 1) /\ h + 1 \in 1..n
  <2>1. n \in Nat /\ n > 0 /\ h \in 0..(n - 1)
    BY LenProperties
  <2> HIDE DEF n
  <2>2. QED
    BY <2>1
<1>2. /\ Len(new) = n
      /\ \A k \in 1..n : new[k] = IF k = h + 1 THEN point ELSE hist[k]
  <2>1. h + 1 \in 1..Len(hist)
    BY <1>1
  <2>2. QED
    BY <2>1, ExceptSeq
<1>3. point.timestamp \in Nat
  BY DEF Points
<1>4. /\ g \in 0..(n - 1)
      /\ \A k \in 1..n : Place(n, h, k) \in 1..n
      /\ Place(n, g, n) = h + 1
      /\ \A k \in 1..(n - 1) : /\ k + 1 \in 1..n
                               /\ Place(n, g, k) = Place(n, h, k + 1)
                               /\ Place(n, g, k) # h + 1
  <2>1. g = IF h + 1 < n THEN h + 1 ELSE 0
    OBVIOUS
  <2> HIDE DEF n, new
  <2>2. n \in Nat \ {0} /\ h \in 0..(n - 1)
    BY <1>1
  <2>3. QED
    BY ONLY <2>1, <2>2, PlacesTurn
<1> HIDE DEF new
<1>5. new[Place(n, g, n)] = point
  BY <1>1, <1>2, <1>4
<1>6. \A k \in 1..(n - 1) : new[Place(n, g, k)] = hist[Place(n, h, k + 1)]
  BY <1>1, <1>2, <1>4
<1>7. ASSUME NEW j \in 1..n, NEW k \in 1..n, j <= k
      PROVE  new[Place(n, g, j)].timestamp <= new[Place(n, g, k)].timestamp
  <2>1. (j \in 1..(n - 1) \/ j = n) /\ (k \in 1..(n - 1) \/ k = n)
    BY <1>1
  <2>2. CASE k = n /\ j = n
    BY <1>3, <1>5, <2>2
  <2>3. CASE k = n /\ j \in 1..(n - 1)
    BY <1>4, <1>5, <1>6, <2>3
  <2>4. CASE k \in 1..(n - 1)
    <3>1. j \in 1..(n - 1) /\ j + 1 <= k + 1
      BY <1>1, <1>7, <2>4
    <3>2. j + 1 \in 1..n /\ k + 1 \in 1..n
      BY <1>4, <2>4, <3>1
    <3>3. hist[Place(n, h, j + 1)].timestamp <= hist[Place(n, h, k + 1)].timestamp
      BY <3>1, <3>2 DEF InOrder
    <3>4. QED
      BY <1>6, <2>4, <3>1, <3>3
  <2>5. QED
    BY <2>1, <2>2, <2>3, <2>4
<1> HIDE DEF n
<1>8. InOrder(new, g)
  BY <1>2, <1>7 DEF InOrder
<1>9. QED
  BY <1>4, <1>8 DEF n, new

LEMMA RingOfState ==
  ASSUME TypeOK, Len(priceHistory) < MAX_HISTORY_SIZE => historyIndex = 0
  PROVE  /\ RingInOrder <=> InOrder(priceHistory, historyIndex)
         /\ Len(priceHistory) > 0 => historyIndex \in 0..(Len(priceHistory) - 1)
<1>1. /\ priceHistory \in Seq(Points) /\ Len(priceHistory) \in Nat
      /\ historyIndex \in 0..(MAX_HISTORY_SIZE - 1) /\ Len(priceHistory) <= MAX_HISTORY_SIZE
      /\ MAX_HISTORY_SIZE \in Nat
  BY OracleConstants DEF TypeOK, Points
<1>2. Len(priceHistory) > 0 => historyIndex \in 0..(Len(priceHistory) - 1)
  <2>1. ASSUME NEW l \in Nat, NEW m \in Nat, NEW h \in 0..(m - 1), l <= m, l < m => h = 0
        PROVE  l > 0 => h \in 0..(l - 1)
    BY <2>1
  <2> HIDE DEF TypeOK
  <2>2. QED
    BY <1>1, <2>1
<1>3. QED
  BY <1>1, <1>2, RingIsInOrder DEF RingInOrder, Oldest

LEMMA OracleInvHolds == Spec => []OracleInv
<1>1. TypeOK /\ Init => OracleInv
  BY OracleConstants DEF Init, OracleInv, RingInOrder
<1>2. ASSUME OracleInv, TypeOK', [Next]_vars PROVE OracleInv'
  <2> DEFINE point == [price |-> Price, timestamp |-> now]
  <2>1. TypeOK /\ now \in Nat /\ priceHistory \in Seq([price : Nat, timestamp : Nat])
    BY <1>2 DEF OracleInv, TypeOK
  <2>2. ASSUME UNCHANGED <<priceHistory, historyIndex>>, now' \in Nat, now' >= now PROVE OracleInv'
    <3>1. RingInOrder'
      BY <1>2, <2>2 DEF OracleInv, RingInOrder, Oldest
    <3>2. \A i \in DOMAIN priceHistory :
             priceHistory[i].timestamp \in Nat /\ priceHistory[i].timestamp <= now
      BY <1>2, PointsTyped
    <3>3. \A i \in DOMAIN priceHistory : priceHistory[i].timestamp <= now'
      BY <2>1, <2>2, <3>2
    <3>4. QED
      BY <1>2, <2>2, <3>1, <3>3 DEF OracleInv
  <2>3. ASSUME GetAssetPrice PROVE OracleInv'
    <3>1. Price \in Nat \ {0}
      BY <2>1, <2>3, PriceIsPositive DEF GetAssetPrice, PriceAnswers
    <3>2. point \in [price : Nat, timestamp : Nat] /\ point.timestamp = now /\ point.price > 0
      BY <2>1, <3>1
    <3>3. UpdatePriceHistory(point) /\ now' = now
      BY <2>3 DEF GetAssetPrice
    <3> HIDE DEF point
    <3>4. /\ Len(priceHistory) \in Nat /\ Len(priceHistory) <= MAX_HISTORY_SIZE
          /\ DOMAIN priceHistory = 1..Len(priceHistory)
          /\ historyIndex \in 0..(MAX_HISTORY_SIZE - 1) /\ MAX_HISTORY_SIZE \in Nat \ {0}
      BY <2>1, OracleConstants DEF TypeOK
    <3>5. CASE Len(priceHistory) < MAX_HISTORY_SIZE
      <4>1. priceHistory' = Append(priceHistory, point) /\ historyIndex' = historyIndex
        BY <3>3, <3>5 DEF UpdatePriceHistory, PushPoint
      <4>2. RingInOrder'
        <5>1. priceHistory \in Seq(Points) /\ InOrder(priceHistory, 0) /\ historyIndex = 0
          BY <1>2, <2>1, <3>5, RingOfState DEF OracleInv, Points
        <5>2. \A i \in 1..Len(priceHistory) : priceHistory[i].timestamp <= point.timestamp
          BY <1>2, <3>2, PointsTyped
        <5>3. InOrder(Append(priceHistory, point), 0)
          BY <3>2, <5>1, <5>2, PushKeepsOrder DEF Points
        <5>4. priceHistory' \in Seq(Points) /\ Len(priceHistory') > 0
          BY <3>2, <4>1, <5>1 DEF Points
        <5>5. InOrder(priceHistory', historyIndex') /\ historyIndex' \in 0..(Len(priceHistory') - 1)
          BY <4>1, <5>1, <5>3, <5>4
        <5>6. QED
          BY <5>4, <5>5, RingIsInOrder DEF RingInOrder, Oldest
      <4>3. \A i \in DOMAIN priceHistory' :
               \/ (i \in DOMAIN priceHistory /\ priceHistory'[i] = priceHistory[i])
               \/ priceHistory'[i] = point
        BY <2>1, <4>1
      <4>4. \A i \in DOMAIN priceHistory' :
               priceHistory'[i].timestamp <= now' /\ priceHistory'[i].price > 0
        BY <1>2, <2>1, <3>2, <3>3, <4>3, SMTT(60) DEF OracleInv
      <4>5. historyIndex' = 0
        BY <1>2, <3>5, <4>1 DEF OracleInv
      <4>6. QED
        BY <1>2, <4>2, <4>4, <4>5 DEF OracleInv
    <3>6. CASE ~(Len(priceHistory) < MAX_HISTORY_SIZE)
      <4>1. /\ priceHistory' = [priceHistory EXCEPT ![historyIndex + 1] = point]
            /\ historyIndex' = (historyIndex + 1) % MAX_HISTORY_SIZE
        BY <3>3, <3>6, SMTT(60) DEF UpdatePriceHistory
      <4>2. Len(priceHistory) = MAX_HISTORY_SIZE /\ historyIndex + 1 \in 1..Len(priceHistory)
        <5>1. ASSUME NEW l \in Nat, NEW m \in Nat \ {0}, NEW h \in 0..(m - 1), l <= m, ~(l < m)
              PROVE  l = m /\ h + 1 \in 1..l
          BY <5>1
        <5>2. QED
          BY <3>4, <3>6, <5>1, ZenonT(60)
      <4>3. RingInOrder'
        <5>1. priceHistory \in Seq(Points) /\ InOrder(priceHistory, historyIndex)
          BY <1>2, <2>1, RingOfState DEF OracleInv, Points
        <5>2. \A i \in 1..Len(priceHistory) : priceHistory[i].timestamp <= point.timestamp
          BY <1>2, <3>2, PointsTyped
        <5>3. /\ Len(priceHistory) > 0 /\ historyIndex \in 0..(Len(priceHistory) - 1)
              /\ historyIndex' = IF historyIndex + 1 < Len(priceHistory) THEN historyIndex + 1 ELSE 0
          BY <3>4, <4>1, <4>2, IndexWraps
        <5>4. /\ historyIndex' \in 0..(Len(priceHistory) - 1)
              /\ InOrder(priceHistory', historyIndex')
          BY <3>2, <4>1, <5>1, <5>2, <5>3, OverwriteKeepsOrder DEF Points
        <5>5. priceHistory' \in Seq(Points) /\ Len(priceHistory') = Len(priceHistory)
          BY <3>2, <4>1, <4>2, <5>1, ExceptSeq DEF Points
        <5>6. QED
          BY <5>4, <5>5, RingIsInOrder DEF RingInOrder, Oldest
      <4>4. Len(priceHistory') = Len(priceHistory)
        BY <2>1, <3>2, <4>1, <4>2, ExceptSeq
      <4>5. \A i \in DOMAIN priceHistory' :
               \/ (i \in DOMAIN priceHistory /\ priceHistory'[i] = priceHistory[i])
               \/ priceHistory'[i] = point
        BY <4>1
      <4>6. \A i \in DOMAIN priceHistory' :
               priceHistory'[i].timestamp <= now' /\ priceHistory'[i].price > 0
        BY <1>2, <2>1, <3>2, <3>3, <4>5 DEF OracleInv
      <4>7. QED
        BY <1>2, <3>4, <4>2, <4>3, <4>4, <4>6 DEF OracleInv
    <3>7. QED
      BY <3>5, <3>6
  <2>4. ASSUME NEW feed \in Feeds, AddPriceFeed(feed) PROVE OracleInv'
    BY <2>1, <2>2, <2>4 DEF AddPriceFeed
  <2>5. ASSUME NEW i \in 1..MaxFeeds, RemovePriceFeed(i) PROVE OracleInv'
    BY <2>1, <2>2, <2>5 DEF RemovePriceFeed
  <2>6. ASSUME NEW feed \in Feeds, NEW price \in Answers, FeedAnswers(feed, price)
        PROVE  OracleInv'
    BY <2>1, <2>2, <2>6 DEF FeedAnswers
  <2>7. ASSUME Tick PROVE OracleInv'
    BY <2>1, <2>2, <2>7 DEF Tick
  <2>8. CASE UNCHANGED vars
    BY <2>1, <2>2, <2>8 DEF vars
  <2>9. QED
    BY <1>2, <2>3, <2>4, <2>5, <2>6, <2>7, <2>8 DEF Next
<1>3. QED
  BY <1>1, <1>2, OracleTypes, PTL DEF Spec

(* The history is the latest prices in the order of their times, however   *)
(* often the ring went round, and the next to be overwritten is the oldest *)
(* of them (updatePriceHistory).                                           *)
THEOREM HistoryInOrder == Spec => []RingInOrder
<1>1. OracleInv => RingInOrder
  BY DEF OracleInv
<1>2. QED
  BY <1>1, OracleInvHolds, PTL

(* The price answered is a middle one of the valid answers, for every      *)
(* number of feeds: sorting and the choice by parity (calculateMedian)     *)
(* leave at most half of them on either side.                              *)
THEOREM MedianIsMiddle == Spec => []MedianInMiddle
<1>1. ASSUME TypeOK PROVE MedianInMiddle
  <2>1. SUFFICES ASSUME Count(ValidPrices) >= MIN_ORACLES
                 PROVE  /\ 2 * Cardinality({i \in DOMAIN ValidPrices : ValidPrices[i] > Price})
                             <= Count(ValidPrices)
                        /\ 2 * Cardinality({i \in DOMAIN ValidPrices : ValidPrices[i] < Price})
                             <= Count(ValidPrices)
    BY DEF MedianInMiddle
  <2>2. IsPrices(ValidPrices) /\ Count(ValidPrices) \in Nat
    BY <1>1, ValidPricesTyped, FS_CardinalityType DEF IsPrices, Count
  <2>3. Count(ValidPrices) # 0
    BY <2>1, <2>2, OracleConstants
  <2>4. QED
    BY <2>2, <2>3, MedianSplits DEF Price
<1>2. QED
  BY <1>1, OracleTypes, PTL

-----------------------------------------------------------------------------
(* The weights of the window are unsigned, and they are all zero once the  *)
(* window has passed.                                                      *)
LEMMA WeightsTyped ==
  ASSUME TypeOK
  PROVE  /\ CutoffTime \in Nat /\ Window \in SUBSET DOMAIN priceHistory /\ IsFiniteSet(Window)
         /\ \A i \in Window : Weight(i) \in Nat
         /\ TotalWeight \in Nat
         /\ WindowPassed => TotalWeight = 0
<1> DEFINE weights == [i \in Window |-> Weight(i)]
           time(i) == priceHistory[i].timestamp
<1>1. now \in Nat /\ TWAP_PERIOD \in Nat
  BY OracleConstants DEF TypeOK
<1>2. CutoffTime \in Nat
  BY <1>1 DEF CutoffTime
<1>3. /\ DOMAIN priceHistory = 1..Len(priceHistory) /\ Len(priceHistory) \in Nat
      /\ \A i \in DOMAIN priceHistory : time(i) \in Nat
  <2>1. priceHistory \in Seq([price : Nat, timestamp : Nat])
    BY DEF TypeOK
  <2>2. DOMAIN priceHistory = 1..Len(priceHistory) /\ Len(priceHistory) \in Nat
    BY <2>1, LenProperties
  <2>3. \A i \in 1..Len(priceHistory) : priceHistory[i] \in [price : Nat, timestamp : Nat]
    BY <2>1, ElementOfSeq
  <2>4. QED
    BY <2>2, <2>3
<1>4. Window \in SUBSET DOMAIN priceHistory /\ \A i \in Window : time(i) >= CutoffTime
  BY DEF Window
<1>5. IsFiniteSet(Window)
  <2>1. 1 \in Int /\ Len(priceHistory) \in Int
    BY <1>3
  <2>2. IsFiniteSet(1..Len(priceHistory))
    BY <2>1, FS_Interval
  <2>3. QED
    BY <1>3, <1>4, <2>2, FS_Subset
<1>6. \A i \in Window : Weight(i) \in Nat
  BY <1>2, <1>3, <1>4 DEF Weight
<1>7. weights \in [Window -> Nat] /\ weights \in [Window -> Int]
  BY <1>6
<1>8. TotalWeight \in Nat
  <2> HIDE DEF weights
  <2>1. SumFunction(weights) \in Nat
    BY <1>5, <1>7, SumOfMapping
  <2> USE DEF weights
  <2>2. QED
    BY <2>1 DEF TotalWeight
<1>9. ASSUME WindowPassed PROVE TotalWeight = 0
  <2>1. ASSUME NEW i \in Window PROVE weights[i] = 0
    <3>1. time(i) \in Nat /\ time(i) >= CutoffTime /\ time(i) + TWAP_PERIOD <= now
      BY <1>3, <1>4, <1>9 DEF WindowPassed
    <3> HIDE DEF time
    <3>2. time(i) - CutoffTime = 0
      BY <1>1, <3>1 DEF CutoffTime
    <3>3. QED
      BY <3>2 DEF Weight, time
  <2> HIDE DEF weights
  <2>2. SumFunction(weights) = 0
    BY <1>5, <1>7, <2>1, SumOfMapping
  <2> USE DEF weights
  <2>3. QED
    BY <2>2 DEF TotalWeight
<1>10. QED
  BY <1>2, <1>4, <1>5, <1>6, <1>8, <1>9

(* No lockout: TWAP_PERIOD after the last recorded price, feeds that agree *)
(* are answered, whatever the prices before were; so is the refusal of a   *)
(* jump bounded in time (getAssetPrice, getTWAP).                          *)
THEOREM LockoutIsBounded == Spec => []LockoutEnds
<1>1. ASSUME TypeOK PROVE LockoutEnds
  <2>1. SUFFICES ASSUME FeedsAgree, WindowPassed PROVE PriceAnswers
    BY DEF LockoutEnds
  <2>2. GetTWAP = 0
    BY <1>1, <2>1, WeightsTyped DEF GetTWAP
  <2>3. WithinTwap(Price)
    BY <2>2 DEF WithinTwap
  <2>4. Len(priceFeeds) >= MIN_ORACLES
    <3>1. Count(ValidPrices) >= MIN_ORACLES /\ Count(ValidPrices) <= Len(priceFeeds)
      BY <1>1, <2>1, ValidPricesTyped DEF FeedsAgree
    <3>2. Count(ValidPrices) \in Nat /\ Len(priceFeeds) \in Nat /\ MIN_ORACLES \in Nat
      BY <1>1, ValidPricesTyped, FS_CardinalityType, OracleConstants, SMTT(60)
      DEF TypeOK, IsPrices, Count
    <3>3. QED
      BY <3>1, <3>2
  <2>5. QED
    BY <2>1, <2>3, <2>4 DEF FeedsAgree, PriceAnswers
<1>2. QED
  BY <1>1, OracleTypes, PTL

-----------------------------------------------------------------------------
(* A weighted average lies among what it averages. *)
LEMMA AverageAmong ==
  ASSUME NEW S, IsFiniteSet(S), NEW w \in [S -> Nat], NEW p \in [S -> Nat],
         NEW v \in [S -> Nat], \A i \in S : v[i] = p[i] * w[i],
         SumFunction(w) > 0, NEW c \in Nat, SumFunction(v) \div SumFunction(w) = c
  PROVE  /\ \E i \in S : p[i] >= c
         /\ \E i \in S : p[i] <= c
<1> DEFINE W == SumFunction(w)
           V == SumFunction(v)
<1>1. /\ w \in [S -> Int] /\ v \in [S -> Int] /\ W \in Nat \ {0} /\ V \in Nat
  BY SumOfMapping
<1>2. c * W <= V /\ V < c * W + W
  <2> HIDE DEF W, V
  <2>1. V \div W = c
    BY DEF W, V
  <2>2. (V \div W) * W <= V /\ V < (V \div W) * W + W
    BY <1>1, DivBounds
  <2>3. QED
    BY <2>1, <2>2
<1>3. ASSUME \A i \in S : ~(p[i] >= c) PROVE FALSE
  <2> DEFINE h == [i \in S |-> (c - 1) * w[i]]
  <2>1. ASSUME NEW a \in Nat, NEW b \in Nat, ~(a >= c)
        PROVE  a * b <= (c - 1) * b
    <3>1. a <= c - 1 /\ c - 1 \in Nat
      BY <2>1
    <3>2. QED
      BY <3>1, MulMonotone
  <2>2. c - 1 \in Int /\ h \in [S -> Int] /\ \A i \in S : h[i] = (c - 1) * w[i]
    OBVIOUS
  <2>3. \A i \in S : v[i] <= h[i]
    BY <1>3, <2>1
  <2> HIDE DEF h
  <2>4. SumFunction(h) = (c - 1) * W
    BY <1>1, <2>2, SumScales
  <2>5. V <= (c - 1) * W
    BY <1>1, <2>2, <2>3, <2>4, SumMonotone
  <2> HIDE DEF W, V
  <2>6. (c - 1) * W = c * W - W
    BY <1>1
  <2>7. QED
    BY <1>1, <1>2, <2>5, <2>6
<1>4. ASSUME \A i \in S : ~(p[i] <= c) PROVE FALSE
  <2> DEFINE h == [i \in S |-> (c + 1) * w[i]]
  <2>1. ASSUME NEW a \in Nat, NEW b \in Nat, ~(a <= c)
        PROVE  (c + 1) * b <= a * b
    <3>1. c + 1 <= a /\ c + 1 \in Nat
      BY <2>1
    <3>2. QED
      BY <3>1, MulMonotone
  <2>2. c + 1 \in Int /\ h \in [S -> Int] /\ \A i \in S : h[i] = (c + 1) * w[i]
    OBVIOUS
  <2>3. \A i \in S : h[i] <= v[i]
    BY <1>4, <2>1
  <2> HIDE DEF h
  <2>4. SumFunction(h) = (c + 1) * W
    BY <1>1, <2>2, SumScales
  <2>5. (c + 1) * W <= V
    BY <1>1, <2>2, <2>3, <2>4, SumMonotone
  <2> HIDE DEF W, V
  <2>6. (c + 1) * W = c * W + W
    BY <1>1
  <2>7. QED
    BY <1>1, <1>2, <2>5, <2>6
<1>5. QED
  BY <1>3, <1>4

LEMMA TwapAmong ==
  ASSUME OracleInv, TotalWeight > 0
  PROVE  /\ GetTWAP \in Nat \ {0}
         /\ \E i \in Window : priceHistory[i].price >= GetTWAP
         /\ \E i \in Window : priceHistory[i].price <= GetTWAP
<1> DEFINE w == [i \in Window |-> Weight(i)]
           p == [i \in Window |-> priceHistory[i].price]
           v == [i \in Window |-> priceHistory[i].price * Weight(i)]
<1>1. /\ IsFiniteSet(Window) /\ TotalWeight \in Nat
      /\ \A i \in Window : Weight(i) \in Nat /\ i \in DOMAIN priceHistory
  BY WeightsTyped DEF OracleInv
<1>2. \A i \in Window : priceHistory[i].price \in Nat /\ priceHistory[i].price > 0
  BY <1>1, PointsTyped
<1>3. w \in [Window -> Nat] /\ p \in [Window -> Nat]
  BY <1>1, <1>2
<1>4. ASSUME NEW a \in Nat, NEW b \in Nat PROVE a * b \in Nat
  OBVIOUS
<1>5. v \in [Window -> Nat] /\ \A i \in Window : v[i] = p[i] * w[i]
  BY <1>1, <1>2, <1>4
<1>6. SumFunction(w) = TotalWeight /\ SumFunction(v) = WeightedSum
  BY DEF TotalWeight, WeightedSum
<1> HIDE DEF w, p, v
<1>7. SumFunction(v) \in Nat /\ w \in [Window -> Int] /\ v \in [Window -> Int]
  <2>1. v \in [Window -> Int] /\ w \in [Window -> Int]
    BY <1>3, <1>5
  <2>2. QED
    BY <1>1, <1>5, <2>1, SumOfMapping
<1>8. GetTWAP = SumFunction(v) \div SumFunction(w) /\ GetTWAP \in Nat
  <2>1. SumFunction(w) \in Nat \ {0}
    BY <1>1, <1>6
  <2>2. SumFunction(v) \div SumFunction(w) \in Nat
    BY <1>7, <2>1, DivBounds
  <2>3. QED
    BY <1>1, <1>6, <2>2 DEF GetTWAP
<1>9. (\E i \in Window : p[i] >= GetTWAP) /\ (\E i \in Window : p[i] <= GetTWAP)
  BY <1>1, <1>3, <1>5, <1>6, <1>8, AverageAmong
<1>10. GetTWAP # 0
  BY <1>2, <1>9 DEF p
<1>11. QED
  BY <1>8, <1>9, <1>10 DEF p

(* A deviation that rounds down to d basis points is less than d + 1.      *)
LEMMA DeviationBounds ==
  ASSUME NEW p \in Nat \ {0}, NEW q \in Nat \ {0}, NEW d \in Nat,
         CalculateDeviation(p, q) <= d
  PROVE  /\ p * BasisPoints < q * (BasisPoints + (d + 1))
         /\ p * BasisPoints > q * (BasisPoints - (d + 1))
<1> DEFINE gap == IF p > q THEN p - q ELSE q - p
<1>1. gap \in Nat /\ BasisPoints \in Nat \ {0} /\ q # 0
  BY OracleConstants
<1>2. CalculateDeviation(p, q) = (gap * BasisPoints) \div q
  BY DEF CalculateDeviation
<1>3. p - q <= gap /\ q - p <= gap
  OBVIOUS
<1> HIDE DEF gap
<1> DEFINE x == gap * BasisPoints
<1>4. x \in Nat
  BY <1>1
<1>5. x < (x \div q) * q + q /\ x \div q \in Nat
  <2> HIDE DEF x
  <2> QED
    BY <1>4, DivBounds
<1>6. (x \div q) * q <= d * q
  <2>1. x \div q <= d
    BY <1>2
  <2> HIDE DEF x
  <2>2. QED
    BY <1>5, <2>1, MulMonotone
<1>7. x < d * q + q
  <2> HIDE DEF x
  <2>1. ASSUME NEW a \in Nat, NEW b \in Nat, NEW c \in Nat, a < b + q, b <= c PROVE a < c + q
    BY <2>1
  <2>2. (x \div q) * q \in Nat /\ d * q \in Nat
    BY <1>5
  <2>3. QED
    BY <1>4, <1>5, <1>6, <2>1, <2>2
<1>8. (p - q) * BasisPoints <= x /\ (q - p) * BasisPoints <= x
  <2>1. ASSUME NEW a \in Int, NEW b \in Nat, NEW c \in Nat, a <= b PROVE a * c <= b * c
    BY <2>1
  <2>2. QED
    BY <1>1, <1>3, <2>1
<1> HIDE DEF x
<1>9. /\ (p - q) * BasisPoints = p * BasisPoints - q * BasisPoints
      /\ (q - p) * BasisPoints = q * BasisPoints - p * BasisPoints
      /\ q * (BasisPoints + (d + 1)) = q * BasisPoints + d * q + q
      /\ q * (BasisPoints - (d + 1)) = q * BasisPoints - d * q - q
  BY <1>1
<1> DEFINE pb == p * BasisPoints
           qb == q * BasisPoints
           dq == d * q
<1>10. pb \in Nat /\ qb \in Nat /\ dq \in Nat
  BY <1>1
<1> HIDE DEF pb, qb, dq
<1>11. pb - qb < dq + q /\ qb - pb < dq + q
  BY <1>4, <1>7, <1>8, <1>9, <1>10 DEF pb, qb, dq
<1>12. pb < qb + dq + q /\ pb > qb - dq - q
  BY <1>10, <1>11
<1>13. QED
  BY <1>9, <1>12 DEF pb, qb, dq

(* No jumps: a price that is recorded while the window still weighs        *)
(* something lies less than Reach above the window's highest price and     *)
(* less than Reach below its lowest, whatever the feeds answered since     *)
(* (getAssetPrice, getTWAP).                                               *)
THEOREM PricesDoNotJump == Spec => NoJumps
<1> DEFINE Near(price) ==
      /\ \E i \in Window : price * BasisPoints < priceHistory[i].price * (BasisPoints + Reach)
      /\ \E i \in Window : price * BasisPoints > priceHistory[i].price * (BasisPoints - Reach)
<1>1. ASSUME OracleInv, TotalWeight > 0, PriceAnswers PROVE Near(Price)
  <2>1. Price \in Nat \ {0}
    BY <1>1, PriceIsPositive DEF OracleInv, PriceAnswers
  <2>2. /\ GetTWAP \in Nat \ {0} /\ BasisPoints \in Nat \ {0} /\ MAX_PRICE_DEVIATION * 2 \in Nat
        /\ Reach \in Nat /\ Reach = MAX_PRICE_DEVIATION * 2 + 1
    BY <1>1, TwapAmong, OracleConstants DEF Reach
  <2>3. CalculateDeviation(Price, GetTWAP) <= MAX_PRICE_DEVIATION * 2
    BY <1>1, <2>2 DEF PriceAnswers, WithinTwap
  <2>4. /\ Price * BasisPoints < GetTWAP * (BasisPoints + Reach)
        /\ Price * BasisPoints > GetTWAP * (BasisPoints - Reach)
    BY <2>1, <2>2, <2>3, DeviationBounds
  <2>5. \A i \in Window : priceHistory[i].price \in Nat /\ priceHistory[i].price > 0
    BY <1>1, WeightsTyped, PointsTyped DEF OracleInv
  <2>6. PICK i \in Window : priceHistory[i].price >= GetTWAP
    BY <1>1, TwapAmong
  <2>7. PICK j \in Window : priceHistory[j].price <= GetTWAP
    BY <1>1, TwapAmong
  <2>8. Price * BasisPoints < priceHistory[i].price * (BasisPoints + Reach)
    <3>1. ASSUME NEW x \in Nat, NEW a \in Nat, NEW b \in Nat, NEW c \in Nat, x < a * c, a <= b
          PROVE  x < b * c
      <4>1. a * c <= b * c /\ a * c \in Nat /\ b * c \in Nat
        BY <3>1, MulMonotone
      <4>2. QED
        BY <3>1, <4>1
    <3>2. Price * BasisPoints \in Nat /\ BasisPoints + Reach \in Nat
      BY <2>1, <2>2
    <3>3. QED
      BY <2>2, <2>4, <2>5, <2>6, <3>1, <3>2
  <2>9. Price * BasisPoints > priceHistory[j].price * (BasisPoints - Reach)
    <3>1. ASSUME NEW x \in Nat \ {0}, NEW a \in Nat, NEW b \in Nat, NEW c \in Int, x > b * c, a <= b
          PROVE  x > a * c
      <4>1. CASE c \in Nat
        <5>1. a * c <= b * c /\ a * c \in Nat /\ b * c \in Nat
          BY <3>1, <4>1, MulMonotone
        <5>2. QED
          BY <3>1, <5>1
      <4>2. CASE c < 0
        <5>1. a * c <= 0 /\ a * c \in Int
          BY <4>2
        <5>2. QED
          BY <3>1, <5>1
      <4>3. QED
        BY <4>1, <4>2
    <3>2. Price * BasisPoints \in Nat \ {0} /\ BasisPoints - Reach \in Int
      BY <2>1, <2>2
    <3>3. QED
      BY <2>2, <2>4, <2>5, <2>7, <3>1, <3>2
  <2>10. QED
    BY <2>8, <2>9
<1>2. ASSUME OracleInv, [Next]_vars, TotalWeight > 0
      PROVE  \A new \in NewPoints : Near(new.price)
  <2>1. CASE priceHistory' = priceHistory
    BY <2>1 DEF NewPoints
  <2>2. ASSUME GetAssetPrice PROVE \A new \in NewPoints : Near(new.price)
    <3> DEFINE point == [price |-> Price, timestamp |-> now]
    <3>1. Near(Price)
      BY <1>1, <1>2, <2>2 DEF GetAssetPrice
    <3>2. \/ priceHistory' = Append(priceHistory, point)
          \/ priceHistory' = [priceHistory EXCEPT ![historyIndex + 1] = point]
      BY <2>2 DEF GetAssetPrice, UpdatePriceHistory, PushPoint
    <3>3. priceHistory \in Seq(Points)
      BY <1>2 DEF OracleInv, TypeOK, Points
    <3>4. point.price = Price
      OBVIOUS
    <3> HIDE DEF point, Near
    <3>5. \A i \in DOMAIN priceHistory' :
             \/ i \in DOMAIN priceHistory /\ priceHistory'[i] = priceHistory[i]
             \/ priceHistory'[i] = point
      BY <3>2, <3>3
    <3>6. \A new \in NewPoints : new = point
      BY <3>5 DEF NewPoints
    <3>7. QED
      BY <3>1, <3>4, <3>6
  <2>3. priceHistory' = priceHistory \/ GetAssetPrice
    BY <1>2 DEF Next, vars, AddPriceFeed, RemovePriceFeed, FeedAnswers, Tick
  <2>4. QED
    BY <2>1, <2>2, <2>3
<1>3. OracleInv /\ [Next]_vars
        => [TotalWeight > 0 =>
             \A new \in NewPoints :
               /\ \E i \in Window :
                    new.price * BasisPoints < priceHistory[i].price * (BasisPoints + Reach)
               /\ \E i \in Window :
                    new.price * BasisPoints > priceHistory[i].price * (BasisPoints - Reach)]_vars
  BY <1>2
<1>4. QED
  BY <1>3, OracleInvHolds, PTL DEF Spec, NoJumps
=============================================================================
