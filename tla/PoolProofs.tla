----------------------------- MODULE PoolProofs -----------------------------
(***************************************************************************)
(* Proofs about the lending pool on top of its vault and its registry: two *)
(* indexes that only grow, positions and deposits that were written at an  *)
(* index between one and the stored one, pledges that are held, lenders    *)
(* that are backed, and debts that move with the tokens.                   *)
(***************************************************************************)
EXTENDS LendingPool, Arithmetic

LEMMA Constants ==
  /\ ONE \in Nat \ {0} /\ BpsYear \in Nat \ {0} /\ Bps \in Nat \ {0} /\ ValueScale \in Nat \ {0}
  /\ Amounts \subseteq Nat /\ RateChoices \subseteq Nat /\ MinimumChoices \subseteq Nat
  /\ CollateralAmounts \subseteq Nat /\ Prices \subseteq Nat /\ AssetPrices \subseteq Nat
  /\ PoolAddr \in Accounts /\ VaultAddr \notin Accounts \cup Borrowers
  /\ RegistryAddr \notin Borrowers \cup {PoolAddr} /\ PoolAddr \notin Borrowers
  /\ InitialCollateral \in Nat /\ DeployRateBps \in Nat /\ DeployMinimum \in Nat
  /\ BaseBorrowRate \in Nat /\ OptimalUtilization \in Nat /\ Slope1 \in Nat /\ Slope2 \in Nat
  /\ LIQUIDATION_BONUS \in Nat /\ LIQUIDATION_THRESHOLD \in Nat
  BY PoolConstants

-----------------------------------------------------------------------------
(* The vault below the pool.                                               *)
VaultInv == V!TypeOK /\ V!IndexDiscipline

LEMMA VaultIndexGrows ==
  ASSUME VaultInv
  PROVE  /\ V!CurrentIndex \in Nat \ {0}
         /\ globalIndex <= V!CurrentIndex
         /\ ONE <= V!CurrentIndex
<1>1. ONE \in Nat \ {0} /\ globalIndex \in Nat /\ ONE <= globalIndex
  BY Constants DEF VaultInv, V!TypeOK, V!IndexDiscipline
<1>2. interestRatePerSecond * (now - lastUpdateTimestamp) \in Nat
  BY DEF VaultInv, V!TypeOK, V!IndexDiscipline
<1>3. V!InterestFactor \in Nat /\ ONE <= V!InterestFactor
  BY <1>1, <1>2 DEF V!InterestFactor
<1>4. /\ (globalIndex * V!InterestFactor) \div ONE \in Nat
      /\ globalIndex <= (globalIndex * V!InterestFactor) \div ONE
  BY <1>1, <1>3, ScaleUp
<1>5. QED
  BY <1>1, <1>4 DEF V!CurrentIndex

(* A balance covers its principal, and equals it while the index stands.   *)
LEMMA BalanceCovers ==
  ASSUME VaultInv, NEW u \in Accounts
  PROVE  /\ V!BalanceOf(u) \in Nat /\ deposits[u].principal \in Nat
         /\ deposits[u].principal <= V!BalanceOf(u)
         /\ V!CurrentIndex = ONE => V!BalanceOf(u) = deposits[u].principal
<1> DEFINE p == deposits[u].principal
           i == deposits[u].userIndex
<1>1. p \in Nat /\ i \in Nat
  BY DEF VaultInv, V!TypeOK
<1>2. CASE p = 0
  BY <1>1, <1>2 DEF V!BalanceOf
<1>3. CASE p > 0
  <2>1. ONE \in Nat \ {0} /\ ONE <= i /\ i <= globalIndex /\ globalIndex \in Nat
    BY <1>3, Constants DEF VaultInv, V!IndexDiscipline, V!TypeOK
  <2>2. i \in Nat \ {0} /\ i <= V!CurrentIndex /\ V!CurrentIndex \in Nat
    BY <1>1, <2>1, VaultIndexGrows
  <2>3. V!BalanceOf(u) = (p * V!CurrentIndex) \div i
    BY <1>3 DEF V!BalanceOf, V!CalculateBalance
  <2>4. (p * V!CurrentIndex) \div i \in Nat /\ p <= (p * V!CurrentIndex) \div i
    BY <1>1, <2>2, ScaleUp
  <2>5. V!CurrentIndex = ONE => (p * V!CurrentIndex) \div i = p
    <3>1. SUFFICES ASSUME V!CurrentIndex = ONE PROVE (p * ONE) \div i = p
      OBVIOUS
    <3>2. i = ONE
      BY <2>1, <2>2, <3>1
    <3>3. QED
      BY <1>1, <2>1, <3>2, DivExact
  <2>6. QED
    BY <1>1, <2>3, <2>4, <2>5
<1>4. QED
  BY <1>1, <1>2, <1>3

LEMMA RateIsNat == ASSUME NEW bps \in Nat PROVE V!RatePerSecond(bps) \in Nat
  BY Constants, DivBounds, MulMonotone DEF V!RatePerSecond

LEMMA TransferKeepsTypes ==
  ASSUME tokens \in [V!Holders -> Nat], NEW from \in V!Holders, NEW to \in V!Holders,
         NEW amount \in Nat, V!Transfer(from, to, amount)
  PROVE  tokens' \in [V!Holders -> Nat]
  BY DEF V!Transfer

(* Transactions that leave the vault's own books alone.                    *)
LEMMA TokensMove ==
  ASSUME VaultInv, tokens' \in [V!Holders -> Nat], UNCHANGED <<now, vaultVars>>
  PROVE  VaultInv'
  BY DEF VaultInv, V!TypeOK, V!IndexDiscipline, vaultVars, V!Holders

(* Transactions that store the index and write one record at it.           *)
LEMMA RecordWritten ==
  ASSUME VaultInv, V!UpdateGlobalIndex, now' = now,
         NEW u \in Accounts, NEW r \in [principal : Nat, userIndex : Nat],
         deposits' = [deposits EXCEPT ![u] = r],
         r.principal > 0 => r.userIndex = V!CurrentIndex,
         totalPrincipal' \in Nat, tokens' \in [V!Holders -> Nat],
         UNCHANGED <<interestRatePerSecond, minDepositAmount, lendingPool>>
  PROVE  VaultInv'
<1>1. /\ V!CurrentIndex \in Nat \ {0} /\ globalIndex <= V!CurrentIndex
      /\ ONE <= V!CurrentIndex /\ ONE \in Nat
  BY VaultIndexGrows, Constants
<1>2. /\ deposits \in [Accounts -> [principal : Nat, userIndex : Nat]]
      /\ globalIndex \in Nat /\ now \in Nat
      /\ \A v \in Accounts : deposits[v].principal > 0 =>
           ONE <= deposits[v].userIndex /\ deposits[v].userIndex <= globalIndex
  BY DEF VaultInv, V!TypeOK, V!IndexDiscipline
<1>3. globalIndex' = V!CurrentIndex /\ lastUpdateTimestamp' = now
  BY DEF V!UpdateGlobalIndex
<1>4. deposits' \in [Accounts -> [principal : Nat, userIndex : Nat]]
  BY <1>2
<1>5. ASSUME NEW v \in Accounts, deposits'[v].principal > 0
      PROVE  ONE <= deposits'[v].userIndex /\ deposits'[v].userIndex <= globalIndex'
  <2>1. CASE v = u
    BY <1>1, <1>2, <1>3, <1>5, <2>1
  <2>2. CASE v # u
    <3>1. deposits'[v] = deposits[v] /\ deposits[v].userIndex \in Nat
      BY <1>2, <2>2
    <3>2. QED
      BY <1>1, <1>2, <1>3, <1>5, <3>1
  <2>3. QED
    BY <2>1, <2>2
<1>6. QED
  BY <1>1, <1>2, <1>3, <1>4, <1>5 DEF VaultInv, V!TypeOK, V!IndexDiscipline, V!Holders

LEMMA DepositKeepsVault ==
  ASSUME VaultInv, NEW caller \in Accounts, NEW payer \in Accounts \cup Borrowers,
         NEW amount \in Nat, V!DepositFrom(caller, payer, amount)
  PROVE  VaultInv'
<1> DEFINE r == [principal |-> V!BalanceOf(caller) + amount, userIndex |-> V!CurrentIndex]
<1>1. V!BalanceOf(caller) \in Nat /\ V!CurrentIndex \in Nat /\ totalPrincipal \in Nat
  BY BalanceCovers, VaultIndexGrows DEF VaultInv, V!TypeOK
<1>2. /\ V!UpdateGlobalIndex /\ now' = now /\ totalPrincipal' \in Nat
      /\ r \in [principal : Nat, userIndex : Nat]
      /\ deposits' = [deposits EXCEPT ![caller] = r]
      /\ r.principal > 0 => r.userIndex = V!CurrentIndex
      /\ UNCHANGED <<interestRatePerSecond, minDepositAmount, lendingPool>>
  BY <1>1 DEF V!DepositFrom
<1>3. tokens' \in [V!Holders -> Nat]
  BY TransferKeepsTypes DEF VaultInv, V!TypeOK, V!DepositFrom, V!Holders
<1> HIDE DEF r
<1>4. QED
  BY <1>2, <1>3, RecordWritten

LEMMA WithdrawKeepsVault ==
  ASSUME VaultInv, NEW u \in Accounts, NEW amount \in Nat, V!Withdraw(u, amount)
  PROVE  VaultInv'
<1>1. /\ V!BalanceOf(u) \in Nat /\ V!CurrentIndex \in Nat
      /\ deposits[u].principal \in Nat /\ totalPrincipal \in Nat
  BY BalanceCovers, VaultIndexGrows DEF VaultInv, V!TypeOK
<1>2. /\ V!UpdateGlobalIndex /\ now' = now
      /\ UNCHANGED <<interestRatePerSecond, minDepositAmount, lendingPool>>
  BY DEF V!Withdraw
<1>3. tokens' \in [V!Holders -> Nat]
  BY TransferKeepsTypes DEF VaultInv, V!TypeOK, V!Withdraw, V!Holders
<1>4. CASE V!WithdrawAll(u)
  <2>1. /\ V!NoDeposit \in [principal : Nat, userIndex : Nat]
        /\ deposits' = [deposits EXCEPT ![u] = V!NoDeposit]
        /\ V!NoDeposit.principal > 0 => V!NoDeposit.userIndex = V!CurrentIndex
        /\ totalPrincipal' \in Nat
    BY <1>1, <1>4 DEF V!WithdrawAll, V!NoDeposit
  <2>2. QED
    BY <1>2, <1>3, <2>1, RecordWritten
<1>5. CASE amount < V!BalanceOf(u) /\ V!WithdrawPart(u, amount, V!BalanceOf(u))
  <2> DEFINE r == [principal |-> V!BalanceOf(u) - amount, userIndex |-> V!CurrentIndex]
  <2>1. /\ r \in [principal : Nat, userIndex : Nat]
        /\ deposits' = [deposits EXCEPT ![u] = r]
        /\ r.principal > 0 => r.userIndex = V!CurrentIndex
    BY <1>1, <1>5 DEF V!WithdrawPart
  <2>2. amount * deposits[u].principal \in Nat /\ V!BalanceOf(u) \in Nat \ {0}
    BY <1>1, <1>5
  <2>3. V!PrincipalWithdrawn(u, amount, V!BalanceOf(u)) \in Nat
    BY <2>2, DivBounds DEF V!PrincipalWithdrawn
  <2>4. totalPrincipal' \in Nat
    BY <1>1, <1>5, <2>3 DEF V!WithdrawPart
  <2> HIDE DEF r
  <2>5. QED
    BY <1>2, <1>3, <2>1, <2>4, RecordWritten
<1>6. QED
  BY <1>4, <1>5 DEF V!Withdraw

LEMMA RateKeepsVault ==
  ASSUME VaultInv, NEW bps \in Nat, V!UpdateInterestRate(bps)
  PROVE  VaultInv'
<1>1. /\ V!CurrentIndex \in Nat /\ globalIndex <= V!CurrentIndex /\ ONE <= V!CurrentIndex
      /\ ONE \in Nat /\ V!RatePerSecond(bps) \in Nat
  BY VaultIndexGrows, Constants, RateIsNat
<1>2. V!TypeOK'
  BY <1>1 DEF VaultInv, V!TypeOK, V!UpdateInterestRate, V!UpdateGlobalIndex, V!Holders
<1>3. ASSUME NEW v \in Accounts, deposits[v].principal > 0
      PROVE  ONE <= deposits[v].userIndex /\ deposits[v].userIndex <= V!CurrentIndex
  BY <1>1, <1>3 DEF VaultInv, V!TypeOK, V!IndexDiscipline
<1>4. V!IndexDiscipline'
  BY <1>1, <1>3 DEF VaultInv, V!TypeOK, V!IndexDiscipline, V!UpdateInterestRate, V!UpdateGlobalIndex
<1>5. QED
  BY <1>2, <1>4 DEF VaultInv

(* Everything the rest of the system may do to the vault.                  *)
LEMMA VaultStepKeepsVault ==
  ASSUME VaultInv, VaultStep
  PROVE  VaultInv' /\ now \in Nat /\ now' \in Nat /\ now <= now'
<1>1. ASSUME NEW u \in Accounts \ {PoolAddr}, NEW amount \in Amounts, V!Deposit(u, amount)
      PROVE  VaultInv' /\ now' = now
  BY <1>1, Constants, DepositKeepsVault DEF V!Deposit, V!DepositFrom
<1>2. ASSUME NEW u \in Accounts \ {PoolAddr}, NEW amount \in Amounts, V!Withdraw(u, amount)
      PROVE  VaultInv' /\ now' = now
  BY <1>2, Constants, WithdrawKeepsVault DEF V!Withdraw
<1>3. ASSUME NEW bps \in RateChoices, V!UpdateInterestRate(bps)
      PROVE  VaultInv' /\ now' = now
  BY <1>3, Constants, RateKeepsVault DEF V!UpdateInterestRate
<1>4. ASSUME NEW minimum \in MinimumChoices, V!UpdateMinDepositAmount(minimum)
      PROVE  VaultInv' /\ now' = now
  BY <1>4, Constants
  DEF VaultInv, V!TypeOK, V!IndexDiscipline, V!UpdateMinDepositAmount, V!Holders
<1>5. ASSUME NEW pool \in PoolChoices, V!SetLendingPool(pool)
      PROVE  VaultInv' /\ now' = now
  BY <1>5 DEF VaultInv, V!TypeOK, V!IndexDiscipline, V!SetLendingPool, V!Holders
<1>6. ASSUME V!Tick PROVE VaultInv' /\ now' = now + 1
  BY <1>6 DEF VaultInv, V!TypeOK, V!IndexDiscipline, V!Tick, V!vaultVars, V!Holders
<1>7. now \in Nat
  BY DEF VaultInv, V!TypeOK
<1>8. QED
  BY <1>1, <1>2, <1>3, <1>4, <1>5, <1>6, <1>7 DEF VaultStep

-----------------------------------------------------------------------------
(* The pool's own index.                                                   *)
PoolTypeOK ==
  /\ globalBorrowIndex \in Nat /\ lastBorrowUpdateTimestamp \in Nat /\ totalBorrowed \in Nat
  /\ borrowPositions \in [Borrowers -> [principal : Nat, borrowIndex : Nat]]

PoolBooks == PoolTypeOK /\ BorrowIndexDiscipline

LEMMA TotalAssetsIsNat == ASSUME VaultInv PROVE V!TotalAssets \in Nat
<1>1. totalPrincipal * V!CurrentIndex \in Nat
  BY VaultIndexGrows, MulMonotone DEF VaultInv, V!TypeOK
<1>2. QED
  BY <1>1, Constants, DivBounds DEF V!TotalAssets

LEMMA BorrowIndexGrows ==
  ASSUME VaultInv, PoolBooks
  PROVE  /\ CurrentBorrowIndex \in Nat \ {0}
         /\ globalBorrowIndex <= CurrentBorrowIndex
         /\ ONE <= CurrentBorrowIndex
<1>1. /\ ONE \in Nat \ {0} /\ Bps \in Nat \ {0} /\ globalBorrowIndex \in Nat
      /\ ONE <= globalBorrowIndex /\ totalBorrowed \in Nat
      /\ now - lastBorrowUpdateTimestamp \in Nat
  BY Constants DEF VaultInv, V!TypeOK, PoolBooks, PoolTypeOK, BorrowIndexDiscipline
<1>2. Utilization \in Nat
  <2>1. CASE V!TotalAssets = 0
    BY <2>1 DEF Utilization
  <2>2. CASE V!TotalAssets # 0
    <3>1. totalBorrowed * Bps \in Nat /\ V!TotalAssets \in Nat \ {0}
      BY <1>1, <2>2, TotalAssetsIsNat, MulMonotone
    <3>2. QED
      BY <2>2, <3>1, DivBounds DEF Utilization
  <2>3. QED
    BY <2>1, <2>2
<1>3. ASSUME NEW n \in Nat PROVE CalculateBorrowRate(n) \in Nat
  <2>1. /\ BaseBorrowRate \in Nat /\ OptimalUtilization \in Nat
        /\ (n * Slope1) \div Bps \in Nat
        /\ (OptimalUtilization * Slope1) \div Bps \in Nat
    BY <1>1, Constants, MulMonotone, DivBounds
  <2>2. CASE n <= OptimalUtilization
    BY <2>1, <2>2 DEF CalculateBorrowRate
  <2>3. CASE ~(n <= OptimalUtilization)
    <3>1. n - OptimalUtilization \in Nat
      BY <2>1, <2>3
    <3>2. ((n - OptimalUtilization) * Slope2) \div Bps \in Nat
      BY <1>1, <3>1, Constants, MulMonotone, DivBounds
    <3>3. QED
      BY <2>1, <2>3, <3>2 DEF CalculateBorrowRate
  <2>4. QED
    BY <2>2, <2>3
<1>4. V!RatePerSecond(CalculateBorrowRate(Utilization)) \in Nat
  BY <1>2, <1>3, RateIsNat
<1>5. BorrowFactor \in Nat /\ ONE <= BorrowFactor
  <2>1. ASSUME NEW r \in Nat, NEW d \in Nat PROVE ONE + r * d \in Nat /\ ONE <= ONE + r * d
    BY <1>1
  <2>2. QED
    BY <1>1, <1>4, <2>1 DEF BorrowFactor
<1>6. /\ (globalBorrowIndex * BorrowFactor) \div ONE \in Nat
      /\ globalBorrowIndex <= (globalBorrowIndex * BorrowFactor) \div ONE
  BY <1>1, <1>5, ScaleUp
<1>7. QED
  BY <1>1, <1>6 DEF CurrentBorrowIndex

LEMMA DebtIsNat ==
  ASSUME VaultInv, PoolBooks, NEW u \in Borrowers
  PROVE  DebtAt(u, CurrentBorrowIndex) \in Nat
<1>1. CASE borrowPositions[u].principal = 0
  BY <1>1 DEF DebtAt
<1>2. CASE borrowPositions[u].principal # 0
  <2>1. /\ borrowPositions[u].principal \in Nat /\ borrowPositions[u].borrowIndex \in Nat \ {0}
        /\ CurrentBorrowIndex \in Nat
    BY <1>2, Constants, BorrowIndexGrows DEF PoolBooks, PoolTypeOK, BorrowIndexDiscipline
  <2>2. borrowPositions[u].principal * CurrentBorrowIndex \in Nat
    BY <2>1, MulMonotone
  <2>3. QED
    BY <1>2, <2>1, <2>2, DivBounds DEF DebtAt, CalculateDebt
<1>3. QED
  BY <1>1, <1>2

(* A transaction that stores the index and writes one position at it: the  *)
(* books stay in order, the position's owner owes exactly what was         *)
(* written, and no one else's position is touched.                         *)
LEMMA PositionWritten ==
  ASSUME VaultInv, PoolBooks, UpdateBorrowIndex, now' = now,
         NEW u \in Borrowers, NEW debt \in Nat, WritePosition(u, debt),
         totalBorrowed' \in Nat
  PROVE  /\ PoolBooks'
         /\ Owed(u)' = debt
         /\ \A v \in Borrowers : v # u => borrowPositions'[v] = borrowPositions[v]
<1> DEFINE i == CurrentBorrowIndex
           r == IF debt = 0 THEN NoPosition ELSE [principal |-> debt, borrowIndex |-> i]
<1>1. i \in Nat \ {0} /\ globalBorrowIndex <= i /\ ONE <= i /\ ONE \in Nat
  BY BorrowIndexGrows, Constants
<1>2. /\ borrowPositions \in [Borrowers -> [principal : Nat, borrowIndex : Nat]]
      /\ globalBorrowIndex \in Nat /\ now \in Nat
      /\ \A v \in Borrowers : borrowPositions[v].principal > 0 =>
           ONE <= borrowPositions[v].borrowIndex /\ borrowPositions[v].borrowIndex <= globalBorrowIndex
  BY DEF VaultInv, V!TypeOK, PoolBooks, PoolTypeOK, BorrowIndexDiscipline
<1>3. globalBorrowIndex' = i /\ lastBorrowUpdateTimestamp' = now
  BY DEF UpdateBorrowIndex
<1>4. borrowPositions' = [borrowPositions EXCEPT ![u] = r]
  BY DEF WritePosition
<1>5. /\ r \in [principal : Nat, borrowIndex : Nat] /\ r.principal = debt
      /\ r.principal > 0 => r.borrowIndex = i
  BY <1>1 DEF NoPosition
<1> HIDE DEF i, r
<1>6. /\ borrowPositions' \in [Borrowers -> [principal : Nat, borrowIndex : Nat]]
      /\ borrowPositions'[u] = r
      /\ \A v \in Borrowers : v # u => borrowPositions'[v] = borrowPositions[v]
  BY <1>2, <1>4, <1>5
<1>7. ASSUME NEW v \in Borrowers, borrowPositions'[v].principal > 0
      PROVE  /\ ONE <= borrowPositions'[v].borrowIndex
             /\ borrowPositions'[v].borrowIndex <= globalBorrowIndex'
  <2>1. CASE v = u
    BY <1>1, <1>3, <1>5, <1>6, <1>7, <2>1
  <2>2. CASE v # u
    <3>1. borrowPositions'[v] = borrowPositions[v] /\ borrowPositions[v].borrowIndex \in Nat
      BY <1>2, <1>6, <2>2
    <3>2. QED
      BY <1>1, <1>2, <1>3, <1>7, <3>1
  <2>3. QED
    BY <2>1, <2>2
<1>8. PoolBooks'
  BY <1>1, <1>2, <1>3, <1>6, <1>7 DEF PoolBooks, PoolTypeOK, BorrowIndexDiscipline
<1>9. Owed(u)' = debt
  <2>1. CASE debt = 0
    BY <1>5, <1>6, <2>1 DEF Owed, DebtAt
  <2>2. CASE debt # 0
    <3>1. (debt * i) \div i = debt
      BY <1>1, DivExact
    <3>2. QED
      BY <1>3, <1>5, <1>6, <2>2, <3>1 DEF Owed, DebtAt, CalculateDebt
  <2>3. QED
    BY <2>1, <2>2
<1>10. QED
  BY <1>6, <1>8, <1>9

-----------------------------------------------------------------------------
(* The registry below the pool, and the tokens it has in its keeping.      *)
LEMMA PushIsList ==
  ASSUME NEW list \in Seq(CollateralTokens), NEW t \in CollateralTokens, NEW held
  PROVE  R!PushToken(list, t, held) \in Seq(CollateralTokens)
  BY DEF R!PushToken

LEMMA RemoveIsList ==
  ASSUME NEW list \in Seq(CollateralTokens), NEW t
  PROVE  R!RemoveToken(list, t) \in Seq(CollateralTokens)
<1>1. CASE \E i \in DOMAIN list : list[i] = t
  <2> DEFINE at == CHOOSE k \in DOMAIN list : R!IsFirst(list, k, t)
             len == Len(list)
  <2>1. len \in Nat /\ len >= 1 /\ \A i \in 1..len : list[i] \in CollateralTokens
    BY <1>1
  <2> HIDE DEF at
  <2>2. \A j \in 1..(len - 1) : (IF j = at THEN list[len] ELSE list[j]) \in CollateralTokens
    BY <2>1
  <2>3. [j \in 1..(len - 1) |-> IF j = at THEN list[len] ELSE list[j]] \in Seq(CollateralTokens)
    BY <2>1, <2>2
  <2>4. QED
    BY <1>1, <2>3 DEF R!RemoveToken, at
<1>2. CASE ~ \E i \in DOMAIN list : list[i] = t
  BY <1>2 DEF R!RemoveToken
<1>3. QED
  BY <1>1, <1>2

LEMMA PledgeBooked ==
  ASSUME R!RegistryTypeOK, NEW u \in Borrowers, NEW t \in CollateralTokens, NEW amount \in Nat,
         R!DepositCollateral(u, t, amount)
  PROVE  /\ R!RegistryTypeOK'
         /\ totalCollateral' = [totalCollateral EXCEPT ![t] = @ + amount]
<1>1. /\ userCollateral \in [Borrowers -> [CollateralTokens -> Nat]]
      /\ userCollateralTokens \in [Borrowers -> Seq(CollateralTokens)]
      /\ totalCollateral \in [CollateralTokens -> Nat]
      /\ collateralConfigs \in [CollateralTokens -> ConfigChoices \cup {R!NoConfig}]
  BY DEF R!RegistryTypeOK
<1> DEFINE list == R!PushToken(userCollateralTokens[u], t, userCollateral[u][t])
<1>2. list \in Seq(CollateralTokens)
  BY <1>1, PushIsList
<1>3. userCollateralTokens' = [userCollateralTokens EXCEPT ![u] = list]
  BY <1>1 DEF R!DepositCollateral
<1> HIDE DEF list
<1>4. userCollateralTokens' \in [Borrowers -> Seq(CollateralTokens)]
  BY <1>1, <1>2, <1>3
<1>5. userCollateral' \in [Borrowers -> [CollateralTokens -> Nat]]
  BY <1>1 DEF R!DepositCollateral
<1>6. totalCollateral' \in [CollateralTokens -> Nat] /\ UNCHANGED collateralConfigs
  BY <1>1 DEF R!DepositCollateral
<1>7. QED
  BY <1>1, <1>4, <1>5, <1>6 DEF R!RegistryTypeOK, R!DepositCollateral, R!NoConfig

LEMMA SeizureBooked ==
  ASSUME R!RegistryTypeOK, NEW u \in Borrowers, NEW t \in CollateralTokens, NEW amount \in Nat,
         R!SeizeCollateral(u, t, amount)
  PROVE  /\ R!RegistryTypeOK'
         /\ \A s \in CollateralTokens : totalCollateral'[s] <= totalCollateral[s]
<1> DEFINE seized == R!SeizedAmount(u, t, amount)
<1>1. /\ userCollateral \in [Borrowers -> [CollateralTokens -> Nat]]
      /\ userCollateralTokens \in [Borrowers -> Seq(CollateralTokens)]
      /\ totalCollateral \in [CollateralTokens -> Nat]
      /\ collateralConfigs \in [CollateralTokens -> ConfigChoices \cup {R!NoConfig}]
  BY DEF R!RegistryTypeOK
<1>2. seized \in Nat /\ userCollateral[u][t] >= seized
  BY <1>1 DEF R!SeizedAmount
<1>3. CASE seized > 0
  <2>1. totalCollateral[t] >= seized /\ R!Release(u, t, seized)
    BY <1>3 DEF R!SeizeCollateral
  <2> HIDE DEF seized
  <2> DEFINE list == IF userCollateral[u][t] = seized
                     THEN R!RemoveToken(userCollateralTokens[u], t) ELSE userCollateralTokens[u]
  <2>2. list \in Seq(CollateralTokens)
    BY <1>1, RemoveIsList
  <2>3. userCollateralTokens' = [userCollateralTokens EXCEPT ![u] = list]
    BY <1>1, <2>1 DEF R!Release
  <2> HIDE DEF list
  <2>4. userCollateralTokens' \in [Borrowers -> Seq(CollateralTokens)]
    BY <1>1, <2>2, <2>3
  <2>5. userCollateral' \in [Borrowers -> [CollateralTokens -> Nat]]
    BY <1>1, <1>2, <2>1 DEF R!Release
  <2>6. /\ totalCollateral' \in [CollateralTokens -> Nat] /\ UNCHANGED collateralConfigs
        /\ \A s \in CollateralTokens : totalCollateral'[s] <= totalCollateral[s]
    BY <1>1, <1>2, <2>1 DEF R!Release
  <2>7. QED
    BY <1>1, <2>4, <2>5, <2>6 DEF R!RegistryTypeOK, R!NoConfig
<1>4. CASE ~(seized > 0)
  <2>1. UNCHANGED registryVars
    BY <1>4 DEF R!SeizeCollateral, R!registryVars, registryVars
  <2>2. QED
    BY <1>1, <2>1 DEF R!RegistryTypeOK, registryVars, R!NoConfig
<1>5. QED
  BY <1>3, <1>4

(* Collateral tokens are conserved by a move, and the registry's address   *)
(* keeps what it has unless it is a party to it.                           *)
HoldingsOK == collateralHeld \in [CollateralTokens -> [CollateralHolders -> Nat]]

LEMMA CollateralMoves ==
  ASSUME HoldingsOK, NEW t \in CollateralTokens, NEW from \in CollateralHolders,
         NEW to \in CollateralHolders, from # to, NEW amount \in Nat,
         MoveCollateral(t, from, to, amount)
  PROVE  /\ HoldingsOK'
         /\ collateralHeld'[t][to] = collateralHeld[t][to] + amount
         /\ \A s \in CollateralTokens, h \in CollateralHolders :
              (s # t \/ h \notin {from, to}) => collateralHeld'[s][h] = collateralHeld[s][h]
  BY DEF HoldingsOK, MoveCollateral

-----------------------------------------------------------------------------
(* The inductive invariant.  The two properties about holdings need the    *)
(* types and both index disciplines: the amounts they relate are quotients *)
(* by indexes of deposits and positions.                                   *)
PricesOK == price \in [CollateralTokens -> Prices] /\ assetPrice \in AssetPrices

PoolInv ==
  /\ VaultInv /\ PoolBooks /\ R!RegistryTypeOK /\ HoldingsOK /\ PricesOK
  /\ PledgesAreHeld /\ LendersAreBacked

LEMMA InitEstablishesPoolInv == Init => PoolInv
<1> SUFFICES ASSUME Init PROVE PoolInv
  OBVIOUS
<1>1. V!RatePerSecond(DeployRateBps) \in Nat
  BY Constants, RateIsNat
<1>2. /\ InitialTokens \in [V!Holders -> Nat] /\ InitialTokens[VaultAddr] = 0
      /\ ONE \in Nat \ {0} /\ DeployMinimum \in Nat /\ InitialCollateral \in Nat
      /\ PoolAddr \in Accounts
  BY PoolConstants DEF V!Holders
<1>3. V!TypeOK
  BY <1>1, <1>2 DEF Init, V!Init, V!TypeOK, V!NoDeposit
<1>4. V!IndexDiscipline
  BY <1>2 DEF Init, V!Init, V!IndexDiscipline, V!NoDeposit
<1>5. PoolBooks
  BY <1>2 DEF Init, V!Init, PoolBooks, PoolTypeOK, BorrowIndexDiscipline, NoPosition
<1>6. R!RegistryTypeOK
  <2>1. << >> \in Seq(CollateralTokens)
    OBVIOUS
  <2>2. QED
    BY <2>1 DEF Init, R!RegistryInit, R!RegistryTypeOK, R!NoConfig
<1>7. HoldingsOK /\ PledgesAreHeld
  BY <1>2, Constants
  DEF Init, R!RegistryInit, HoldingsOK, PledgesAreHeld, CollateralHolders
<1>8. PricesOK
  BY DEF Init, PricesOK
<1>9. LendersAreBacked
  BY <1>2 DEF Init, V!Init, V!NoDeposit, LendersAreBacked
<1>10. QED
  BY <1>3, <1>4, <1>5, <1>6, <1>7, <1>8, <1>9 DEF PoolInv, VaultInv

-----------------------------------------------------------------------------
(* borrow                                                                  *)
LEMMA BorrowStep ==
  ASSUME PoolInv, NEW u \in Borrowers, NEW amount \in Amounts, NEW t \in CollateralTokens,
         NEW pledge \in CollateralAmounts, Borrow(u, amount, t, pledge)
  PROVE  /\ PoolInv'
         /\ Owed(u)' - GetUserDebt(u) = tokens[VaultAddr] - tokens'[VaultAddr]
         /\ \A v \in Borrowers : v # u => borrowPositions'[v] = borrowPositions[v]
<1>1. /\ amount \in Nat /\ pledge \in Nat /\ VaultAddr # u /\ u \in V!Holders
      /\ VaultAddr \in V!Holders /\ RegistryAddr # u /\ RegistryAddr \in CollateralHolders
      /\ u \in CollateralHolders
  BY Constants DEF V!Holders, CollateralHolders
<1>2. /\ VaultInv /\ PoolBooks /\ R!RegistryTypeOK /\ HoldingsOK /\ PricesOK
      /\ PledgesAreHeld /\ LendersAreBacked
  BY DEF PoolInv
<1>3. /\ tokens \in [V!Holders -> Nat] /\ totalPrincipal \in Nat /\ totalBorrowed \in Nat
      /\ deposits \in [Accounts -> [principal : Nat, userIndex : Nat]]
  BY <1>2 DEF VaultInv, V!TypeOK, PoolBooks, PoolTypeOK
<1>4. /\ tokens' \in [V!Holders -> Nat] /\ tokens'[VaultAddr] = tokens[VaultAddr] - amount
      /\ UNCHANGED <<now, vaultVars>>
  BY <1>1, <1>3 DEF Borrow, V!TransferLiquidity, V!Transfer, V!vaultVars, vaultVars
<1>5. VaultInv'
  BY <1>2, <1>4, TokensMove
<1>6. DebtAt(u, CurrentBorrowIndex) + amount \in Nat /\ totalBorrowed' \in Nat
  BY <1>1, <1>2, <1>3, DebtIsNat DEF Borrow
<1>7. UpdateBorrowIndex /\ WritePosition(u, DebtAt(u, CurrentBorrowIndex) + amount) /\ now' = now
  BY <1>4 DEF Borrow, RecordBorrow
<1>8. /\ PoolBooks' /\ Owed(u)' = DebtAt(u, CurrentBorrowIndex) + amount
      /\ \A v \in Borrowers : v # u => borrowPositions'[v] = borrowPositions[v]
  BY <1>2, <1>6, <1>7, PositionWritten
<1>9. R!RegistryTypeOK' /\ totalCollateral' = [totalCollateral EXCEPT ![t] = @ + pledge]
  BY <1>1, <1>2, PledgeBooked DEF Borrow
<1>10. /\ HoldingsOK'
       /\ collateralHeld'[t][RegistryAddr] = collateralHeld[t][RegistryAddr] + pledge
       /\ \A s \in CollateralTokens : s # t =>
            collateralHeld'[s][RegistryAddr] = collateralHeld[s][RegistryAddr]
  BY <1>1, <1>2, CollateralMoves DEF Borrow, TakePledge
<1>11. PledgesAreHeld'
  <2>1. /\ totalCollateral \in [CollateralTokens -> Nat]
        /\ \A s \in CollateralTokens : collateralHeld[s][RegistryAddr] \in Nat
    BY <1>1, <1>2 DEF R!RegistryTypeOK, HoldingsOK
  <2>2. ASSUME NEW s \in CollateralTokens
        PROVE  totalCollateral'[s] <= collateralHeld'[s][RegistryAddr]
    BY <1>1, <1>2, <1>9, <1>10, <2>1 DEF PledgesAreHeld
  <2>3. QED
    BY <2>2 DEF PledgesAreHeld
<1>12. PricesOK'
  BY <1>2 DEF PricesOK, Borrow, oracleVars
<1>13. LendersAreBacked'
  <2>1. totalBorrowed' = totalBorrowed + amount
    BY DEF Borrow
  <2>2. tokens[VaultAddr] \in Nat /\ deposits[PoolAddr].principal \in Nat
    BY <1>1, <1>3, Constants
  <2>3. QED
    BY <1>1, <1>2, <1>3, <1>4, <2>1, <2>2 DEF LendersAreBacked, vaultVars
<1>14. Owed(u)' - GetUserDebt(u) = tokens[VaultAddr] - tokens'[VaultAddr]
  <2>1. tokens[VaultAddr] \in Nat /\ DebtAt(u, CurrentBorrowIndex) \in Nat
    BY <1>1, <1>2, <1>3, DebtIsNat
  <2>2. QED
    BY <1>1, <1>4, <1>8, <2>1 DEF GetUserDebt
<1>15. QED
  BY <1>5, <1>8, <1>9, <1>10, <1>11, <1>12, <1>13, <1>14 DEF PoolInv

(* repay                                                                   *)
LEMMA RepayStep ==
  ASSUME PoolInv, NEW u \in Borrowers, NEW amount \in Amounts, Repay(u, amount)
  PROVE  /\ PoolInv'
         /\ ~(Owed(u)' > GetUserDebt(u))
         /\ Owed(u)' - GetUserDebt(u) = tokens[VaultAddr] - tokens'[VaultAddr]
         /\ \A v \in Borrowers : v # u => borrowPositions'[v] = borrowPositions[v]
<1> DEFINE debt == DebtAt(u, CurrentBorrowIndex)
           repaid == Lesser(amount, debt)
<1>1. amount \in Nat /\ VaultAddr # u /\ u \in V!Holders /\ VaultAddr \in V!Holders
  BY Constants DEF V!Holders
<1>2. /\ VaultInv /\ PoolBooks /\ R!RegistryTypeOK /\ HoldingsOK /\ PricesOK
      /\ PledgesAreHeld /\ LendersAreBacked
  BY DEF PoolInv
<1>3. /\ tokens \in [V!Holders -> Nat] /\ totalPrincipal \in Nat /\ totalBorrowed \in Nat
      /\ deposits \in [Accounts -> [principal : Nat, userIndex : Nat]]
  BY <1>2 DEF VaultInv, V!TypeOK, PoolBooks, PoolTypeOK
<1>4. debt \in Nat
  BY <1>2, DebtIsNat
<1>5. repaid \in Nat /\ repaid <= debt /\ debt - repaid \in Nat
  BY <1>1, <1>4 DEF Lesser
<1>6. /\ UpdateBorrowIndex /\ V!Transfer(u, VaultAddr, repaid) /\ WritePosition(u, debt - repaid)
      /\ totalBorrowed >= repaid /\ totalBorrowed' = totalBorrowed - repaid
      /\ UNCHANGED <<now, vaultVars>> /\ UNCHANGED registryVars
      /\ UNCHANGED <<collateralHeld, oracleVars>>
  BY DEF Repay, LowerTotalBorrowed
<1>7. GetUserDebt(u) = debt
  BY DEF GetUserDebt
<1> HIDE DEF debt, repaid
<1>8. tokens' \in [V!Holders -> Nat] /\ tokens'[VaultAddr] = tokens[VaultAddr] + repaid
  BY <1>1, <1>3, <1>5, <1>6 DEF V!Transfer
<1>9. VaultInv'
  BY <1>2, <1>6, <1>8, TokensMove
<1>10. totalBorrowed' \in Nat /\ now' = now
  BY <1>3, <1>5, <1>6
<1>11. /\ PoolBooks' /\ Owed(u)' = debt - repaid
       /\ \A v \in Borrowers : v # u => borrowPositions'[v] = borrowPositions[v]
  BY <1>2, <1>5, <1>6, <1>10, PositionWritten
<1>12. R!RegistryTypeOK' /\ HoldingsOK' /\ PricesOK' /\ PledgesAreHeld'
  BY <1>2, <1>6
  DEF R!RegistryTypeOK, R!NoConfig, HoldingsOK, PricesOK, PledgesAreHeld, registryVars, oracleVars,
      CollateralHolders
<1>13. tokens[VaultAddr] \in Nat /\ deposits[PoolAddr].principal \in Nat
  BY <1>1, <1>3, Constants
<1>14. LendersAreBacked'
  BY <1>2, <1>3, <1>5, <1>6, <1>8, <1>13 DEF LendersAreBacked, vaultVars
<1>15. Owed(u)' - GetUserDebt(u) = tokens[VaultAddr] - tokens'[VaultAddr]
  BY <1>4, <1>5, <1>7, <1>8, <1>11, <1>13
<1>16. ~(Owed(u)' > GetUserDebt(u))
  BY <1>4, <1>5, <1>7, <1>11
<1>17. QED
  BY <1>9, <1>11, <1>12, <1>14, <1>15, <1>16 DEF PoolInv

(* A vault transaction that leaves the index at ONE found it there.        *)
LEMMA IndexStoodAtOne ==
  ASSUME VaultInv, V!UpdateGlobalIndex, globalIndex' = ONE
  PROVE  globalIndex = ONE /\ V!CurrentIndex = ONE
<1>1. V!CurrentIndex = ONE
  BY DEF V!UpdateGlobalIndex
<1>2. globalIndex \in Nat /\ ONE \in Nat /\ ONE <= globalIndex /\ globalIndex <= ONE
  BY <1>1, Constants, VaultIndexGrows DEF VaultInv, V!TypeOK, V!IndexDiscipline
<1>3. QED
  BY <1>1, <1>2

LEMMA SeizeValueIsNat ==
  ASSUME PricesOK, NEW t \in CollateralTokens, price[t] > 0, NEW repaid \in Nat
  PROVE  SeizeValue(t, repaid) \in Nat
<1>1. price[t] \in Nat /\ assetPrice \in Nat
  <2>1. price[t] \in Prices /\ assetPrice \in AssetPrices
    BY DEF PricesOK
  <2>2. QED
    BY <2>1, Constants
<1>2. Bps \in Nat \ {0} /\ Bps + LIQUIDATION_BONUS \in Nat
  <2>1. Bps \in Nat \ {0} /\ LIQUIDATION_BONUS \in Nat
    BY Constants
  <2>2. QED
    BY <2>1
<1>3. price[t] * Bps \in Nat \ {0}
  <2>1. ASSUME NEW a \in Nat, a > 0, NEW b \in Nat \ {0} PROVE a * b \in Nat \ {0}
    BY <2>1
  <2>2. QED
    BY <1>1, <1>2, <2>1
<1>4. repaid * assetPrice * (Bps + LIQUIDATION_BONUS) \in Nat
  BY <1>1, <1>2, MulMonotone
<1>5. QED
  BY <1>3, <1>4, DivBounds DEF SeizeValue

(* liquidate                                                               *)
LEMMA LiquidateStep ==
  ASSUME PoolInv, NEW u \in Borrowers, NEW liquidator \in Borrowers, NEW amount \in Amounts,
         Liquidate(liquidator, u, amount)
  PROVE  /\ PoolInv'
         /\ ~(Owed(u)' > GetUserDebt(u))
         /\ Owed(u)' - GetUserDebt(u) = tokens[VaultAddr] - tokens'[VaultAddr]
         /\ \A v \in Borrowers : v # u => borrowPositions'[v] = borrowPositions[v]
<1> DEFINE debt == DebtAt(u, CurrentBorrowIndex)
           repaid == Lesser(amount, debt \div 2)
           t == userCollateralTokens[u][1]
           seizeAmount == SeizeValue(t, repaid)
           seized == R!SeizedAmount(u, t, seizeAmount)
<1>1. /\ amount \in Nat /\ VaultAddr # liquidator /\ liquidator \in V!Holders
      /\ VaultAddr \in V!Holders /\ PoolAddr \in Accounts
      /\ PoolAddr # liquidator /\ RegistryAddr \notin {PoolAddr, liquidator}
      /\ {PoolAddr, RegistryAddr, liquidator} \subseteq CollateralHolders
  BY Constants DEF V!Holders, CollateralHolders
<1>2. /\ VaultInv /\ PoolBooks /\ R!RegistryTypeOK /\ HoldingsOK /\ PricesOK
      /\ PledgesAreHeld /\ LendersAreBacked
  BY DEF PoolInv
<1>3. /\ tokens \in [V!Holders -> Nat] /\ totalPrincipal \in Nat /\ totalBorrowed \in Nat
      /\ deposits \in [Accounts -> [principal : Nat, userIndex : Nat]]
  BY <1>2 DEF VaultInv, V!TypeOK, PoolBooks, PoolTypeOK
<1>4. debt \in Nat
  BY <1>2, DebtIsNat
<1>5. repaid \in Nat /\ repaid <= debt /\ debt - repaid \in Nat
  BY <1>1, <1>4 DEF Lesser
<1>6. /\ UpdateBorrowIndex /\ V!DepositFrom(PoolAddr, liquidator, repaid)
      /\ userCollateralTokens[u] # << >> /\ price[t] > 0
      /\ R!SeizeCollateral(u, t, seizeAmount)
      /\ MoveCollateral(t, PoolAddr, liquidator, seized)
      /\ WritePosition(u, debt - repaid)
      /\ totalBorrowed >= repaid /\ totalBorrowed' = totalBorrowed - repaid
      /\ UNCHANGED oracleVars
  BY DEF Liquidate, LowerTotalBorrowed
<1>7. GetUserDebt(u) = debt
  BY DEF GetUserDebt
<1>8. t \in CollateralTokens
  <2>1. userCollateralTokens[u] \in Seq(CollateralTokens)
    BY <1>2 DEF R!RegistryTypeOK
  <2>2. QED
    BY <1>6, <2>1
<1> HIDE DEF debt, repaid, t
<1>9. seizeAmount \in Nat
  BY <1>2, <1>5, <1>6, <1>8, SeizeValueIsNat
<1> HIDE DEF seizeAmount
<1>10. seized \in Nat
  BY <1>2, <1>8, <1>9 DEF R!RegistryTypeOK, R!SeizedAmount
<1> HIDE DEF seized
<1>11. VaultInv' /\ now' = now
  BY <1>1, <1>2, <1>5, <1>6, DepositKeepsVault DEF V!DepositFrom
<1>12. tokens'[VaultAddr] = tokens[VaultAddr] + repaid /\ tokens[VaultAddr] \in Nat
  BY <1>1, <1>3, <1>5, <1>6 DEF V!DepositFrom, V!Transfer
<1>13. totalBorrowed' \in Nat
  BY <1>3, <1>5, <1>6
<1>14. /\ PoolBooks' /\ Owed(u)' = debt - repaid
       /\ \A v \in Borrowers : v # u => borrowPositions'[v] = borrowPositions[v]
  BY <1>2, <1>5, <1>6, <1>11, <1>13, PositionWritten
<1>15. /\ R!RegistryTypeOK'
       /\ \A s \in CollateralTokens : totalCollateral'[s] <= totalCollateral[s]
  BY <1>2, <1>6, <1>8, <1>9, SeizureBooked
<1>16. /\ HoldingsOK'
       /\ \A s \in CollateralTokens :
            collateralHeld'[s][RegistryAddr] = collateralHeld[s][RegistryAddr]
  BY <1>1, <1>2, <1>6, <1>8, <1>10, CollateralMoves
<1>17. PledgesAreHeld'
  <2>1. ASSUME NEW s \in CollateralTokens
        PROVE  totalCollateral'[s] <= collateralHeld'[s][RegistryAddr]
    <3>1. /\ totalCollateral[s] \in Nat /\ totalCollateral'[s] \in Nat
          /\ collateralHeld[s][RegistryAddr] \in Nat
      BY <1>1, <1>2, <1>15 DEF R!RegistryTypeOK, HoldingsOK
    <3>2. QED
      BY <1>2, <1>15, <1>16, <3>1 DEF PledgesAreHeld
  <2>2. QED
    BY <2>1 DEF PledgesAreHeld
<1>18. PricesOK'
  BY <1>2, <1>6 DEF PricesOK, oracleVars
<1>19. LendersAreBacked'
  <2>1. SUFFICES ASSUME globalIndex' = ONE
                 PROVE  tokens'[VaultAddr] + totalBorrowed'
                          = totalPrincipal' - deposits'[PoolAddr].principal
    BY DEF LendersAreBacked
  <2>2. globalIndex = ONE /\ V!CurrentIndex = ONE
    BY <1>2, <1>6, <2>1, IndexStoodAtOne DEF V!DepositFrom
  <2>3. V!BalanceOf(PoolAddr) = deposits[PoolAddr].principal
    BY <1>1, <1>2, <2>2, BalanceCovers
  <2>4. /\ totalPrincipal' = totalPrincipal + repaid
        /\ deposits'[PoolAddr].principal = deposits[PoolAddr].principal + repaid
    BY <1>1, <1>3, <1>6, <2>3 DEF V!DepositFrom
  <2>5. deposits[PoolAddr].principal \in Nat
    BY <1>1, <1>3
  <2>6. QED
    BY <1>2, <1>3, <1>5, <1>6, <1>12, <2>2, <2>4, <2>5, SMTT(60) DEF LendersAreBacked
<1>20. Owed(u)' - GetUserDebt(u) = tokens[VaultAddr] - tokens'[VaultAddr]
  BY <1>4, <1>5, <1>7, <1>12, <1>14
<1>21. ~(Owed(u)' > GetUserDebt(u))
  BY <1>4, <1>5, <1>7, <1>14
<1>22. QED
  BY <1>11, <1>14, <1>15, <1>16, <1>17, <1>18, <1>19, <1>20, <1>21 DEF PoolInv

-----------------------------------------------------------------------------
(* The rest of the system.                                                 *)
LEMMA LendersStayBacked ==
  ASSUME PoolInv, VaultStep
  PROVE  LendersAreBacked'
<1>1. /\ VaultInv /\ LendersAreBacked /\ totalBorrowed' = totalBorrowed /\ totalBorrowed \in Nat
      /\ tokens \in [V!Holders -> Nat] /\ totalPrincipal \in Nat
      /\ deposits \in [Accounts -> [principal : Nat, userIndex : Nat]]
      /\ VaultAddr \in V!Holders /\ PoolAddr \in Accounts
  BY Constants
  DEF PoolInv, VaultInv, V!TypeOK, PoolBooks, PoolTypeOK, VaultStep, poolVars, V!Holders
<1>2. ASSUME NEW u \in Accounts \ {PoolAddr}, NEW amount \in Amounts, V!Deposit(u, amount)
      PROVE  LendersAreBacked'
  <2>1. /\ amount \in Nat /\ u # VaultAddr /\ u \in V!Holders
        /\ tokens[VaultAddr] \in Nat /\ deposits[PoolAddr].principal \in Nat
    BY <1>1, Constants DEF V!Holders
  <2>2. /\ tokens'[VaultAddr] = tokens[VaultAddr] + amount
        /\ totalPrincipal' = totalPrincipal + amount
        /\ deposits'[PoolAddr] = deposits[PoolAddr]
    BY <1>1, <1>2, <2>1 DEF V!Deposit, V!DepositFrom, V!Transfer
  <2>3. globalIndex' = ONE => globalIndex = ONE
    BY <1>1, <1>2, IndexStoodAtOne DEF V!Deposit, V!DepositFrom
  <2>4. QED
    BY <1>1, <2>1, <2>2, <2>3 DEF LendersAreBacked
<1>3. ASSUME NEW u \in Accounts \ {PoolAddr}, NEW amount \in Amounts, V!Withdraw(u, amount)
      PROVE  LendersAreBacked'
  <2> DEFINE p == deposits[u].principal
  <2>1. /\ amount \in Nat /\ u # VaultAddr /\ u \in V!Holders /\ p \in Nat
        /\ tokens[VaultAddr] \in Nat /\ deposits[PoolAddr].principal \in Nat
    BY <1>1, Constants DEF V!Holders
  <2>2. /\ tokens'[VaultAddr] = tokens[VaultAddr] - amount
        /\ deposits'[PoolAddr] = deposits[PoolAddr]
    BY <1>1, <1>3, <2>1 DEF V!Withdraw, V!WithdrawAll, V!WithdrawPart, V!Transfer
  <2>3. SUFFICES ASSUME globalIndex' = ONE
                 PROVE  totalPrincipal' = totalPrincipal - amount /\ globalIndex = ONE
    BY <1>1, <2>1, <2>2 DEF LendersAreBacked
  <2>4. globalIndex = ONE /\ V!CurrentIndex = ONE
    BY <1>1, <1>3, <2>3, IndexStoodAtOne DEF V!Withdraw
  <2>5. V!BalanceOf(u) = p
    BY <1>1, <2>4, BalanceCovers
  <2>6. CASE amount = V!BalanceOf(u) /\ V!WithdrawAll(u)
    BY <2>4, <2>5, <2>6 DEF V!WithdrawAll
  <2>7. CASE V!WithdrawPart(u, amount, V!BalanceOf(u))
    <3>1. p \in Nat \ {0}
      BY <1>3, <2>1 DEF V!Withdraw
    <3>2. (amount * p) \div p = amount
      BY <2>1, <3>1, DivExact
    <3>3. QED
      BY <2>4, <2>5, <2>7, <3>2 DEF V!WithdrawPart, V!PrincipalWithdrawn
  <2>8. QED
    BY <1>3, <2>6, <2>7 DEF V!Withdraw
<1>4. ASSUME NEW bps \in RateChoices, V!UpdateInterestRate(bps)
      PROVE  LendersAreBacked'
  <2>1. globalIndex' = ONE => globalIndex = ONE
    BY <1>1, <1>4, IndexStoodAtOne DEF V!UpdateInterestRate
  <2>2. QED
    BY <1>1, <1>4, <2>1 DEF LendersAreBacked, V!UpdateInterestRate
<1>5. CASE UNCHANGED <<globalIndex, tokens, totalPrincipal, deposits>>
  BY <1>1, <1>5 DEF LendersAreBacked
<1>6. QED
  BY <1>2, <1>3, <1>4, <1>5
  DEF VaultStep, V!UpdateMinDepositAmount, V!SetLendingPool, V!Tick, V!vaultVars

(* When the pool's own books and the registry's are left alone, the rest   *)
(* of the invariant needs the clock only not to run backwards.             *)
LEMMA OthersStand ==
  ASSUME PoolInv, UNCHANGED <<registryVars, poolVars>>,
         now \in Nat, now' \in Nat, now <= now'
  PROVE  PoolBooks' /\ R!RegistryTypeOK'
<1>1. R!RegistryTypeOK'
  BY DEF PoolInv, R!RegistryTypeOK, R!NoConfig, registryVars
<1>2. PoolBooks'
  BY DEF PoolInv, PoolBooks, PoolTypeOK, BorrowIndexDiscipline, poolVars
<1>3. QED
  BY <1>1, <1>2

LEMMA OtherSteps ==
  ASSUME PoolInv,
         \/ VaultStep
         \/ ConfigureStep
         \/ PriceMoves
         \/ \E u \in Borrowers, t \in CollateralTokens, amount \in CollateralAmounts :
              SendToPool(u, t, amount)
         \/ UNCHANGED vars
  PROVE  PoolInv' /\ borrowPositions' = borrowPositions
<1>1. /\ VaultInv /\ PoolBooks /\ R!RegistryTypeOK /\ HoldingsOK /\ PricesOK
      /\ PledgesAreHeld /\ LendersAreBacked /\ now \in Nat
  BY DEF PoolInv, VaultInv, V!TypeOK
<1>2. CASE VaultStep
  <2>1. VaultInv' /\ now' \in Nat /\ now <= now'
    BY <1>1, <1>2, VaultStepKeepsVault
  <2>2. UNCHANGED <<registryVars, poolVars, collateralHeld, oracleVars>>
    BY <1>2 DEF VaultStep
  <2>3. PoolBooks' /\ R!RegistryTypeOK'
    BY <1>1, <2>1, <2>2, OthersStand
  <2>4. HoldingsOK' /\ PricesOK' /\ PledgesAreHeld'
    BY <1>1, <2>2
    DEF HoldingsOK, PricesOK, PledgesAreHeld, CollateralHolders, registryVars, oracleVars
  <2>5. QED
    BY <1>2, <2>1, <2>2, <2>3, <2>4, LendersStayBacked DEF PoolInv, poolVars
<1>3. CASE UNCHANGED <<now, tokens, vaultVars, poolVars>>
            /\ ((ConfigureStep \/ UNCHANGED registryVars))
            /\ HoldingsOK' /\ PricesOK'
            /\ \A t \in CollateralTokens :
                 collateralHeld'[t][RegistryAddr] = collateralHeld[t][RegistryAddr]
  <2>1. VaultInv'
    <3>1. tokens' \in [V!Holders -> Nat]
      BY <1>1, <1>3 DEF VaultInv, V!TypeOK
    <3>2. QED
      BY <1>1, <1>3, <3>1, TokensMove
  <2>2. PoolBooks'
    BY <1>1, <1>3 DEF PoolBooks, PoolTypeOK, BorrowIndexDiscipline, poolVars
  <2>3. R!RegistryTypeOK' /\ UNCHANGED totalCollateral
    BY <1>1, <1>3
    DEF ConfigureStep, R!ConfigureCollateral, R!RegistryTypeOK, R!NoConfig, registryVars
  <2>4. PledgesAreHeld'
    BY <1>1, <1>3, <2>3 DEF PledgesAreHeld
  <2>5. LendersAreBacked'
    BY <1>1, <1>3 DEF LendersAreBacked, poolVars, vaultVars
  <2>6. QED
    BY <1>3, <2>1, <2>2, <2>3, <2>4, <2>5 DEF PoolInv, poolVars
<1>4. CASE ConfigureStep \/ PriceMoves \/ UNCHANGED vars
  <2>1. HoldingsOK' /\ UNCHANGED collateralHeld
    BY <1>1, <1>4 DEF HoldingsOK, CollateralHolders, ConfigureStep, PriceMoves, vars
  <2>2. PricesOK'
    BY <1>1, <1>4 DEF PricesOK, ConfigureStep, PriceMoves, vars, oracleVars
  <2>3. UNCHANGED <<now, tokens, vaultVars, poolVars>> /\ (ConfigureStep \/ UNCHANGED registryVars)
    BY <1>4 DEF ConfigureStep, PriceMoves, vars
  <2>4. QED
    BY <1>3, <2>1, <2>2, <2>3
<1>5. ASSUME NEW u \in Borrowers, NEW t \in CollateralTokens, NEW amount \in CollateralAmounts,
             SendToPool(u, t, amount)
      PROVE  PoolInv' /\ borrowPositions' = borrowPositions
  <2>1. /\ amount \in Nat /\ {u, PoolAddr, RegistryAddr} \subseteq CollateralHolders
        /\ u # PoolAddr /\ RegistryAddr \notin {u, PoolAddr}
    BY Constants DEF CollateralHolders
  <2>2. /\ HoldingsOK'
        /\ \A s \in CollateralTokens :
             collateralHeld'[s][RegistryAddr] = collateralHeld[s][RegistryAddr]
    BY <1>1, <1>5, <2>1, CollateralMoves DEF SendToPool
  <2>3. PricesOK'
    BY <1>1, <1>5 DEF PricesOK, SendToPool, oracleVars
  <2>4. QED
    BY <1>3, <1>5, <2>2, <2>3 DEF SendToPool
<1>6. QED
  BY <1>2, <1>4, <1>5

-----------------------------------------------------------------------------
(* Every step keeps the invariant, and a position that changes changes     *)
(* what its owner owes by the tokens that move.                            *)
LEMMA NextKeepsPoolInv ==
  ASSUME PoolInv, [Next]_vars
  PROVE  /\ PoolInv'
         /\ \A v \in Borrowers :
              borrowPositions'[v] # borrowPositions[v]
                => Owed(v)' - GetUserDebt(v) = tokens[VaultAddr] - tokens'[VaultAddr]
<1>1. CASE PoolStep
  <2>1. PICK u \in Borrowers, amount \in Amounts :
          \/ \E t \in CollateralTokens, pledge \in CollateralAmounts : Borrow(u, amount, t, pledge)
          \/ Repay(u, amount)
          \/ \E liquidator \in Borrowers : Liquidate(liquidator, u, amount)
    BY <1>1 DEF PoolStep
  <2>2. /\ PoolInv'
        /\ Owed(u)' - GetUserDebt(u) = tokens[VaultAddr] - tokens'[VaultAddr]
        /\ \A v \in Borrowers : v # u => borrowPositions'[v] = borrowPositions[v]
    BY <2>1, BorrowStep, RepayStep, LiquidateStep
  <2>3. ASSUME NEW v \in Borrowers, borrowPositions'[v] # borrowPositions[v]
        PROVE  Owed(v)' - GetUserDebt(v) = tokens[VaultAddr] - tokens'[VaultAddr]
    <3>1. v = u
      BY <2>2, <2>3
    <3>2. QED
      BY <2>2, <3>1
  <2>4. QED
    BY <2>2, <2>3
<1>2. CASE ~PoolStep
  BY <1>2, OtherSteps DEF Next
<1>3. QED
  BY <1>1, <1>2

THEOREM PoolInvariant == Spec => []PoolInv
  BY InitEstablishesPoolInv, NextKeepsPoolInv, PTL DEF Spec

(* The pool, its vault and its registry keep their types, for any number   *)
(* of accounts, tokens and amounts: no balance, debt or principal goes     *)
(* below zero and no share is a quotient by zero (LendingPool.sol,         *)
(* Vault.sol, CollateralRegistry.sol).                                     *)
THEOREM PoolTypeCorrect == Spec => []TypeOK
<1>1. PoolInv => TypeOK
  BY DEF PoolInv, VaultInv, PoolBooks, PoolTypeOK, HoldingsOK, PricesOK, TypeOK
<1>2. QED
  BY <1>1, PoolInvariant, PTL

(* Every open position was written at an index between one and the stored  *)
(* one, so what is owed is never less than what was borrowed               *)
(* (_updateBorrowIndex, _calculateDebt).                                   *)
THEOREM PositionsAreDisciplined == Spec => []BorrowIndexDiscipline
<1>1. PoolInv => BorrowIndexDiscipline
  BY DEF PoolInv, PoolBooks
<1>2. QED
  BY <1>1, PoolInvariant, PTL

(* The registry's address holds every token its books say is pledged       *)
(* (borrow, liquidate).                                                    *)
THEOREM PledgesStayHeld == Spec => []PledgesAreHeld
<1>1. PoolInv => PledgesAreHeld
  BY DEF PoolInv
<1>2. QED
  BY <1>1, PoolInvariant, PTL

(* While the savings index has not moved, the vault's tokens and the loans *)
(* cover exactly what lenders have put in, whatever interleaving of        *)
(* deposits, withdrawals, loans, repayments and liquidations came before.  *)
THEOREM LendersStayCovered == Spec => []LendersAreBacked
<1>1. PoolInv => LendersAreBacked
  BY DEF PoolInv
<1>2. QED
  BY <1>1, PoolInvariant, PTL

(* What a borrower owes changes, when a position is written, by exactly    *)
(* the tokens that leave or enter the vault (borrow, repay, liquidate).    *)
THEOREM DebtFollowsTokens == Spec => DebtMatchesTokens
<1>1. PoolInv /\ [Next]_vars =>
        [\A u \in Borrowers :
           borrowPositions'[u] # borrowPositions[u]
             => Owed(u)' - GetUserDebt(u) = tokens[VaultAddr] - tokens'[VaultAddr]]_vars
  BY NextKeepsPoolInv
<1>2. QED
  BY <1>1, PoolInvariant, PTL DEF Spec, DebtMatchesTokens

-----------------------------------------------------------------------------
(* The positions cover the total.                                          *)
LEMMA LoansTyped ==
  ASSUME PoolBooks
  PROVE  /\ IsFiniteSet(Borrowers)
         /\ Loans \in [Borrowers -> Int]
         /\ SumFunction(Loans) \in Int
<1>1. IsFiniteSet(Borrowers)
  BY PoolConstants
<1>2. \A u \in Borrowers : borrowPositions[u].principal \in Int
  BY DEF PoolBooks, PoolTypeOK
<1>3. Loans \in [Borrowers -> Int]
  BY <1>2 DEF Loans
<1> HIDE DEF Loans
<1>4. QED
  BY <1>1, <1>3, SumOfMapping

LEMMA DebtCoversPrincipal ==
  ASSUME VaultInv, PoolBooks, NEW u \in Borrowers
  PROVE  /\ borrowPositions[u].principal \in Nat
         /\ borrowPositions[u].principal <= DebtAt(u, CurrentBorrowIndex)
<1> DEFINE p == borrowPositions[u].principal
           i == borrowPositions[u].borrowIndex
<1>1. p \in Nat /\ i \in Nat
  BY DEF PoolBooks, PoolTypeOK
<1>2. CASE p = 0
  BY <1>2 DEF DebtAt
<1>3. CASE p # 0
  <2>1. /\ ONE \in Nat \ {0} /\ ONE <= i /\ i <= globalBorrowIndex
        /\ globalBorrowIndex \in Nat
        /\ CurrentBorrowIndex \in Nat /\ globalBorrowIndex <= CurrentBorrowIndex
    BY <1>1, <1>3, Constants, BorrowIndexGrows DEF PoolBooks, PoolTypeOK, BorrowIndexDiscipline
  <2>2. DebtAt(u, CurrentBorrowIndex) = (p * CurrentBorrowIndex) \div i
    BY <1>3 DEF DebtAt, CalculateDebt
  <2> HIDE DEF p, i
  <2>3. i \in Nat \ {0} /\ i <= CurrentBorrowIndex
    BY <1>1, <2>1
  <2>4. p <= (p * CurrentBorrowIndex) \div i
    BY <1>1, <2>1, <2>3, ScaleUp
  <2>5. QED
    BY <1>1, <2>2, <2>4 DEF p
<1>4. QED
  BY <1>1, <1>2, <1>3

(* Writing a position raises the sum by at least as much as the debt grows *)
(* beyond the interest owed: what the stored principal lacks of that       *)
(* interest comes on top.                                                  *)
LEMMA WrittenPositionCovers ==
  ASSUME VaultInv, PoolBooks, PositionsCoverTotalBorrowed,
         NEW u \in Borrowers, NEW debt \in Nat, WritePosition(u, debt),
         totalBorrowed' = totalBorrowed + (debt - DebtAt(u, CurrentBorrowIndex))
  PROVE  PositionsCoverTotalBorrowed'
<1> DEFINE p == borrowPositions[u].principal
           owed == DebtAt(u, CurrentBorrowIndex)
<1>1. /\ p \in Nat /\ owed \in Nat /\ p <= owed /\ totalBorrowed \in Nat
      /\ IsFiniteSet(Borrowers) /\ Loans \in [Borrowers -> Int] /\ SumFunction(Loans) \in Int
  BY DebtIsNat, DebtCoversPrincipal, LoansTyped DEF PoolBooks, PoolTypeOK
<1>2. /\ borrowPositions'[u].principal = debt
      /\ \A v \in Borrowers : v # u => borrowPositions'[v] = borrowPositions[v]
  BY DEF WritePosition, NoPosition, PoolBooks, PoolTypeOK
<1>3. /\ Loans' \in [Borrowers -> Int] /\ Loans[u] = p /\ Loans'[u] = debt
      /\ \A v \in Borrowers : v # u => Loans'[v] = Loans[v]
  BY <1>1, <1>2 DEF Loans
<1> HIDE DEF p, owed
<1>4. SumFunction(Loans') = SumFunction(Loans) - p + debt
  <2> HIDE DEF Loans
  <2>1. SumFunction(Loans') = SumFunction(Loans) - Loans[u] + Loans'[u]
    BY <1>1, <1>3, SumChanges
  <2>2. QED
    BY <1>3, <2>1
<1>5. totalBorrowed <= SumFunction(Loans) /\ totalBorrowed' = totalBorrowed + (debt - owed)
  BY DEF PositionsCoverTotalBorrowed, owed
<1> HIDE DEF Loans
<1>6. totalBorrowed' <= SumFunction(Loans')
  BY <1>1, <1>4, <1>5
<1>7. QED
  BY <1>6 DEF PositionsCoverTotalBorrowed

LEMMA StepKeepsPositionsCover ==
  ASSUME PoolInv, PositionsCoverTotalBorrowed, [Next]_vars
  PROVE  PositionsCoverTotalBorrowed'
<1>1. /\ VaultInv /\ PoolBooks /\ totalBorrowed \in Nat
      /\ \A u \in Borrowers : DebtAt(u, CurrentBorrowIndex) \in Nat
  BY DebtIsNat DEF PoolInv, PoolBooks, PoolTypeOK
<1>2. ASSUME NEW u \in Borrowers, NEW amount \in Amounts, NEW t \in CollateralTokens,
             NEW pledge \in CollateralAmounts, Borrow(u, amount, t, pledge)
      PROVE  PositionsCoverTotalBorrowed'
  <2> DEFINE owed == DebtAt(u, CurrentBorrowIndex)
  <2>1. amount \in Nat /\ owed \in Nat
    BY <1>1, Constants
  <2>2. WritePosition(u, owed + amount) /\ totalBorrowed' = totalBorrowed + amount
    BY <1>2 DEF Borrow, RecordBorrow
  <2>3. owed + amount \in Nat /\ totalBorrowed' = totalBorrowed + ((owed + amount) - owed)
    <3> HIDE DEF owed
    <3> QED
      BY <1>1, <2>1, <2>2
  <2>4. QED
    BY <1>1, <2>2, <2>3, WrittenPositionCovers
<1>3. ASSUME NEW u \in Borrowers, NEW amount \in Amounts, Repay(u, amount)
      PROVE  PositionsCoverTotalBorrowed'
  <2> DEFINE owed == DebtAt(u, CurrentBorrowIndex)
             repaid == Lesser(amount, owed)
  <2>1. amount \in Nat /\ owed \in Nat
    BY <1>1, Constants
  <2>2. WritePosition(u, owed - repaid) /\ totalBorrowed' = totalBorrowed - repaid
    BY <1>3 DEF Repay, LowerTotalBorrowed
  <2>3. repaid \in Nat /\ repaid <= owed
    BY <2>1 DEF Lesser
  <2>4. owed - repaid \in Nat /\ totalBorrowed' = totalBorrowed + ((owed - repaid) - owed)
    <3> HIDE DEF owed, repaid
    <3> QED
      BY <1>1, <2>1, <2>2, <2>3
  <2>5. QED
    BY <1>1, <2>2, <2>4, WrittenPositionCovers
<1>4. ASSUME NEW u \in Borrowers, NEW liquidator \in Borrowers, NEW amount \in Amounts,
             Liquidate(liquidator, u, amount)
      PROVE  PositionsCoverTotalBorrowed'
  <2> DEFINE owed == DebtAt(u, CurrentBorrowIndex)
             repaid == Lesser(amount, owed \div 2)
  <2>1. amount \in Nat /\ owed \in Nat
    BY <1>1, Constants
  <2>2. WritePosition(u, owed - repaid) /\ totalBorrowed' = totalBorrowed - repaid
    BY <1>4 DEF Liquidate, LowerTotalBorrowed
  <2>3. repaid \in Nat /\ repaid <= owed
    BY <2>1 DEF Lesser
  <2>4. owed - repaid \in Nat /\ totalBorrowed' = totalBorrowed + ((owed - repaid) - owed)
    <3> HIDE DEF owed, repaid
    <3> QED
      BY <1>1, <2>1, <2>2, <2>3
  <2>5. QED
    BY <1>1, <2>2, <2>4, WrittenPositionCovers
<1>5. CASE ~PoolStep
  <2>1. UNCHANGED <<totalBorrowed, borrowPositions>>
    BY <1>5 DEF Next, VaultStep, ConfigureStep, PriceMoves, SendToPool, vars, poolVars
  <2>2. QED
    BY <2>1 DEF PositionsCoverTotalBorrowed, Loans
<1>6. QED
  BY <1>2, <1>3, <1>4, <1>5 DEF PoolStep

(* totalBorrowed never exceeds what the positions add up to, for any       *)
(* number of borrowers: it counts loans less repayments, while positions   *)
(* also grow by interest.                                                  *)
THEOREM PositionsAreCounted == Spec => []PositionsCoverTotalBorrowed
<1>1. Init => PositionsCoverTotalBorrowed
  <2> SUFFICES ASSUME Init PROVE PositionsCoverTotalBorrowed
    OBVIOUS
  <2>1. IsFiniteSet(Borrowers) /\ Loans \in [Borrowers -> Int]
    BY InitEstablishesPoolInv, LoansTyped DEF PoolInv
  <2>2. \A u \in Borrowers : Loans[u] = 0
    BY DEF Init, Loans, NoPosition
  <2>3. SumFunction(Loans) = 0
    <3> HIDE DEF Loans
    <3> QED
      BY <2>1, <2>2, SumOfMapping
  <2>4. QED
    BY <2>3 DEF Init, PositionsCoverTotalBorrowed
<1>2. PoolInv /\ PositionsCoverTotalBorrowed /\ [Next]_vars => PositionsCoverTotalBorrowed'
  BY StepKeepsPositionsCover
<1>3. QED
  BY <1>1, <1>2, PoolInvariant, PTL DEF Spec

-----------------------------------------------------------------------------
(* Debts grow against collateral only.                                     *)

(* A position that is not written owes, at the index stored by then, no    *)
(* more than the current index said before.                                *)
LEMMA UnwrittenDebt ==
  ASSUME VaultInv, PoolBooks, NEW u \in Borrowers,
         borrowPositions'[u] = borrowPositions[u],
         globalBorrowIndex' \in {globalBorrowIndex, CurrentBorrowIndex}
  PROVE  ~(Owed(u)' > GetUserDebt(u))
<1> DEFINE p == borrowPositions[u].principal
           i == borrowPositions[u].borrowIndex
<1>1. /\ p \in Nat /\ i \in Nat
      /\ ONE \in Nat \ {0} /\ globalBorrowIndex \in Nat
      /\ CurrentBorrowIndex \in Nat /\ globalBorrowIndex <= CurrentBorrowIndex
      /\ globalBorrowIndex' \in Nat /\ globalBorrowIndex' <= CurrentBorrowIndex
  BY Constants, BorrowIndexGrows DEF PoolBooks, PoolTypeOK
<1>2. CASE p = 0
  BY <1>2 DEF Owed, GetUserDebt, DebtAt
<1>3. CASE p # 0
  <2>1. i \in Nat \ {0}
    BY <1>1, <1>3 DEF PoolBooks, BorrowIndexDiscipline
  <2>2. /\ Owed(u)' = (p * globalBorrowIndex') \div i
        /\ GetUserDebt(u) = (p * CurrentBorrowIndex) \div i
    BY <1>3 DEF Owed, GetUserDebt, DebtAt, CalculateDebt
  <2> HIDE DEF p, i
  <2>3. ASSUME NEW f \in Nat, NEW g \in Nat, f <= g
        PROVE  (p * f) \div i \in Nat /\ (p * g) \div i \in Nat /\ (p * f) \div i <= (p * g) \div i
    <3>1. p * f \in Nat /\ p * g \in Nat /\ p * f <= p * g
      BY <1>1, <2>3, MulMonotone
    <3>2. QED
      BY <2>1, <3>1, DivMonotone, DivBounds
  <2>4. /\ (p * globalBorrowIndex') \div i <= (p * CurrentBorrowIndex) \div i
        /\ (p * globalBorrowIndex') \div i \in Nat /\ (p * CurrentBorrowIndex) \div i \in Nat
    BY <1>1, <2>3
  <2>5. QED
    BY <2>2, <2>4
<1>4. QED
  BY <1>2, <1>3

LEMMA OnlyHealthyDebtGrows ==
  ASSUME PoolInv, [Next]_vars, NEW v \in Borrowers
  PROVE  Owed(v)' > GetUserDebt(v) => Healthy(v)'
<1>1. VaultInv /\ PoolBooks
  BY DEF PoolInv
<1>2. CASE PoolStep
  <2>1. PICK u \in Borrowers, amount \in Amounts :
          \/ \E t \in CollateralTokens, pledge \in CollateralAmounts : Borrow(u, amount, t, pledge)
          \/ Repay(u, amount)
          \/ \E liquidator \in Borrowers : Liquidate(liquidator, u, amount)
    BY <1>2 DEF PoolStep
  <2>2. /\ \A w \in Borrowers : w # u => borrowPositions'[w] = borrowPositions[w]
        /\ globalBorrowIndex' = CurrentBorrowIndex
    BY <2>1, BorrowStep, RepayStep, LiquidateStep DEF Borrow, Repay, Liquidate, UpdateBorrowIndex
  <2>3. CASE v # u
    BY <1>1, <2>2, <2>3, UnwrittenDebt
  <2>4. CASE v = u
    BY <2>1, <2>4, RepayStep, LiquidateStep DEF Borrow, BorrowLeavesHealthy
  <2>5. QED
    BY <2>3, <2>4
<1>3. CASE ~PoolStep
  <2>1. UNCHANGED <<globalBorrowIndex, borrowPositions>>
    BY <1>3 DEF Next, VaultStep, ConfigureStep, PriceMoves, SendToPool, vars, poolVars
  <2>2. QED
    BY <1>1, <2>1, UnwrittenDebt
<1>4. QED
  BY <1>2, <1>3

(* No transaction of anyone leaves a borrower owing more than he owed to   *)
(* that second, unless he is healthy when it ends.                         *)
THEOREM DebtNeedsCollateral == Spec => LoansAreCovered
<1>1. PoolInv /\ [Next]_vars =>
        [\A u \in Borrowers : Owed(u)' > GetUserDebt(u) => Healthy(u)']_vars
  BY OnlyHealthyDebtGrows
<1>2. QED
  BY <1>1, PoolInvariant, PTL DEF Spec, LoansAreCovered

-----------------------------------------------------------------------------
(* The lenders' ledger.  Claims are read off balanceOf: a transaction that *)
(* stores the index stores what views were reading, so settling interest   *)
(* changes no claim, and a record written at that index is worth its       *)
(* principal.                                                              *)
LEMMA StoredIndexIsRead ==
  ASSUME V!UpdateGlobalIndex, now' = now
  PROVE  V!CurrentIndex' = V!CurrentIndex
  BY DEF V!UpdateGlobalIndex, V!CurrentIndex

LEMMA UnwrittenClaim ==
  ASSUME NEW v \in Accounts, deposits'[v] = deposits[v], V!CurrentIndex' = V!CurrentIndex
  PROVE  V!BalanceOf(v)' = V!BalanceOf(v)
  BY DEF V!BalanceOf, V!CalculateBalance

LEMMA WrittenClaim ==
  ASSUME VaultInv, NEW u \in Accounts, NEW p \in Nat, V!CurrentIndex' = V!CurrentIndex,
         \/ deposits'[u] = [principal |-> p, userIndex |-> V!CurrentIndex]
         \/ deposits'[u] = V!NoDeposit /\ p = 0
  PROVE  V!BalanceOf(u)' = p
<1>1. V!CurrentIndex \in Nat \ {0}
  BY VaultIndexGrows
<1>2. (p * V!CurrentIndex) \div V!CurrentIndex = p
  BY <1>1, DivExact
<1>3. CASE deposits'[u] = [principal |-> p, userIndex |-> V!CurrentIndex]
  BY <1>2, <1>3 DEF V!BalanceOf, V!CalculateBalance
<1>4. CASE deposits'[u] = V!NoDeposit /\ p = 0
  BY <1>4 DEF V!BalanceOf, V!NoDeposit
<1>5. QED
  BY <1>3, <1>4

(* One record is written: a lender's claim becomes what was written, and   *)
(* where the record is the pool's own, no lender's claim moves.            *)
LEMMA LenderClaimMoves ==
  ASSUME VaultInv, NEW u \in Accounts, NEW p \in Nat, NEW r,
         V!CurrentIndex' = V!CurrentIndex, deposits' = [deposits EXCEPT ![u] = r],
         \/ r = [principal |-> p, userIndex |-> V!CurrentIndex]
         \/ r = V!NoDeposit /\ p = 0
  PROVE  /\ u \in Lenders => LenderClaims' = [LenderClaims EXCEPT ![u] = p]
         /\ u \notin Lenders => LenderClaims' = LenderClaims
<1>1. deposits'[u] = r /\ \A v \in Accounts : v # u => deposits'[v] = deposits[v]
  BY DEF VaultInv, V!TypeOK
<1>2. V!BalanceOf(u)' = p
  BY <1>1, WrittenClaim
<1>3. \A v \in Accounts : v # u => V!BalanceOf(v)' = V!BalanceOf(v)
  BY <1>1, UnwrittenClaim
<1>4. Lenders \subseteq Accounts
  BY DEF Lenders
<1>5. QED
  BY <1>2, <1>3, <1>4 DEF LenderClaims

LEMMA LenderClaimsStay ==
  ASSUME V!CurrentIndex' = V!CurrentIndex, deposits' = deposits
  PROVE  LenderClaims' = LenderClaims
<1>1. \A v \in Accounts : V!BalanceOf(v)' = V!BalanceOf(v)
  BY UnwrittenClaim
<1>2. QED
  BY <1>1 DEF LenderClaims, Lenders

LEMMA PartOfAmount ==
  ASSUME NEW amount \in Amounts, NEW part \in Nat, part <= amount
  PROVE  part \in PartsOfAmounts
<1>1. part \in 0..amount
  BY Constants
<1>2. QED
  BY <1>1 DEF PartsOfAmounts

(* Tokens paid to the vault, or out of it, come from or go to one wallet.  *)
LEMMA WalletPays ==
  ASSUME VaultInv, NEW payer \in Accounts \cup Borrowers, NEW amount \in Nat,
         V!Transfer(payer, VaultAddr, amount)
  PROVE  /\ payer \in Lenders =>
              /\ amount <= LenderWallets[payer]
              /\ LenderWallets' = [LenderWallets EXCEPT ![payer] = @ - amount]
         /\ payer \notin Lenders => LenderWallets' = LenderWallets
<1>1. tokens \in [V!Holders -> Nat] /\ payer \in V!Holders /\ VaultAddr \in V!Holders
  BY DEF VaultInv, V!TypeOK, V!Holders
<1>2. payer # VaultAddr /\ VaultAddr \notin Lenders /\ Lenders \subseteq V!Holders
  BY Constants DEF Lenders, V!Holders
<1>3. /\ amount <= tokens[payer]
      /\ tokens'[payer] = tokens[payer] - amount
      /\ \A h \in V!Holders : h \notin {payer, VaultAddr} => tokens'[h] = tokens[h]
  BY <1>1, <1>2 DEF V!Transfer
<1>4. QED
  BY <1>2, <1>3 DEF LenderWallets

LEMMA WalletReceives ==
  ASSUME VaultInv, NEW to \in Accounts \cup Borrowers, NEW amount \in Nat,
         V!Transfer(VaultAddr, to, amount)
  PROVE  /\ to \in Lenders => LenderWallets' = [LenderWallets EXCEPT ![to] = @ + amount]
         /\ to \notin Lenders => LenderWallets' = LenderWallets
<1>1. tokens \in [V!Holders -> Nat] /\ to \in V!Holders /\ VaultAddr \in V!Holders
  BY DEF VaultInv, V!TypeOK, V!Holders
<1>2. to # VaultAddr /\ VaultAddr \notin Lenders /\ Lenders \subseteq V!Holders
  BY Constants DEF Lenders, V!Holders
<1>3. /\ tokens'[to] = tokens[to] + amount
      /\ \A h \in V!Holders : h \notin {to, VaultAddr} => tokens'[h] = tokens[h]
  BY <1>1, <1>2 DEF V!Transfer
<1>4. QED
  BY <1>2, <1>3 DEF LenderWallets

LenderStep == [LenderLedger!LNext]_<<now, LenderClaims, LenderWallets>>

(* Payments in and out of the vault that touch no lender's record.         *)
LEMMA PaymentIsGift ==
  ASSUME VaultInv, NEW payer \in Accounts \cup Borrowers, NEW amount \in PartsOfAmounts,
         amount \in Nat, V!Transfer(payer, VaultAddr, amount),
         LenderClaims' = LenderClaims, now' = now
  PROVE  LenderStep
<1>1. CASE payer \in Lenders
  <2>1. LenderLedger!Gift(payer, amount)
    BY <1>1, WalletPays DEF LenderLedger!Gift
  <2>2. QED
    BY <1>1, <2>1 DEF LenderLedger!LNext, LenderStep
<1>2. CASE payer \notin Lenders
  BY <1>2, WalletPays DEF LenderStep
<1>3. QED
  BY <1>1, <1>2

LEMMA LoanIsLent ==
  ASSUME VaultInv, NEW to \in Accounts \cup Borrowers, NEW amount \in PartsOfAmounts,
         amount \in Nat, V!Transfer(VaultAddr, to, amount),
         LenderClaims' = LenderClaims, now' = now
  PROVE  LenderStep
<1>1. CASE to \in Lenders
  <2>1. LenderLedger!Lend(to, amount)
    BY <1>1, WalletReceives DEF LenderLedger!Lend
  <2>2. QED
    BY <1>1, <2>1 DEF LenderLedger!LNext, LenderStep
<1>2. CASE to \notin Lenders
  BY <1>2, WalletReceives DEF LenderStep
<1>3. QED
  BY <1>1, <1>2

LEMMA LenderLedgerInit == Init => LenderLedger!LInit
<1> SUFFICES ASSUME Init PROVE LenderLedger!LInit
  OBVIOUS
<1>1. LenderClaims = [u \in Lenders |-> 0]
  BY DEF Init, V!Init, LenderClaims, Lenders, V!BalanceOf, V!NoDeposit
<1>2. LenderWallets \in [Lenders -> Nat]
  BY PoolConstants DEF Init, V!Init, LenderWallets, Lenders
<1>3. QED
  BY <1>1, <1>2 DEF Init, V!Init, LenderLedger!LInit

LEMMA LenderDepositCredits ==
  ASSUME VaultInv, NEW u \in Lenders, NEW amount \in Amounts, V!Deposit(u, amount)
  PROVE  LenderLedger!Credit(u, amount)
<1> DEFINE r == [principal |-> V!BalanceOf(u) + amount, userIndex |-> V!CurrentIndex]
<1>1. /\ u \in Accounts /\ amount \in Nat
      /\ V!BalanceOf(u) + amount \in Nat
  BY Constants, BalanceCovers DEF Lenders
<1>2. /\ V!UpdateGlobalIndex /\ now' = now /\ V!Transfer(u, VaultAddr, amount)
      /\ deposits' = [deposits EXCEPT ![u] = r]
  BY DEF V!Deposit, V!DepositFrom
<1>3. LenderClaims' = [LenderClaims EXCEPT ![u] = V!BalanceOf(u) + amount]
  BY <1>1, <1>2, StoredIndexIsRead, LenderClaimMoves
<1>4. LenderClaims[u] = V!BalanceOf(u)
  BY DEF LenderClaims
<1>5. QED
  BY <1>1, <1>2, <1>3, <1>4, WalletPays DEF LenderLedger!Credit

LEMMA LenderWithdrawDebits ==
  ASSUME VaultInv, NEW u \in Lenders, NEW amount \in Amounts, V!Withdraw(u, amount)
  PROVE  LenderLedger!Debit(u, amount)
<1> DEFINE rest == V!BalanceOf(u) - amount
           r == [principal |-> rest, userIndex |-> V!CurrentIndex]
<1>1. /\ V!UpdateGlobalIndex /\ now' = now /\ V!Transfer(VaultAddr, u, amount)
      /\ amount <= V!BalanceOf(u)
  BY DEF V!Withdraw
<1>2. u \in Accounts /\ amount \in Nat /\ V!BalanceOf(u) \in Nat /\ rest \in Nat
  BY <1>1, Constants, BalanceCovers DEF Lenders
<1>3. V!CurrentIndex' = V!CurrentIndex
  BY <1>1, StoredIndexIsRead
<1>4. LenderClaims' = [LenderClaims EXCEPT ![u] = rest]
  <2>1. CASE amount = V!BalanceOf(u) /\ V!WithdrawAll(u)
    <3>1. rest = 0
      BY <1>2, <2>1
    <3>2. QED
      BY <1>2, <1>3, <2>1, <3>1, LenderClaimMoves DEF V!WithdrawAll
  <2>2. CASE V!WithdrawPart(u, amount, V!BalanceOf(u))
    BY <1>2, <1>3, <2>2, LenderClaimMoves DEF V!WithdrawPart
  <2>3. QED
    BY <2>1, <2>2 DEF V!Withdraw
<1>5. LenderClaims[u] = V!BalanceOf(u)
  BY DEF LenderClaims
<1>6. QED
  BY <1>1, <1>2, <1>4, <1>5, WalletReceives DEF LenderLedger!Debit

(* Time only raises the vault's index, hence every balance, and raises no  *)
(* balance from zero.                                                      *)
LEMMA TimeRaisesIndex ==
  ASSUME VaultInv, V!Tick
  PROVE  /\ V!CurrentIndex \in Nat /\ V!CurrentIndex' \in Nat
         /\ V!CurrentIndex <= V!CurrentIndex'
<1> DEFINE Elapsed == now - lastUpdateTimestamp
           rate == interestRatePerSecond
           g == globalIndex
           later == ONE + rate * (now' - lastUpdateTimestamp)
<1>1. /\ now' = now + 1 /\ ONE \in Nat \ {0}
      /\ UNCHANGED <<globalIndex, lastUpdateTimestamp, interestRatePerSecond, totalPrincipal>>
  BY Constants DEF V!Tick, V!vaultVars
<1>2. /\ rate \in Nat /\ g \in Nat /\ now \in Nat
      /\ lastUpdateTimestamp \in Nat /\ lastUpdateTimestamp <= now
  BY DEF VaultInv, V!TypeOK, V!IndexDiscipline
<1>3. Elapsed \in Nat /\ now' - lastUpdateTimestamp \in Nat /\ Elapsed <= now' - lastUpdateTimestamp
  BY <1>1, <1>2
<1>4. /\ rate * Elapsed \in Nat /\ rate * (now' - lastUpdateTimestamp) \in Nat
      /\ rate * Elapsed <= rate * (now' - lastUpdateTimestamp)
  BY <1>2, <1>3, MulMonotone
<1>5. /\ V!InterestFactor \in Nat /\ later \in Nat /\ V!InterestFactor <= later
      /\ ONE <= later
  BY <1>1, <1>4 DEF V!InterestFactor
<1>6. V!CurrentIndex' = IF totalPrincipal = 0 THEN g ELSE (g * later) \div ONE
  BY <1>1, <1>2 DEF V!CurrentIndex, V!InterestFactor
<1> HIDE DEF later, rate, g
<1>7. /\ (g * later) \div ONE \in Nat /\ g <= (g * later) \div ONE
  BY <1>1, <1>2, <1>5, ScaleUp
<1>8. (g * V!InterestFactor) \div ONE <= (g * later) \div ONE
  <2>1. /\ g * V!InterestFactor \in Nat /\ g * later \in Nat
        /\ g * V!InterestFactor <= g * later
    BY <1>2, <1>5, MulMonotone
  <2>2. QED
    BY <1>1, <2>1, DivMonotone
<1>9. V!CurrentIndex \in Nat
  BY VaultIndexGrows
<1>10. /\ totalPrincipal = 0 => V!CurrentIndex = g
       /\ V!CurrentIndex \in {g, (g * V!InterestFactor) \div ONE}
  BY DEF V!CurrentIndex, g
<1>11. QED
  BY <1>2, <1>6, <1>7, <1>8, <1>9, <1>10

LEMMA LendersAccrue ==
  ASSUME VaultInv, V!Tick
  PROVE  LenderLedger!Accrue
<1>1. /\ now' = now + 1 /\ now \in Nat /\ tokens' = tokens /\ deposits' = deposits
  BY DEF VaultInv, V!TypeOK, V!Tick, V!vaultVars
<1>2. ASSUME NEW v \in Accounts
      PROVE  /\ V!BalanceOf(v)' \in Nat /\ V!BalanceOf(v) <= V!BalanceOf(v)'
             /\ V!BalanceOf(v) = 0 => V!BalanceOf(v)' = 0
  <2> DEFINE p == deposits[v].principal
             i == deposits[v].userIndex
  <2>1. p \in Nat /\ i \in Nat /\ V!BalanceOf(v) \in Nat /\ p <= V!BalanceOf(v)
    BY BalanceCovers DEF VaultInv, V!TypeOK
  <2>2. CASE p = 0
    BY <1>1, <2>2 DEF V!BalanceOf
  <2>3. CASE p > 0
    <3>1. i \in Nat \ {0}
      BY <2>1, <2>3, Constants DEF VaultInv, V!IndexDiscipline
    <3>2. /\ p * V!CurrentIndex \in Nat /\ p * V!CurrentIndex' \in Nat
          /\ p * V!CurrentIndex <= p * V!CurrentIndex'
      BY <2>1, TimeRaisesIndex, MulMonotone
    <3>3. /\ V!BalanceOf(v) = (p * V!CurrentIndex) \div i
          /\ V!BalanceOf(v)' = (p * V!CurrentIndex') \div i
      BY <1>1, <2>3 DEF V!BalanceOf, V!CalculateBalance
    <3>4. V!BalanceOf(v) <= V!BalanceOf(v)' /\ V!BalanceOf(v)' \in Nat
      BY <3>1, <3>2, <3>3, DivMonotone, DivBounds
    <3>5. QED
      BY <2>1, <2>3, <3>4
  <2>4. QED
    BY <2>1, <2>2, <2>3
<1>3. now' > now /\ LenderWallets' = LenderWallets
  BY <1>1 DEF LenderWallets
<1>4. LenderClaims' \in [Lenders -> Nat]
  BY <1>2 DEF LenderClaims, Lenders
<1>5. \A v \in Lenders : LenderClaims'[v] >= LenderClaims[v] /\ (LenderClaims[v] = 0 => LenderClaims'[v] = 0)
  BY <1>2, BalanceCovers DEF LenderClaims, Lenders
<1>6. QED
  BY <1>3, <1>4, <1>5 DEF LenderLedger!Accrue

(* Transactions of the vault's users and its owner.                        *)
LEMMA VaultStepKeepsLenderLedger ==
  ASSUME VaultInv, VaultStep
  PROVE  LenderStep
<1>1. ASSUME NEW u \in Accounts \ {PoolAddr}, NEW amount \in Amounts, V!Deposit(u, amount)
      PROVE  LenderStep
  <2>1. u \in Lenders /\ amount \in PartsOfAmounts
    BY Constants, PartOfAmount DEF Lenders
  <2>2. QED
    BY <1>1, <2>1, LenderDepositCredits DEF LenderLedger!LNext, LenderStep
<1>2. ASSUME NEW u \in Accounts \ {PoolAddr}, NEW amount \in Amounts, V!Withdraw(u, amount)
      PROVE  LenderStep
  <2>1. u \in Lenders /\ amount \in PartsOfAmounts
    BY Constants, PartOfAmount DEF Lenders
  <2>2. QED
    BY <1>2, <2>1, LenderWithdrawDebits DEF LenderLedger!LNext, LenderStep
<1>3. ASSUME NEW bps \in RateChoices, V!UpdateInterestRate(bps)
      PROVE  LenderStep
  <2>1. V!CurrentIndex' = V!CurrentIndex
    BY <1>3, StoredIndexIsRead DEF V!UpdateInterestRate
  <2>2. QED
    BY <1>3, <2>1, LenderClaimsStay DEF V!UpdateInterestRate, LenderWallets, LenderStep
<1>4. ASSUME UNCHANGED <<now, globalIndex, lastUpdateTimestamp, interestRatePerSecond,
                         totalPrincipal, deposits, tokens>>
      PROVE  LenderStep
  <2>1. V!CurrentIndex' = V!CurrentIndex
    BY <1>4 DEF V!CurrentIndex, V!InterestFactor
  <2>2. QED
    BY <1>4, <2>1, LenderClaimsStay DEF LenderWallets, LenderStep
<1>5. CASE V!Tick
  BY <1>5, LendersAccrue DEF LenderLedger!LNext, LenderStep
<1>6. QED
  BY <1>1, <1>2, <1>3, <1>4, <1>5 DEF VaultStep, V!UpdateMinDepositAmount, V!SetLendingPool

(* Transactions of the pool's users: what they borrow, repay and pay for a *)
(* liquidation moves wallets; the only record written is the pool's own.   *)
LEMMA PoolStepKeepsLenderLedger ==
  ASSUME PoolInv, PoolStep
  PROVE  LenderStep
<1>1. VaultInv /\ PoolBooks
  BY DEF PoolInv
<1>2. ASSUME NEW u \in Borrowers, NEW amount \in Amounts, NEW t \in CollateralTokens,
             NEW pledge \in CollateralAmounts, Borrow(u, amount, t, pledge)
      PROVE  LenderStep
  <2>1. V!Transfer(VaultAddr, u, amount) /\ UNCHANGED <<now, V!vaultVars>>
    BY <1>2 DEF Borrow, V!TransferLiquidity
  <2>2. V!CurrentIndex' = V!CurrentIndex /\ deposits' = deposits
    BY <2>1 DEF V!CurrentIndex, V!InterestFactor, V!vaultVars
  <2>3. amount \in Nat /\ amount \in PartsOfAmounts
    BY Constants, PartOfAmount
  <2>4. QED
    BY <1>1, <2>1, <2>2, <2>3, LenderClaimsStay, LoanIsLent
<1>3. ASSUME NEW u \in Borrowers, NEW amount \in Amounts, Repay(u, amount)
      PROVE  LenderStep
  <2> DEFINE debt == DebtAt(u, CurrentBorrowIndex)
             repaid == Lesser(amount, debt)
  <2>1. V!Transfer(u, VaultAddr, repaid) /\ UNCHANGED <<now, vaultVars>>
    BY <1>3 DEF Repay
  <2>2. V!CurrentIndex' = V!CurrentIndex /\ deposits' = deposits
    BY <2>1 DEF V!CurrentIndex, V!InterestFactor, vaultVars
  <2>3. debt \in Nat /\ amount \in Nat
    BY <1>1, DebtIsNat, Constants
  <2>4. repaid \in Nat /\ repaid <= amount
    BY <2>3 DEF Lesser
  <2>5. repaid \in PartsOfAmounts
    BY <2>4, PartOfAmount
  <2> HIDE DEF repaid
  <2>6. QED
    BY <1>1, <2>1, <2>2, <2>4, <2>5, LenderClaimsStay, PaymentIsGift
<1>4. ASSUME NEW u \in Borrowers, NEW liquidator \in Borrowers, NEW amount \in Amounts,
             Liquidate(liquidator, u, amount)
      PROVE  LenderStep
  <2> DEFINE debt == DebtAt(u, CurrentBorrowIndex)
             repaid == Lesser(amount, debt \div 2)
             p == V!BalanceOf(PoolAddr) + repaid
             r == [principal |-> p, userIndex |-> V!CurrentIndex]
  <2>1. V!DepositFrom(PoolAddr, liquidator, repaid)
    BY <1>4 DEF Liquidate
  <2>2. debt \in Nat /\ amount \in Nat
    BY <1>1, DebtIsNat, Constants
  <2>3. debt \div 2 \in Nat
    BY <2>2
  <2> HIDE DEF debt
  <2>4. repaid \in Nat /\ repaid <= amount
    BY <2>2, <2>3 DEF Lesser
  <2>5. repaid \in PartsOfAmounts
    BY <2>4, PartOfAmount
  <2> HIDE DEF repaid
  <2>6. /\ V!UpdateGlobalIndex /\ now' = now /\ V!Transfer(liquidator, VaultAddr, repaid)
        /\ deposits' = [deposits EXCEPT ![PoolAddr] = r]
    BY <2>1 DEF V!DepositFrom
  <2>7. V!CurrentIndex' = V!CurrentIndex
    BY <2>6, StoredIndexIsRead
  <2>8. PoolAddr \in Accounts /\ PoolAddr \notin Lenders /\ p \in Nat
    BY <1>1, <2>4, Constants, BalanceCovers DEF Lenders
  <2> HIDE DEF p
  <2>9. LenderClaims' = LenderClaims
    BY <1>1, <2>6, <2>7, <2>8, LenderClaimMoves
  <2>10. QED
    BY <1>1, <2>4, <2>5, <2>6, <2>9, PaymentIsGift
<1>5. QED
  BY <1>2, <1>3, <1>4 DEF PoolStep

LEMMA StepKeepsLenderLedger ==
  PoolInv /\ [Next]_vars => LenderStep
<1> SUFFICES ASSUME PoolInv, [Next]_vars PROVE LenderStep
  OBVIOUS
<1>1. CASE PoolStep
  BY <1>1, PoolStepKeepsLenderLedger
<1>2. CASE VaultStep
  BY <1>2, VaultStepKeepsLenderLedger DEF PoolInv
<1>3. CASE UNCHANGED <<now, tokens, vaultVars>>
  <2>1. V!CurrentIndex' = V!CurrentIndex /\ deposits' = deposits
    BY <1>3 DEF V!CurrentIndex, V!InterestFactor, vaultVars
  <2>2. QED
    BY <1>3, <2>1, LenderClaimsStay DEF LenderWallets, LenderStep
<1>4. QED
  BY <1>1, <1>2, <1>3 DEF Next, ConfigureStep, PriceMoves, SendToPool, vars

(* Under the whole composition, for any number of lenders, borrowers,      *)
(* tokens and amounts, lenders keep the ledger the vault alone promises    *)
(* its depositors: loans, repayments, liquidations, prices and the         *)
(* registry move none of their claims (LendingPool.sol, Vault.sol).        *)
THEOREM LendersKeepLedger == Spec => KeepsLenderLedger
<1>1. QED
  BY LenderLedgerInit, StepKeepsLenderLedger, PoolInvariant, PTL
  DEF Spec, KeepsLenderLedger, LenderLedger!LSpec, LenderLedger!lvars, LenderStep

-----------------------------------------------------------------------------
(* What the pool walks.  The registry's array names each token with a      *)
(* balance once, under every transaction of the composition, so the value  *)
(* found by walking it is that of all balances.                            *)
InStep(list, balances) ==
  /\ Distinct(list)
  /\ \A t \in CollateralTokens : balances[t] > 0 <=> Names(list, t)

ArraysInStep == \A u \in Borrowers : InStep(userCollateralTokens[u], userCollateral[u])

LEMMA PushKeepsStep ==
  ASSUME NEW list \in Seq(CollateralTokens), NEW balances \in [CollateralTokens -> Nat],
         InStep(list, balances), NEW t \in CollateralTokens, NEW amount \in Nat, amount > 0
  PROVE  InStep(R!PushToken(list, t, balances[t]), [balances EXCEPT ![t] = @ + amount])
<1> DEFINE new == [balances EXCEPT ![t] = @ + amount]
<1>1. /\ balances[t] \in Nat /\ new[t] = balances[t] + amount
      /\ \A s \in CollateralTokens : s # t => new[s] = balances[s]
  OBVIOUS
<1> HIDE DEF new
<1>2. CASE balances[t] # 0
  <2>1. R!PushToken(list, t, balances[t]) = list
    BY <1>2 DEF R!PushToken
  <2>2. \A s \in CollateralTokens : new[s] > 0 <=> balances[s] > 0
    BY <1>1, <1>2
  <2>3. InStep(list, new)
    BY <2>2 DEF InStep
  <2>4. QED
    BY <2>1, <2>3 DEF new
<1>3. CASE balances[t] = 0
  <2>1. Distinct(list) /\ ~Names(list, t)
    BY <1>3 DEF InStep
  <2>2. /\ Distinct(Append(list, t))
        /\ \A s : Names(Append(list, t), s) <=> Names(list, s) \/ s = t
    BY <2>1, AppendedName
  <2>3. R!PushToken(list, t, balances[t]) = Append(list, t)
    BY <1>3 DEF R!PushToken
  <2>4. ASSUME NEW s \in CollateralTokens PROVE new[s] > 0 <=> Names(Append(list, t), s)
    <3>1. balances[s] > 0 <=> Names(list, s)
      BY DEF InStep
    <3>2. CASE s = t
      BY <1>1, <2>2, <3>2
    <3>3. CASE s # t
      BY <1>1, <2>2, <3>1, <3>3
    <3>4. QED
      BY <3>2, <3>3
  <2>5. InStep(Append(list, t), new)
    BY <2>2, <2>4 DEF InStep
  <2>6. QED
    BY <2>3, <2>5 DEF new
<1>4. QED
  BY <1>2, <1>3

LEMMA RemoveKeepsStep ==
  ASSUME NEW list \in Seq(CollateralTokens), NEW balances \in [CollateralTokens -> Nat],
         InStep(list, balances), NEW t \in CollateralTokens, balances[t] > 0
  PROVE  InStep(R!RemoveToken(list, t), [balances EXCEPT ![t] = 0])
<1> DEFINE at == CHOOSE k \in DOMAIN list : R!IsFirst(list, k, t)
           cut == [j \in 1..(Len(list) - 1) |-> IF j = at THEN list[Len(list)] ELSE list[j]]
           new == [balances EXCEPT ![t] = 0]
<1>1. Distinct(list) /\ Names(list, t)
  BY DEF InStep
<1>2. at \in DOMAIN list /\ list[at] = t
  <2>1. PICK i \in DOMAIN list : list[i] = t
    BY <1>1 DEF Names
  <2>2. R!IsFirst(list, i, t)
    BY <1>1, <2>1 DEF R!IsFirst, Distinct
  <2>3. QED
    BY <2>1, <2>2 DEF R!IsFirst
<1>3. R!RemoveToken(list, t) = cut
  BY <1>1 DEF R!RemoveToken, Names
<1>4. cut = [j \in 1..(Len(list) - 1) |-> IF j = at THEN list[Len(list)] ELSE list[j]]
  OBVIOUS
<1> HIDE DEF at, cut
<1>5. /\ cut \in Seq(CollateralTokens) /\ Distinct(cut)
      /\ \A s : Names(cut, s) <=> Names(list, s) /\ s # list[at]
  BY <1>1, <1>2, <1>4, PoppedName
<1>6. new[t] = 0 /\ \A s \in CollateralTokens : s # t => new[s] = balances[s]
  OBVIOUS
<1> HIDE DEF new
<1>7. InStep(cut, new)
  BY <1>2, <1>5, <1>6 DEF InStep
<1>8. QED
  BY <1>3, <1>7 DEF new

LEMMA PledgeKeepsArrays ==
  ASSUME R!RegistryTypeOK, ArraysInStep, NEW u \in Borrowers, NEW t \in CollateralTokens,
         NEW amount \in Nat, R!DepositCollateral(u, t, amount)
  PROVE  ArraysInStep'
<1> DEFINE list == R!PushToken(userCollateralTokens[u], t, userCollateral[u][t])
           balances == [userCollateral[u] EXCEPT ![t] = @ + amount]
<1>1. /\ userCollateral \in [Borrowers -> [CollateralTokens -> Nat]]
      /\ userCollateralTokens \in [Borrowers -> Seq(CollateralTokens)]
      /\ amount > 0
  BY DEF R!RegistryTypeOK, R!DepositCollateral
<1>2. InStep(list, balances)
  BY <1>1, PushKeepsStep DEF ArraysInStep
<1>3. /\ userCollateral' = [userCollateral EXCEPT ![u] = balances]
      /\ userCollateralTokens' = [userCollateralTokens EXCEPT ![u] = list]
  BY <1>1 DEF R!DepositCollateral
<1> HIDE DEF list, balances
<1>4. \A v \in Borrowers : InStep(userCollateralTokens'[v], userCollateral'[v])
  BY <1>1, <1>2, <1>3 DEF ArraysInStep
<1>5. QED
  BY <1>4 DEF ArraysInStep, InStep, Distinct, Names

LEMMA SeizureKeepsArrays ==
  ASSUME R!RegistryTypeOK, ArraysInStep, NEW u \in Borrowers, NEW t \in CollateralTokens,
         NEW amount \in Nat, R!SeizeCollateral(u, t, amount)
  PROVE  ArraysInStep'
<1> DEFINE seized == R!SeizedAmount(u, t, amount)
           held == userCollateral[u][t]
           list == IF held = seized THEN R!RemoveToken(userCollateralTokens[u], t)
                   ELSE userCollateralTokens[u]
           balances == [userCollateral[u] EXCEPT ![t] = @ - seized]
<1>1. /\ userCollateral \in [Borrowers -> [CollateralTokens -> Nat]]
      /\ userCollateralTokens \in [Borrowers -> Seq(CollateralTokens)]
      /\ userCollateral[u] \in [CollateralTokens -> Nat]
      /\ held \in Nat
  BY DEF R!RegistryTypeOK
<1>2. seized \in Nat /\ held >= seized
  BY <1>1 DEF R!SeizedAmount
<1>3. CASE ~(seized > 0)
  BY <1>3 DEF R!SeizeCollateral, R!registryVars, ArraysInStep, InStep, Distinct, Names
<1>4. CASE seized > 0
  <2>1. R!Release(u, t, seized)
    BY <1>4 DEF R!SeizeCollateral
  <2> HIDE DEF seized
  <2>2. /\ userCollateral' = [userCollateral EXCEPT ![u] = balances]
        /\ userCollateralTokens' = [userCollateralTokens EXCEPT ![u] = list]
    BY <1>1, <2>1 DEF R!Release
  <2>3. InStep(userCollateralTokens[u], userCollateral[u])
    BY DEF ArraysInStep
  <2>4. InStep(list, balances)
    <3>1. CASE held = seized
      <4>1. balances = [userCollateral[u] EXCEPT ![t] = 0]
        BY <1>1, <1>2, <3>1
      <4>2. held > 0 /\ userCollateralTokens[u] \in Seq(CollateralTokens)
        BY <1>1, <1>4, <3>1
      <4>3. QED
        BY <1>1, <2>3, <3>1, <4>1, <4>2, RemoveKeepsStep
    <3>2. CASE held # seized
      <4>1. \A s \in CollateralTokens : balances[s] > 0 <=> userCollateral[u][s] > 0
        <5>1. balances[t] = held - seized /\ held - seized > 0 /\ held > 0
          BY <1>1, <1>2, <3>2
        <5>2. \A s \in CollateralTokens : s # t => balances[s] = userCollateral[u][s]
          BY <1>1
        <5> HIDE DEF balances
        <5>3. QED
          BY <5>1, <5>2
      <4>2. list = userCollateralTokens[u]
        BY <3>2
      <4> HIDE DEF balances, list
      <4>3. QED
        BY <2>3, <4>1, <4>2 DEF InStep
    <3>3. QED
      BY <3>1, <3>2
  <2> HIDE DEF list, balances
  <2>5. \A v \in Borrowers : InStep(userCollateralTokens'[v], userCollateral'[v])
    BY <1>1, <2>2, <2>4 DEF ArraysInStep
  <2>6. QED
    BY <2>5 DEF ArraysInStep, InStep, Distinct, Names
<1>5. QED
  BY <1>3, <1>4

LEMMA StepKeepsArrays ==
  ASSUME PoolInv, ArraysInStep, [Next]_vars
  PROVE  ArraysInStep'
<1>1. R!RegistryTypeOK /\ VaultInv /\ PoolBooks /\ PricesOK
  BY DEF PoolInv
<1>2. ASSUME NEW u \in Borrowers, NEW amount \in Amounts, NEW t \in CollateralTokens,
             NEW pledge \in CollateralAmounts, Borrow(u, amount, t, pledge)
      PROVE  ArraysInStep'
  BY <1>1, <1>2, Constants, PledgeKeepsArrays DEF Borrow
<1>3. ASSUME NEW u \in Borrowers, NEW liquidator \in Borrowers, NEW amount \in Amounts,
             Liquidate(liquidator, u, amount)
      PROVE  ArraysInStep'
  <2> DEFINE debt == DebtAt(u, CurrentBorrowIndex)
             repaid == Lesser(amount, debt \div 2)
             t == userCollateralTokens[u][1]
  <2>1. /\ userCollateralTokens[u] # << >> /\ price[t] > 0
        /\ R!SeizeCollateral(u, t, SeizeValue(t, repaid))
    BY <1>3 DEF Liquidate
  <2>2. t \in CollateralTokens
    <3>1. userCollateralTokens[u] \in Seq(CollateralTokens)
      BY <1>1 DEF R!RegistryTypeOK
    <3>2. QED
      BY <2>1, <3>1
  <2>3. repaid \in Nat
    <3>1. debt \in Nat /\ amount \in Nat
      BY <1>1, DebtIsNat, Constants
    <3> HIDE DEF debt
    <3>2. debt \div 2 \in Nat
      BY <3>1
    <3>3. QED
      BY <3>1, <3>2 DEF Lesser
  <2> HIDE DEF t, repaid
  <2>4. SeizeValue(t, repaid) \in Nat
    BY <1>1, <2>1, <2>2, <2>3, SeizeValueIsNat
  <2>5. QED
    BY <1>1, <2>1, <2>2, <2>4, SeizureKeepsArrays
<1>4. CASE UNCHANGED <<userCollateral, userCollateralTokens>>
  BY <1>4 DEF ArraysInStep, InStep, Distinct, Names
<1>5. QED
  BY <1>2, <1>3, <1>4
  DEF Next, PoolStep, Repay, VaultStep, ConfigureStep, R!ConfigureCollateral, PriceMoves,
      SendToPool, vars, registryVars

(* A token without a balance is worth nothing, whatever its price.         *)
LEMMA ValuesAddUp ==
  ASSUME PoolInv, ArraysInStep
  PROVE  PledgesCountOnce
<1> SUFFICES ASSUME NEW u \in Borrowers PROVE CollateralValue(u) = SumFunction(Values(u))
  BY DEF PledgesCountOnce
<1> DEFINE list == userCollateralTokens[u]
           f == Values(u)
<1>1. /\ list \in Seq(CollateralTokens) /\ IsFiniteSet(CollateralTokens)
      /\ Distinct(list) /\ \A t \in CollateralTokens : userCollateral[u][t] > 0 <=> Names(list, t)
      /\ \A t \in CollateralTokens : userCollateral[u][t] \in Nat /\ price[t] \in Nat
  <2>1. IsFiniteSet(CollateralTokens) /\ Prices \subseteq Nat
    BY PoolConstants
  <2>2. R!RegistryTypeOK /\ PricesOK /\ InStep(list, userCollateral[u])
    BY DEF PoolInv, ArraysInStep
  <2>3. QED
    BY <2>1, <2>2 DEF R!RegistryTypeOK, PricesOK, InStep
<1>2. \A t \in CollateralTokens : f[t] = TokenValue(u, t)
  BY DEF Values
<1>3. \A t \in CollateralTokens : TokenValue(u, t) \in Nat
  <2>1. TAKE t \in CollateralTokens
  <2>2. userCollateral[u][t] * price[t] \in Nat
    BY <1>1
  <2>3. QED
    BY <2>2, Constants, DivBounds DEF TokenValue
<1>4. \A t \in CollateralTokens : ~Names(list, t) => f[t] = 0
  <2>1. SUFFICES ASSUME NEW t \in CollateralTokens, ~Names(list, t) PROVE TokenValue(u, t) = 0
    BY <1>2
  <2>2. userCollateral[u][t] = 0
    BY <1>1, <2>1
  <2>3. 0 * price[t] = 0 /\ 0 \div ValueScale = 0
    BY <1>1, Constants
  <2>4. QED
    BY <2>2, <2>3 DEF TokenValue
<1>5. f \in [CollateralTokens -> Int]
  BY <1>3 DEF Values
<1> HIDE DEF f
<1> DEFINE g == [i \in DOMAIN list |-> TokenValue(u, list[i])]
<1>6. \A i \in DOMAIN list : list[i] \in CollateralTokens
  BY <1>1
<1>7. g \in [DOMAIN list -> Int] /\ \A i \in DOMAIN list : g[i] = f[list[i]]
  BY <1>2, <1>3, <1>6
<1>8. CollateralValue(u) = SumFunction(g)
  BY DEF CollateralValue
<1>9. SumFunction(g) = SumFunction(f)
  <2>1. list \in Seq(CollateralTokens) /\ IsFiniteSet(CollateralTokens) /\ Distinct(list)
    BY <1>1
  <2> HIDE DEF g, list
  <2>2. QED
    BY <1>4, <1>5, <1>7, <2>1, WalkAddsUp
<1>10. QED
  BY <1>8, <1>9 DEF f

(* The value a borrower's loans are measured against is that of everything *)
(* he has pledged, each token counted once, for any number of tokens and   *)
(* any order of pledges and seizures (_getCollateralValue, CollateralRegistry). *)
THEOREM CollateralCountsOnce == Spec => []PledgesCountOnce
<1>1. Init => ArraysInStep
  <2>1. DOMAIN << >> = {}
    OBVIOUS
  <2>2. QED
    BY <2>1 DEF Init, R!RegistryInit, ArraysInStep, InStep, Distinct, Names
<1>2. PoolInv /\ ArraysInStep /\ [Next]_vars => ArraysInStep'
  BY StepKeepsArrays
<1>3. PoolInv /\ ArraysInStep => PledgesCountOnce
  BY ValuesAddUp
<1>4. QED
  BY <1>1, <1>2, <1>3, PoolInvariant, PTL DEF Spec
=============================================================================
