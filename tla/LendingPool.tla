---------------------------- MODULE LendingPool ----------------------------
(***************************************************************************)
(* contracts/LendingPool.sol, composed with the vault it lends from and    *)
(* the collateral registry it keeps its books in.  A call from one         *)
(* contract to another happens inside the caller's transaction, so it is   *)
(* the callee's action conjoined into the caller's.  Vault transactions    *)
(* interleave with the pool's; both read the same block.timestamp.         *)
(* The price of a token is what OracleManager answers, 0 when it reverts.  *)
(***************************************************************************)
EXTENDS Integers, Sequences, Functions, FiniteSets

CONSTANTS
  Accounts, Borrowers, PoolChoices, VaultAddr, NoPool, ONE, BpsYear, MaxRateBps,
  DeployRateBps, DeployMinimum, Amounts, RateChoices, MinimumChoices,
  InitialTokens, MaxTime,                           \* as in Vault
  CollateralTokens, CollateralAmounts, MaxCollateral, Bps, ConfigChoices,
                                                    \* as in CollateralRegistry
  PoolAddr, RegistryAddr,                           \* the contracts' addresses
  BaseBorrowRate, OptimalUtilization, Slope1, Slope2,  \* rate model, in Bps
  LIQUIDATION_BONUS, LIQUIDATION_THRESHOLD,         \* in Bps
  ValueScale,                                       \* 1e18 * 1e2: collateral to asset units
  AssetPrices, Prices,                              \* what the oracle may answer
  InitialCollateral                                 \* tokens each borrower starts with

(* The contracts' addresses differ, and the vault starts empty.            *)
ASSUME PoolConstants ==
  /\ IsFiniteSet(Accounts) /\ IsFiniteSet(Borrowers) /\ IsFiniteSet(CollateralTokens)
  /\ PoolAddr \in Accounts \cap PoolChoices /\ PoolAddr \notin Borrowers
  /\ RegistryAddr \notin Borrowers \cup {PoolAddr}
  /\ VaultAddr \notin Accounts \cup Borrowers
  /\ {ONE, BpsYear, Bps, ValueScale} \subseteq Nat \ {0}
  /\ {DeployRateBps, DeployMinimum, InitialCollateral} \subseteq Nat
  /\ {BaseBorrowRate, OptimalUtilization, Slope1, Slope2} \subseteq Nat
  /\ {LIQUIDATION_BONUS, LIQUIDATION_THRESHOLD} \subseteq Nat
  /\ UNION {Amounts, RateChoices, MinimumChoices, CollateralAmounts, AssetPrices, Prices} \subseteq Nat
  /\ InitialTokens \in [Accounts \cup Borrowers \cup {VaultAddr} -> Nat]
  /\ InitialTokens[VaultAddr] = 0

VARIABLES
  now, globalIndex, lastUpdateTimestamp, interestRatePerSecond, totalPrincipal,
  minDepositAmount, lendingPool, deposits, tokens,     \* the vault
  collateralConfigs, userCollateral, userCollateralTokens, totalCollateral,
                                                       \* the registry
  globalBorrowIndex, lastBorrowUpdateTimestamp, totalBorrowed,
  borrowPositions,                                     \* the pool
  collateralHeld,                                      \* token -> holder -> amount (ERC-20)
  price, assetPrice                                    \* the oracle's answers

V == INSTANCE Vault
R == INSTANCE CollateralRegistry WITH Users <- Borrowers

vaultVars == <<globalIndex, lastUpdateTimestamp, interestRatePerSecond,
               totalPrincipal, minDepositAmount, lendingPool, deposits>>
registryVars == <<collateralConfigs, userCollateral, userCollateralTokens, totalCollateral>>
poolVars == <<globalBorrowIndex, lastBorrowUpdateTimestamp, totalBorrowed, borrowPositions>>
oracleVars == <<price, assetPrice>>
vars == <<now, tokens, vaultVars, registryVars, poolVars, collateralHeld, oracleVars>>

NoPosition == [principal |-> 0, borrowIndex |-> 0]
CollateralHolders == Borrowers \cup {PoolAddr, RegistryAddr}

Init ==
  /\ V!Init
  /\ R!RegistryInit
  /\ globalBorrowIndex = ONE
  /\ lastBorrowUpdateTimestamp = now
  /\ totalBorrowed = 0
  /\ borrowPositions = [u \in Borrowers |-> NoPosition]
  /\ collateralHeld = [t \in CollateralTokens |-> [h \in CollateralHolders |->
                         IF h \in Borrowers THEN InitialCollateral ELSE 0]]
  /\ price \in [CollateralTokens -> Prices]
  /\ assetPrice \in AssetPrices

-----------------------------------------------------------------------------
(* The borrow index.  The rate is that of the utilization now, applied to  *)
(* the whole time since the last pool transaction.                         *)
Utilization ==
  IF V!TotalAssets = 0 THEN 0 ELSE (totalBorrowed * Bps) \div V!TotalAssets

CalculateBorrowRate(utilization) ==
  IF utilization <= OptimalUtilization
  THEN BaseBorrowRate + (utilization * Slope1) \div Bps
  ELSE BaseBorrowRate + (OptimalUtilization * Slope1) \div Bps
         + ((utilization - OptimalUtilization) * Slope2) \div Bps

BorrowFactor ==
  ONE + V!RatePerSecond(CalculateBorrowRate(Utilization)) * (now - lastBorrowUpdateTimestamp)

CurrentBorrowIndex ==
  IF totalBorrowed = 0 \/ now = lastBorrowUpdateTimestamp
  THEN globalBorrowIndex
  ELSE (globalBorrowIndex * BorrowFactor) \div ONE

BorrowIndexNotStored == lastBorrowUpdateTimestamp' = now /\ UNCHANGED globalBorrowIndex
UpdateBorrowIndex ==
  /\ lastBorrowUpdateTimestamp' = now
  /\ globalBorrowIndex' = CurrentBorrowIndex

CalculateDebt(principal, userIndex, index) == (principal * index) \div userIndex

(* What a user owes when the index stands at `index'. *)
DebtAt(u, index) ==
  IF borrowPositions[u].principal = 0
  THEN 0
  ELSE CalculateDebt(borrowPositions[u].principal, borrowPositions[u].borrowIndex, index)

GetUserDebt(u) == DebtAt(u, CurrentBorrowIndex)

(* Value in asset units of everything the registry lists for the user.     *)
TokenValue(u, t) == (userCollateral[u][t] * price[t]) \div ValueScale
CollateralValue(u) ==
  SumFunction([i \in DOMAIN userCollateralTokens[u] |-> TokenValue(u, userCollateralTokens[u][i])])

Priced(u) == \A i \in DOMAIN userCollateralTokens[u] : price[userCollateralTokens[u][i]] > 0

(* getHealthFactor >= MIN_HEALTH_FACTOR, at the stored index: 1e18 cancels, *)
(* and a quotient is at least the unit when its dividend is.                *)
Healthy(u) ==
  LET debt == DebtAt(u, globalBorrowIndex) IN
  debt = 0 \/ CollateralValue(u) * LIQUIDATION_THRESHOLD >= debt * Bps

MoveCollateral(t, from, to, amount) ==
  /\ collateralHeld[t][from] >= amount
  /\ collateralHeld' = [collateralHeld EXCEPT ![t][from] = @ - amount, ![t][to] = @ + amount]

WritePosition(u, debt) ==
  borrowPositions' = [borrowPositions EXCEPT ![u] =
    IF debt = 0 THEN NoPosition ELSE [principal |-> debt, borrowIndex |-> CurrentBorrowIndex]]

-----------------------------------------------------------------------------
(* borrow: pledge, record the debt on top of the interest owed so far, and *)
(* only then look at the health factor and take the liquidity.             *)
BorrowForgetsInterest(u, amount) ==
  WritePosition(u, borrowPositions[u].principal + amount)
BorrowOverwrites(u, amount) == WritePosition(u, amount)
RecordBorrow(u, amount) == WritePosition(u, DebtAt(u, CurrentBorrowIndex) + amount)

BorrowChecksOldHealth(u) == Healthy(u)
BorrowLeavesHealthy(u) == Priced(u)' /\ Healthy(u)'

PledgeToPool(u, t, pledge) == MoveCollateral(t, u, PoolAddr, pledge)
TakePledge(u, t, pledge) == MoveCollateral(t, u, RegistryAddr, pledge)

Borrow(u, amount, t, pledge) ==
  /\ amount > 0
  /\ UpdateBorrowIndex
  /\ TakePledge(u, t, pledge)
  /\ R!DepositCollateral(u, t, pledge)
  /\ RecordBorrow(u, amount)
  /\ totalBorrowed' = totalBorrowed + amount
  /\ V!TransferLiquidity(PoolAddr, u, amount)
  /\ UNCHANGED oracleVars
  /\ BorrowLeavesHealthy(u)

(* repay: tokens go straight back to the vault; totalBorrowed falls by all *)
(* that is repaid, interest included, and reverts below zero.              *)
Lesser(a, b) == IF a < b THEN a ELSE b

TotalUnchecked(repaid) == totalBorrowed' = totalBorrowed - repaid
TotalKept(repaid) == totalBorrowed >= repaid /\ UNCHANGED totalBorrowed
LowerTotalBorrowed(repaid) ==
  /\ totalBorrowed >= repaid
  /\ totalBorrowed' = totalBorrowed - repaid

Repay(u, amount) ==
  LET debt == DebtAt(u, CurrentBorrowIndex)
      repaid == Lesser(amount, debt)
  IN
  /\ amount > 0
  /\ borrowPositions[u].principal > 0
  /\ UpdateBorrowIndex
  /\ V!Transfer(u, VaultAddr, repaid)
  /\ WritePosition(u, debt - repaid)
  /\ LowerTotalBorrowed(repaid)
  /\ UNCHANGED <<now, vaultVars, registryVars, collateralHeld, oracleVars>>

(* liquidate: at most half of the debt is repaid by the liquidator, through *)
(* the pool into a vault deposit in the pool's name; the first token of the *)
(* borrower's array is seized for it, and the pool pays the liquidator out  *)
(* of its own holding of that token.                                        *)
SeizeValue(t, repaid) ==
  (repaid * assetPrice * (Bps + LIQUIDATION_BONUS)) \div (price[t] * Bps)

Unhealthy(u) ==
  LET debt == DebtAt(u, CurrentBorrowIndex) IN
  debt > 0 /\ CollateralValue(u) * LIQUIDATION_THRESHOLD < debt * Bps

Liquidate(liquidator, u, amount) ==
  LET debt == DebtAt(u, CurrentBorrowIndex)
      repaid == Lesser(amount, debt \div 2)
      t == userCollateralTokens[u][1]
      seized == R!SeizedAmount(u, t, SeizeValue(t, repaid))
  IN
  /\ amount > 0
  /\ UpdateBorrowIndex
  /\ Priced(u) /\ Unhealthy(u)
  /\ V!DepositFrom(PoolAddr, liquidator, repaid)
  /\ userCollateralTokens[u] # << >>
  /\ price[t] > 0 /\ assetPrice > 0
  /\ R!SeizeCollateral(u, t, SeizeValue(t, repaid))
  /\ MoveCollateral(t, PoolAddr, liquidator, seized)
  /\ WritePosition(u, debt - repaid)
  /\ LowerTotalBorrowed(repaid)
  /\ UNCHANGED oracleVars

-----------------------------------------------------------------------------
(* The rest of the system: vault users and owners, the registry's admin,   *)
(* prices, and collateral tokens someone sends to the pool's address.      *)
VaultStep ==
  /\ \/ \E u \in Accounts \ {PoolAddr}, amount \in Amounts :
          V!Deposit(u, amount) \/ V!Withdraw(u, amount)
     \/ \E bps \in RateChoices : V!UpdateInterestRate(bps)
     \/ \E minimum \in MinimumChoices : V!UpdateMinDepositAmount(minimum)
     \/ \E pool \in PoolChoices : V!SetLendingPool(pool)
     \/ V!Tick
  /\ UNCHANGED <<registryVars, poolVars, collateralHeld, oracleVars>>

ConfigureStep ==
  /\ \E t \in CollateralTokens, config \in ConfigChoices : R!ConfigureCollateral(t, config)
  /\ UNCHANGED <<now, tokens, vaultVars, poolVars, collateralHeld, oracleVars>>

PriceMoves ==
  /\ \/ \E t \in CollateralTokens, p \in Prices : price' = [price EXCEPT ![t] = p] /\ UNCHANGED assetPrice
     \/ \E p \in AssetPrices : assetPrice' = p /\ UNCHANGED price
  /\ UNCHANGED <<now, tokens, vaultVars, registryVars, poolVars, collateralHeld>>

SendToPool(u, t, amount) ==
  /\ MoveCollateral(t, u, PoolAddr, amount)
  /\ UNCHANGED <<now, tokens, vaultVars, registryVars, poolVars, oracleVars>>

PoolStep ==
  \E u \in Borrowers, amount \in Amounts :
    \/ \E t \in CollateralTokens, pledge \in CollateralAmounts : Borrow(u, amount, t, pledge)
    \/ Repay(u, amount)
    \/ \E liquidator \in Borrowers : Liquidate(liquidator, u, amount)

Next ==
  \/ PoolStep
  \/ VaultStep
  \/ ConfigureStep
  \/ PriceMoves
  \/ \E u \in Borrowers, t \in CollateralTokens, amount \in CollateralAmounts :
       SendToPool(u, t, amount)

Spec == Init /\ [][Next]_vars

-----------------------------------------------------------------------------
(* Types, and the index discipline of the pool: a position was written at  *)
(* a positive index no later than the stored one.                          *)
TypeOK ==
  /\ V!TypeOK /\ V!IndexDiscipline
  /\ R!RegistryTypeOK
  /\ globalBorrowIndex \in Nat /\ lastBorrowUpdateTimestamp \in Nat /\ totalBorrowed \in Nat
  /\ borrowPositions \in [Borrowers -> [principal : Nat, borrowIndex : Nat]]
  /\ collateralHeld \in [CollateralTokens -> [CollateralHolders -> Nat]]
  /\ price \in [CollateralTokens -> Prices] /\ assetPrice \in AssetPrices

BorrowIndexDiscipline ==
  /\ ONE <= globalBorrowIndex
  /\ lastBorrowUpdateTimestamp <= now
  /\ \A u \in Borrowers : borrowPositions[u].principal > 0 =>
       /\ ONE <= borrowPositions[u].borrowIndex
       /\ borrowPositions[u].borrowIndex <= globalBorrowIndex

(* totalBorrowed never exceeds what the positions add up to: it counts     *)
(* loans paid out less all repayments, while positions also grow by        *)
(* interest (LendingPool.sol:105, :143, :195).                             *)
Loans == [u \in Borrowers |-> borrowPositions[u].principal]
PositionsCoverTotalBorrowed == totalBorrowed <= SumFunction(Loans)

(* Every pledged token is there: the registry's address holds at least     *)
(* what its books say users have pledged (LendingPool.sol:89, :183).       *)
PledgesAreHeld ==
  \A t \in CollateralTokens : totalCollateral[t] <= collateralHeld[t][RegistryAddr]

(* Lenders' principal is in the vault or lent out: as long as the savings  *)
(* index has not moved, the vault's tokens and the loans cover exactly     *)
(* what lenders have put in.  The deposit a liquidation makes in the       *)
(* pool's own name (LendingPool.sol:170) is no lender's, and is left out.  *)
LendersAreBacked ==
  globalIndex = ONE =>
    tokens[VaultAddr] + totalBorrowed = totalPrincipal - deposits[PoolAddr].principal

(* Walking the registry's array counts everything a user has pledged, and  *)
(* once: the value his loans are measured against is that of all his       *)
(* balances, whatever he has pledged, topped up or lost to a liquidator    *)
(* (LendingPool.sol:299, CollateralRegistry.sol:94-156).                   *)
Values(u) == [t \in CollateralTokens |-> TokenValue(u, t)]
PledgesCountOnce == \A u \in Borrowers : CollateralValue(u) = SumFunction(Values(u))

(* Whenever a position is written, what its owner owes, interest to this   *)
(* moment included, changes by exactly the tokens that leave or enter the  *)
(* vault in that transaction: interest is never dropped on the way to a    *)
(* new principal, and no repayment is lost (borrow, repay, liquidate).     *)
Owed(u) == DebtAt(u, globalBorrowIndex)
DebtMatchesTokens ==
  [][\A u \in Borrowers :
       borrowPositions'[u] # borrowPositions[u]
         => Owed(u)' - GetUserDebt(u) = tokens[VaultAddr] - tokens'[VaultAddr]]_vars

(* Debt grows only against collateral: whoever owes more after a           *)
(* transaction than he owed to the second before it, interest included, is *)
(* healthy when it ends (LendingPool.sol:107-109).                         *)
LoansAreCovered ==
  [][\A u \in Borrowers : Owed(u)' > GetUserDebt(u) => Healthy(u)']_vars

(* Lenders need not know that there is a pool: for all that it borrows,    *)
(* takes back and liquidates, they have the ledger the vault promises      *)
(* them, where only their own deposits and withdrawals move a claim, one   *)
(* for one, and otherwise only time does.  What they borrow themselves or  *)
(* pay as borrowers and liquidators changes their wallets alone.           *)
Lenders == Accounts \ {PoolAddr}
LenderClaims == [u \in Lenders |-> V!BalanceOf(u)]
LenderWallets == [u \in Lenders |-> tokens[u]]
PartsOfAmounts == UNION {0..amount : amount \in Amounts}

LenderLedger == INSTANCE DepositLedger
  WITH Accounts <- Lenders, Amounts <- PartsOfAmounts,
       clock <- now, claim <- LenderClaims, wallet <- LenderWallets
KeepsLenderLedger == LenderLedger!LSpec
=============================================================================
