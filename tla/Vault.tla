------------------------------- MODULE Vault -------------------------------
(***************************************************************************)
(* contracts/Vault.sol: the savings vault with a global interest index.    *)
(* Each public function is one action, a transaction being atomic; a       *)
(* transaction that reverts changes nothing, so every require() and every  *)
(* checked subtraction is a guard.  Numbers are integers with Solidity's   *)
(* truncating division; ONE is the fixed-point unit (1e18) and BpsYear the *)
(* divisor 10000 * 365 days.  The 256-bit upper bound is left out (no sum  *)
(* or product comes near it); zero, the lower bound, is not.               *)
(***************************************************************************)
EXTENDS Integers, Functions, FiniteSets

CONSTANTS
  Accounts,       \* addresses that may deposit
  Borrowers,      \* addresses liquidity may be sent to
  PoolChoices,    \* addresses the owner may name as lending pool
  VaultAddr,      \* the vault's own address
  NoPool,         \* address(0), the lending pool before setLendingPool
  ONE,            \* fixed-point one
  BpsYear,        \* basis points per unit times seconds per year
  MaxRateBps,     \* the cap of updateInterestRate
  DeployRateBps,  \* constructor argument
  DeployMinimum,  \* constructor argument
  Amounts,        \* token amounts calls may name
  RateChoices,    \* annual rates the owner may ask for
  MinimumChoices, \* minimum deposits the owner may set
  InitialTokens,  \* holder -> asset tokens before deployment
  MaxTime         \* bound: the model's last timestamp

ASSUME VaultConstants ==
  /\ IsFiniteSet(Accounts)
  /\ VaultAddr \notin Accounts \cup Borrowers
  /\ NoPool \notin Accounts \cup PoolChoices
  /\ ONE \in Nat \ {0} /\ BpsYear \in Nat \ {0} /\ 2 * BpsYear <= ONE
  /\ MaxRateBps \in Nat /\ DeployRateBps \in Nat /\ DeployMinimum \in Nat
  /\ Amounts \subseteq Nat /\ RateChoices \subseteq Nat /\ MinimumChoices \subseteq Nat
  /\ InitialTokens \in [Accounts \cup Borrowers \cup {VaultAddr} -> Nat]
  /\ MaxTime \in Nat

VARIABLES
  now,                    \* block.timestamp
  globalIndex,
  lastUpdateTimestamp,
  interestRatePerSecond,
  totalPrincipal,
  minDepositAmount,
  lendingPool,
  deposits,               \* address -> UserDeposit
  tokens                  \* balances of the asset (ERC-20, external)

vaultVars == <<globalIndex, lastUpdateTimestamp, interestRatePerSecond,
               totalPrincipal, minDepositAmount, lendingPool, deposits>>
vars == <<now, globalIndex, lastUpdateTimestamp, interestRatePerSecond,
          totalPrincipal, minDepositAmount, lendingPool, deposits, tokens>>

Holders == Accounts \cup Borrowers \cup {VaultAddr}

NoDeposit == [principal |-> 0, userIndex |-> 0]

(* The per-second rate stored for an annual rate, and the annual rate that *)
(* getAnnualRate shows for it (rounded to the nearest basis point).        *)
RatePerSecond(bps) == (bps * ONE) \div BpsYear
GetAnnualRateFloored == (interestRatePerSecond * BpsYear) \div ONE
GetAnnualRate == (interestRatePerSecond * BpsYear + ONE \div 2) \div ONE

Init ==
  /\ now = 0
  /\ globalIndex = ONE
  /\ lastUpdateTimestamp = now
  /\ interestRatePerSecond = RatePerSecond(DeployRateBps)
  /\ totalPrincipal = 0
  /\ minDepositAmount = DeployMinimum
  /\ lendingPool = NoPool
  /\ deposits = [u \in Accounts |-> NoDeposit]
  /\ tokens = InitialTokens

-----------------------------------------------------------------------------
(* The index.  CurrentIndex is what a view function reads; a transaction   *)
(* stores the same value through UpdateGlobalIndex before it does anything *)
(* else.  With no principal the clock is moved and the index is not.       *)
InterestFactor == ONE + interestRatePerSecond * (now - lastUpdateTimestamp)

CurrentIndex ==
  IF totalPrincipal = 0 \/ now = lastUpdateTimestamp
  THEN globalIndex
  ELSE (globalIndex * InterestFactor) \div ONE

ClockKeptWhileEmpty ==
  IF totalPrincipal = 0
  THEN UNCHANGED <<lastUpdateTimestamp, globalIndex>>
  ELSE lastUpdateTimestamp' = now /\ globalIndex' = CurrentIndex
IndexNotStored == lastUpdateTimestamp' = now /\ UNCHANGED globalIndex
UpdateGlobalIndex ==
  /\ lastUpdateTimestamp' = now
  /\ globalIndex' = CurrentIndex

CalculateBalance(principal, userIndex, index) == (principal * index) \div userIndex

BalanceOf(u) ==
  IF deposits[u].principal = 0
  THEN 0
  ELSE CalculateBalance(deposits[u].principal, deposits[u].userIndex, CurrentIndex)

TotalAssets == IF totalPrincipal = 0 THEN 0 ELSE (totalPrincipal * CurrentIndex) \div ONE

Transfer(from, to, amount) ==
  /\ tokens[from] >= amount
  /\ tokens' = [tokens EXCEPT ![from] = @ - amount, ![to] = @ + amount]

-----------------------------------------------------------------------------
(* deposit: the caller is credited, payer's tokens are taken.  They differ *)
(* only when the lending pool forwards a repayment it has just collected.  *)
(* Interest earned so far becomes principal of the caller, yet             *)
(* totalPrincipal is raised by the new amount alone.                       *)
DepositFrom(caller, payer, amount) ==
  /\ amount >= minDepositAmount
  /\ UpdateGlobalIndex
  /\ deposits' = [deposits EXCEPT ![caller] =
                    [principal |-> BalanceOf(caller) + amount, userIndex |-> CurrentIndex]]
  /\ totalPrincipal' = totalPrincipal + amount
  /\ Transfer(payer, VaultAddr, amount)
  /\ UNCHANGED <<now, interestRatePerSecond, minDepositAmount, lendingPool>>

Deposit(u, amount) == DepositFrom(u, u, amount)

(* withdraw, all of the balance: the record goes, and with it the whole    *)
(* stored principal leaves totalPrincipal, which reverts when that would   *)
(* take it below zero.                                                     *)
WithdrawAll(u) ==
  /\ totalPrincipal >= deposits[u].principal
  /\ totalPrincipal' = totalPrincipal - deposits[u].principal
  /\ deposits' = [deposits EXCEPT ![u] = NoDeposit]

(* withdraw, part of it: the rest becomes the principal, and totalPrincipal *)
(* falls by the share of the stored principal that the amount stands for.   *)
ShareOfReducedPrincipal(u, amount, balance) == (amount * (balance - amount)) \div balance
PrincipalWithdrawn(u, amount, balance) == (amount * deposits[u].principal) \div balance

WithdrawPart(u, amount, balance) ==
  /\ totalPrincipal >= PrincipalWithdrawn(u, amount, balance)
  /\ totalPrincipal' = totalPrincipal - PrincipalWithdrawn(u, amount, balance)
  /\ deposits' = [deposits EXCEPT ![u] =
                    [principal |-> balance - amount, userIndex |-> CurrentIndex]]

Withdraw(u, amount) ==
  LET balance == BalanceOf(u) IN
  /\ amount > 0
  /\ deposits[u].principal > 0
  /\ amount <= balance
  /\ UpdateGlobalIndex
  /\ \/ amount = balance /\ WithdrawAll(u)
     \/ amount < balance /\ WithdrawPart(u, amount, balance)
  /\ Transfer(VaultAddr, u, amount)
  /\ UNCHANGED <<now, interestRatePerSecond, minDepositAmount, lendingPool>>

(* onlyOwner: the old rate is applied up to now before the new one counts. *)
UpdateInterestRate(bps) ==
  /\ bps <= MaxRateBps
  /\ UpdateGlobalIndex
  /\ interestRatePerSecond' = RatePerSecond(bps)
  /\ UNCHANGED <<now, totalPrincipal, minDepositAmount, lendingPool, deposits, tokens>>

UpdateMinDepositAmount(minimum) ==
  /\ minDepositAmount' = minimum
  /\ UNCHANGED <<now, globalIndex, lastUpdateTimestamp, interestRatePerSecond,
                 totalPrincipal, lendingPool, deposits, tokens>>

SetLendingPool(pool) ==
  /\ pool # NoPool
  /\ lendingPool' = pool
  /\ UNCHANGED <<now, globalIndex, lastUpdateTimestamp, interestRatePerSecond,
                 totalPrincipal, minDepositAmount, deposits, tokens>>

LiquidityLeavesTotal(caller, to, amount) ==
  /\ caller = lendingPool
  /\ totalPrincipal >= amount /\ totalPrincipal' = totalPrincipal - amount
  /\ Transfer(VaultAddr, to, amount)
  /\ UNCHANGED <<now, globalIndex, lastUpdateTimestamp, interestRatePerSecond,
                 minDepositAmount, lendingPool, deposits>>
TransferLiquidity(caller, to, amount) ==
  /\ caller = lendingPool
  /\ Transfer(VaultAddr, to, amount)
  /\ UNCHANGED <<now, vaultVars>>

-----------------------------------------------------------------------------
(* The environment: time passes, and anyone may send the asset straight to *)
(* the vault, which is how interest comes to be backed by tokens.          *)
Tick ==
  /\ now < MaxTime
  /\ now' = now + 1
  /\ UNCHANGED <<vaultVars, tokens>>

FundInterest(payer, amount) ==
  /\ Transfer(payer, VaultAddr, amount)
  /\ UNCHANGED <<now, vaultVars>>

Next ==
  \/ \E u \in Accounts, amount \in Amounts :
       \/ Deposit(u, amount)
       \/ Withdraw(u, amount)
  \/ \E amount \in Amounts :
       \/ \E caller \in Accounts \cup PoolChoices, to \in Borrowers :
            TransferLiquidity(caller, to, amount)
       \/ \E payer \in Accounts \cup Borrowers : FundInterest(payer, amount)
  \/ \E bps \in RateChoices : UpdateInterestRate(bps)
  \/ \E minimum \in MinimumChoices : UpdateMinDepositAmount(minimum)
  \/ \E pool \in PoolChoices \cup {NoPool} : SetLendingPool(pool)
  \/ Tick

Spec == Init /\ [][Next]_vars

-----------------------------------------------------------------------------
(* Types and the index discipline: an active deposit was last touched at a *)
(* positive index no later than the stored one, and the vault's clock is   *)
(* never ahead of the chain's.  Every share computation divides by an      *)
(* index this keeps positive.                                              *)
TypeOK ==
  /\ now \in Nat /\ lastUpdateTimestamp \in Nat /\ globalIndex \in Nat
  /\ interestRatePerSecond \in Nat /\ totalPrincipal \in Nat /\ minDepositAmount \in Nat
  /\ lendingPool \in PoolChoices \cup {NoPool}
  /\ deposits \in [Accounts -> [principal : Nat, userIndex : Nat]]
  /\ tokens \in [Holders -> Nat]

IndexDiscipline ==
  /\ ONE <= globalIndex
  /\ lastUpdateTimestamp <= now
  /\ \A u \in Accounts : deposits[u].principal > 0 =>
       /\ ONE <= deposits[u].userIndex
       /\ deposits[u].userIndex <= globalIndex

(* The deposits' principals together never fall below totalPrincipal       *)
(* (Vault.sol deposit, withdraw): compounding and rounding only ever open  *)
(* the gap in that direction, so the total never counts money no one has;  *)
(* and interest is all that opens it: until the index first moves,         *)
(* totalPrincipal is exact, as its comment at Vault.sol:43 says.           *)
Principals == [u \in Accounts |-> deposits[u].principal]
SumOfPrincipals == SumFunction(Principals)
PrincipalsCoverTotal ==
  /\ totalPrincipal <= SumOfPrincipals
  /\ globalIndex = ONE => totalPrincipal = SumOfPrincipals

(* The annual rate shown by getAnnualRate is the one being applied: it     *)
(* converts back to the very per-second rate in force (Vault.sol:290).     *)
ShownRateIsApplied == interestRatePerSecond = RatePerSecond(GetAnnualRate)

(* The vault keeps the depositors' ledger, with each claim read off        *)
(* balanceOf: deposits and withdrawals move it one for one, admin calls    *)
(* not at all, and interest only with time.                                *)
Claims == [u \in Accounts |-> BalanceOf(u)]
Wallets == [u \in Accounts |-> tokens[u]]

Ledger == INSTANCE DepositLedger WITH clock <- now, claim <- Claims, wallet <- Wallets
KeepsLedger == Ledger!LSpec
=============================================================================
