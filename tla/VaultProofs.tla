---------------------------- MODULE VaultProofs ----------------------------
(***************************************************************************)
(* Proofs about the vault.  The inductive invariant is TypeOK together     *)
(* with IndexDiscipline: types alone are not inductive, because a balance  *)
(* is a quotient by a user's index, and only the discipline keeps that     *)
(* index away from zero.                                                   *)
(***************************************************************************)
EXTENDS Vault, Arithmetic

IInv == TypeOK /\ IndexDiscipline

(* The index a transaction computes is at least the stored one. *)
LEMMA CurrentIndexGrows ==
  ASSUME IInv
  PROVE  /\ CurrentIndex \in Nat \ {0}
         /\ globalIndex <= CurrentIndex
         /\ ONE <= CurrentIndex
<1>1. ONE \in Nat \ {0} /\ globalIndex \in Nat /\ ONE <= globalIndex
  BY VaultConstants DEF IInv, TypeOK, IndexDiscipline
<1>2. interestRatePerSecond * (now - lastUpdateTimestamp) \in Nat
  BY DEF IInv, TypeOK, IndexDiscipline
<1>3. InterestFactor \in Nat /\ ONE <= InterestFactor
  BY <1>1, <1>2 DEF InterestFactor
<1>4. /\ (globalIndex * InterestFactor) \div ONE \in Nat
      /\ globalIndex <= (globalIndex * InterestFactor) \div ONE
  BY <1>1, <1>3, ScaleUp
<1>5. QED
  BY <1>1, <1>4 DEF CurrentIndex

(* A balance is an unsigned number, and at least the stored principal: the *)
(* index a deposit was made at never exceeds the current one.              *)
LEMMA BalanceCoversPrincipal ==
  ASSUME IInv, NEW u \in Accounts
  PROVE  BalanceOf(u) \in Nat /\ deposits[u].principal <= BalanceOf(u)
<1>1. deposits[u].principal \in Nat /\ deposits[u].userIndex \in Nat
  BY DEF IInv, TypeOK
<1>2. CASE deposits[u].principal = 0
  BY <1>1, <1>2 DEF BalanceOf
<1>3. CASE deposits[u].principal > 0
  <2>1. /\ ONE \in Nat \ {0}
        /\ ONE <= deposits[u].userIndex /\ deposits[u].userIndex <= globalIndex
    BY <1>3, VaultConstants DEF IInv, IndexDiscipline
  <2>2. deposits[u].userIndex \in Nat \ {0} /\ deposits[u].userIndex <= CurrentIndex
        /\ CurrentIndex \in Nat
    BY <1>1, <2>1, CurrentIndexGrows DEF IInv, TypeOK
  <2>3. /\ (deposits[u].principal * CurrentIndex) \div deposits[u].userIndex \in Nat
        /\ deposits[u].principal
             <= (deposits[u].principal * CurrentIndex) \div deposits[u].userIndex
    BY <1>1, <2>2, ScaleUp
  <2>4. QED
    BY <1>3, <2>3 DEF BalanceOf, CalculateBalance
<1>4. QED
  BY <1>1, <1>2, <1>3

LEMMA RateIsNat ==
  ASSUME NEW bps \in Nat PROVE RatePerSecond(bps) \in Nat
  BY VaultConstants, DivBounds, MulMonotone DEF RatePerSecond

(* Moving tokens between two holders keeps every balance unsigned. *)
LEMMA TransferKeepsTypes ==
  ASSUME tokens \in [Holders -> Nat], NEW from \in Holders, NEW to \in Holders,
         NEW amount \in Nat, Transfer(from, to, amount)
  PROVE  tokens' \in [Holders -> Nat]
  BY DEF Transfer

LEMMA InitEstablishesIInv == Init => IInv
<1> SUFFICES ASSUME Init PROVE IInv
  OBVIOUS
<1>1. ONE \in Nat /\ DeployRateBps \in Nat /\ DeployMinimum \in Nat
  BY VaultConstants
<1>2. interestRatePerSecond \in Nat
  BY <1>1, RateIsNat DEF Init
<1>3. TypeOK
  BY <1>1, <1>2, VaultConstants DEF Init, TypeOK, NoDeposit, Holders
<1>4. IndexDiscipline
  BY <1>1 DEF Init, IndexDiscipline, NoDeposit
<1>5. QED
  BY <1>3, <1>4 DEF IInv

(* Storing the current index for one account, with everyone else's record  *)
(* as it was, keeps the discipline; a withdrawn account has no record.     *)
LEMMA TouchKeepsDiscipline ==
  ASSUME IInv, UpdateGlobalIndex, now' = now,
         NEW u \in Accounts,
         NEW r \in [principal : Nat, userIndex : Nat],
         deposits' = [deposits EXCEPT ![u] = r],
         r.principal > 0 => r.userIndex = CurrentIndex
  PROVE  /\ IndexDiscipline'
         /\ deposits' \in [Accounts -> [principal : Nat, userIndex : Nat]]
         /\ globalIndex' \in Nat /\ lastUpdateTimestamp' \in Nat
<1>1. /\ CurrentIndex \in Nat \ {0} /\ globalIndex <= CurrentIndex /\ ONE <= CurrentIndex
  BY CurrentIndexGrows
<1>2. /\ deposits \in [Accounts -> [principal : Nat, userIndex : Nat]]
      /\ globalIndex \in Nat /\ now \in Nat /\ ONE \in Nat
      /\ \A v \in Accounts : deposits[v].principal > 0 =>
           ONE <= deposits[v].userIndex /\ deposits[v].userIndex <= globalIndex
  BY VaultConstants DEF IInv, TypeOK, IndexDiscipline
<1>3. /\ globalIndex' = CurrentIndex /\ lastUpdateTimestamp' = now
  BY DEF UpdateGlobalIndex
<1>4. deposits' \in [Accounts -> [principal : Nat, userIndex : Nat]]
  BY <1>2
<1>5. ASSUME NEW v \in Accounts, deposits'[v].principal > 0
      PROVE  ONE <= deposits'[v].userIndex /\ deposits'[v].userIndex <= globalIndex'
  <2>1. CASE v = u
    BY <1>1, <1>2, <1>3, <1>5, <2>1
  <2>2. CASE v # u
    <3>1. deposits'[v] = deposits[v]
      BY <1>2, <2>2
    <3>2. deposits[v].userIndex \in Nat
      BY <1>2
    <3>3. QED
      BY <1>1, <1>2, <1>3, <1>5, <3>1, <3>2
  <2>3. QED
    BY <2>1, <2>2
<1>6. QED
  BY <1>1, <1>2, <1>3, <1>4, <1>5 DEF IndexDiscipline

LEMMA DepositKeepsIInv ==
  ASSUME IInv, NEW u \in Accounts, NEW amount \in Amounts, Deposit(u, amount)
  PROVE  IInv'
<1>1. amount \in Nat /\ BalanceOf(u) \in Nat /\ CurrentIndex \in Nat
  BY VaultConstants, BalanceCoversPrincipal, CurrentIndexGrows
<1>2. TypeOK /\ UpdateGlobalIndex /\ now' = now
  BY DEF IInv, Deposit, DepositFrom
<1>3. DEFINE r == [principal |-> BalanceOf(u) + amount, userIndex |-> CurrentIndex]
<1>4. /\ r \in [principal : Nat, userIndex : Nat]
      /\ deposits' = [deposits EXCEPT ![u] = r]
      /\ r.principal > 0 => r.userIndex = CurrentIndex
  BY <1>1 DEF Deposit, DepositFrom
<1>5. /\ IndexDiscipline'
      /\ deposits' \in [Accounts -> [principal : Nat, userIndex : Nat]]
      /\ globalIndex' \in Nat /\ lastUpdateTimestamp' \in Nat
  <2> HIDE DEF r
  <2> QED
    BY <1>2, <1>4, TouchKeepsDiscipline
<1>6. tokens' \in [Holders -> Nat]
  BY <1>1, <1>2, TransferKeepsTypes DEF TypeOK, Deposit, DepositFrom, Holders
<1>7. TypeOK'
  BY <1>1, <1>2, <1>5, <1>6 DEF TypeOK, Deposit, DepositFrom, Holders
<1>8. QED
  BY <1>5, <1>7 DEF IInv

LEMMA WithdrawKeepsIInv ==
  ASSUME IInv, NEW u \in Accounts, NEW amount \in Amounts, Withdraw(u, amount)
  PROVE  IInv'
<1>1. /\ amount \in Nat /\ BalanceOf(u) \in Nat /\ CurrentIndex \in Nat
      /\ deposits[u].principal \in Nat /\ deposits[u].principal <= BalanceOf(u)
      /\ totalPrincipal \in Nat
  BY VaultConstants, BalanceCoversPrincipal, CurrentIndexGrows DEF IInv, TypeOK
<1>2. /\ TypeOK /\ UpdateGlobalIndex /\ now' = now
      /\ amount <= BalanceOf(u) /\ deposits[u].principal > 0
      /\ Transfer(VaultAddr, u, amount)
      /\ UNCHANGED <<interestRatePerSecond, minDepositAmount, lendingPool>>
  BY DEF IInv, Withdraw
<1>3. tokens' \in [Holders -> Nat]
  BY <1>1, <1>2, TransferKeepsTypes DEF TypeOK, Holders
<1>4. CASE amount = BalanceOf(u) /\ WithdrawAll(u)
  <2>1. /\ NoDeposit \in [principal : Nat, userIndex : Nat]
        /\ deposits' = [deposits EXCEPT ![u] = NoDeposit]
        /\ NoDeposit.principal > 0 => NoDeposit.userIndex = CurrentIndex
        /\ totalPrincipal' \in Nat
    BY <1>1, <1>4 DEF WithdrawAll, NoDeposit
  <2>2. /\ IndexDiscipline'
        /\ deposits' \in [Accounts -> [principal : Nat, userIndex : Nat]]
        /\ globalIndex' \in Nat /\ lastUpdateTimestamp' \in Nat
    BY <1>2, <2>1, TouchKeepsDiscipline
  <2>3. QED
    BY <1>2, <1>3, <2>1, <2>2 DEF IInv, TypeOK, Holders
<1>5. CASE amount < BalanceOf(u) /\ WithdrawPart(u, amount, BalanceOf(u))
  <2>1. DEFINE r == [principal |-> BalanceOf(u) - amount, userIndex |-> CurrentIndex]
  <2>2. /\ r \in [principal : Nat, userIndex : Nat]
        /\ deposits' = [deposits EXCEPT ![u] = r]
        /\ r.principal > 0 => r.userIndex = CurrentIndex
    BY <1>1, <1>5 DEF WithdrawPart
  <2>3. /\ IndexDiscipline'
        /\ deposits' \in [Accounts -> [principal : Nat, userIndex : Nat]]
        /\ globalIndex' \in Nat /\ lastUpdateTimestamp' \in Nat
    <3> HIDE DEF r
    <3> QED
      BY <1>2, <2>2, TouchKeepsDiscipline
  <2>4. amount * deposits[u].principal \in Nat /\ BalanceOf(u) \in Nat \ {0}
    BY <1>1, <1>5
  <2>5. PrincipalWithdrawn(u, amount, BalanceOf(u)) \in Nat
    BY <2>4, DivBounds DEF PrincipalWithdrawn
  <2>6. totalPrincipal' \in Nat
    BY <1>1, <1>5, <2>5 DEF WithdrawPart
  <2>7. QED
    BY <1>2, <1>3, <2>3, <2>6 DEF IInv, TypeOK, Holders
<1>6. QED
  BY <1>4, <1>5 DEF Withdraw

LEMMA UpdateInterestRateKeepsIInv ==
  ASSUME IInv, NEW bps \in RateChoices, UpdateInterestRate(bps)
  PROVE  IInv'
<1>1. RatePerSecond(bps) \in Nat
  BY VaultConstants, RateIsNat
<1>2. /\ CurrentIndex \in Nat /\ globalIndex <= CurrentIndex /\ ONE <= CurrentIndex
      /\ ONE \in Nat
  BY CurrentIndexGrows, VaultConstants
<1>3. TypeOK'
  BY <1>1, <1>2 DEF IInv, TypeOK, UpdateInterestRate, UpdateGlobalIndex, Holders
<1>4. IndexDiscipline'
  <2>1. ASSUME NEW v \in Accounts, deposits[v].principal > 0
        PROVE  ONE <= deposits[v].userIndex /\ deposits[v].userIndex <= CurrentIndex
    BY <1>2, <2>1 DEF IInv, TypeOK, IndexDiscipline
  <2>2. QED
    BY <1>2, <2>1 DEF IInv, TypeOK, IndexDiscipline, UpdateInterestRate, UpdateGlobalIndex
<1>5. QED
  BY <1>3, <1>4 DEF IInv

(* Every step keeps the invariant, one case per public function. *)
LEMMA NextKeepsIInv == IInv /\ [Next]_vars => IInv'
<1> SUFFICES ASSUME IInv, [Next]_vars PROVE IInv'
  OBVIOUS
<1>1. ASSUME NEW u \in Accounts, NEW amount \in Amounts, Deposit(u, amount)
      PROVE  IInv'
  BY <1>1, DepositKeepsIInv
<1>2. ASSUME NEW u \in Accounts, NEW amount \in Amounts, Withdraw(u, amount)
      PROVE  IInv'
  BY <1>2, WithdrawKeepsIInv
<1>3. ASSUME NEW caller \in Accounts \cup PoolChoices, NEW to \in Borrowers,
             NEW amount \in Amounts, TransferLiquidity(caller, to, amount)
      PROVE  IInv'
  <2>1. tokens' \in [Holders -> Nat]
    BY <1>3, VaultConstants, TransferKeepsTypes
    DEF IInv, TypeOK, TransferLiquidity, Holders
  <2>2. QED
    BY <1>3, <2>1 DEF IInv, TypeOK, IndexDiscipline, TransferLiquidity, vaultVars, Holders
<1>4. ASSUME NEW payer \in Accounts \cup Borrowers, NEW amount \in Amounts,
             FundInterest(payer, amount)
      PROVE  IInv'
  <2>1. tokens' \in [Holders -> Nat]
    BY <1>4, VaultConstants, TransferKeepsTypes
    DEF IInv, TypeOK, FundInterest, Holders
  <2>2. QED
    BY <1>4, <2>1 DEF IInv, TypeOK, IndexDiscipline, FundInterest, vaultVars, Holders
<1>5. ASSUME NEW bps \in RateChoices, UpdateInterestRate(bps)
      PROVE  IInv'
  BY <1>5, UpdateInterestRateKeepsIInv
<1>6. ASSUME NEW minimum \in MinimumChoices, UpdateMinDepositAmount(minimum)
      PROVE  IInv'
  BY <1>6, VaultConstants DEF IInv, TypeOK, IndexDiscipline, UpdateMinDepositAmount, Holders
<1>7. ASSUME NEW pool \in PoolChoices \cup {NoPool}, SetLendingPool(pool)
      PROVE  IInv'
  BY <1>7 DEF IInv, TypeOK, IndexDiscipline, SetLendingPool, Holders
<1>8. CASE Tick
  BY <1>8 DEF IInv, TypeOK, IndexDiscipline, Tick, vaultVars, Holders
<1>9. CASE UNCHANGED vars
  BY <1>9 DEF IInv, TypeOK, IndexDiscipline, vars, Holders
<1>10. QED
  BY <1>1, <1>2, <1>3, <1>4, <1>5, <1>6, <1>7, <1>8, <1>9 DEF Next

(* Types and the index discipline hold in every reachable state of every   *)
(* instance: no share computation of the vault ever divides by zero.       *)
THEOREM VaultInvariant == Spec => []IInv
<1>1. QED
  BY InitEstablishesIInv, NextKeepsIInv, PTL DEF Spec

THEOREM TypeCorrect == Spec => []TypeOK
<1>1. IInv => TypeOK
  BY DEF IInv
<1>2. QED
  BY <1>1, VaultInvariant, PTL

THEOREM IndexDisciplined == Spec => []IndexDiscipline
<1>1. IInv => IndexDiscipline
  BY DEF IInv
<1>2. QED
  BY <1>1, VaultInvariant, PTL

-----------------------------------------------------------------------------
(* getAnnualRate inverts the conversion of the rate setters: rounding to   *)
(* the nearest basis point undoes the truncation.                          *)
LEMMA RateRoundTrip ==
  ASSUME NEW bps \in Nat, interestRatePerSecond = RatePerSecond(bps)
  PROVE  GetAnnualRate = bps
<1>1. DEFINE r == (bps * ONE) \div BpsYear
<1>2. DEFINE h == ONE \div 2
<1>3. /\ ONE \in Nat \ {0} /\ BpsYear \in Nat \ {0} /\ 2 * BpsYear <= ONE
      /\ bps * ONE \in Nat
  BY VaultConstants, MulMonotone
<1>4. r \in Nat /\ r * BpsYear <= bps * ONE /\ bps * ONE < r * BpsYear + BpsYear
  BY <1>3, DivBounds
<1>5. h \in Nat /\ BpsYear <= h /\ h < ONE
  BY <1>3
<1>6. r * BpsYear \in Nat
  BY <1>3, <1>4, MulMonotone
<1> HIDE DEF r, h
<1>7. /\ r * BpsYear + h \in Nat
      /\ bps * ONE <= r * BpsYear + h /\ r * BpsYear + h < bps * ONE + ONE
  BY <1>3, <1>4, <1>5, <1>6
<1>8. (r * BpsYear + h) \div ONE = bps
  BY <1>3, <1>7, DivUnique
<1>9. QED
  BY <1>8 DEF r, h, GetAnnualRate, RatePerSecond

(* The rate in force is always one that a number of basis points converts  *)
(* to, so what getAnnualRate shows is what is being applied.               *)
RateIsConverted == \E bps \in Nat : interestRatePerSecond = RatePerSecond(bps)

THEOREM ShownRateCorrect == Spec => []ShownRateIsApplied
<1>1. Init => RateIsConverted
  BY VaultConstants DEF Init, RateIsConverted
<1>2. RateIsConverted /\ [Next]_vars => RateIsConverted'
  <2> SUFFICES ASSUME RateIsConverted, [Next]_vars PROVE RateIsConverted'
    OBVIOUS
  <2>1. ASSUME NEW bps \in RateChoices, UpdateInterestRate(bps)
        PROVE  RateIsConverted'
    BY <2>1, VaultConstants DEF UpdateInterestRate, RateIsConverted, RatePerSecond
  <2>2. CASE UNCHANGED interestRatePerSecond
    BY <2>2 DEF RateIsConverted, RatePerSecond
  <2>3. QED
    BY <2>1, <2>2
    DEF Next, vars, vaultVars, Deposit, DepositFrom, Withdraw, TransferLiquidity,
        FundInterest, UpdateMinDepositAmount, SetLendingPool, Tick
<1>3. RateIsConverted => ShownRateIsApplied
  BY RateRoundTrip DEF RateIsConverted, ShownRateIsApplied
<1>4. QED
  BY <1>1, <1>2, <1>3, PTL DEF Spec

-----------------------------------------------------------------------------
(* The deposits cover the total.                                           *)

LEMMA PrincipalsTyped ==
  ASSUME IInv
  PROVE  /\ IsFiniteSet(Accounts)
         /\ Principals \in [Accounts -> Int]
         /\ SumOfPrincipals \in Int
<1>1. IsFiniteSet(Accounts)
  BY VaultConstants
<1>2. \A u \in Accounts : deposits[u].principal \in Int
  BY DEF IInv, TypeOK
<1>3. Principals \in [Accounts -> Int]
  BY <1>2 DEF Principals
<1>4. QED
  BY <1>1, <1>3, SumOfMapping DEF SumOfPrincipals

(* Writing one record moves the sum by the difference of the principals.   *)
LEMMA OnePrincipalMoves ==
  ASSUME IInv, NEW u \in Accounts, NEW r, r.principal \in Nat,
         deposits' = [deposits EXCEPT ![u] = r]
  PROVE  SumOfPrincipals' = SumOfPrincipals - deposits[u].principal + r.principal
<1>1. IsFiniteSet(Accounts) /\ Principals \in [Accounts -> Int]
  BY PrincipalsTyped
<1>2. /\ deposits'[u].principal = r.principal
      /\ \A v \in Accounts : v # u => deposits'[v].principal = deposits[v].principal
  BY DEF IInv, TypeOK
<1>3. /\ Principals' \in [Accounts -> Int]
      /\ \A v \in Accounts : v # u => Principals'[v] = Principals[v]
  BY <1>1, <1>2 DEF Principals
<1>4. SumFunction(Principals') = SumFunction(Principals) - Principals[u] + Principals'[u]
  <2> HIDE DEF Principals
  <2> QED
    BY <1>1, <1>3, SumChanges
<1>5. QED
  BY <1>2, <1>4 DEF SumOfPrincipals, Principals

(* What a transaction that stores the index sees while it has not moved    *)
(* yet: no deposit has earned anything, so balances are principals.        *)
LEMMA NothingEarnedAtONE ==
  ASSUME IInv, UpdateGlobalIndex, globalIndex' = ONE, NEW u \in Accounts
  PROVE  /\ globalIndex = ONE
         /\ BalanceOf(u) = deposits[u].principal
<1>1. /\ ONE \in Nat \ {0} /\ CurrentIndex \in Nat
      /\ ONE <= globalIndex /\ globalIndex <= CurrentIndex
      /\ globalIndex \in Nat /\ CurrentIndex = ONE
  BY VaultConstants, CurrentIndexGrows DEF IInv, TypeOK, IndexDiscipline, UpdateGlobalIndex
<1>2. globalIndex = ONE
  BY <1>1
<1>3. deposits[u].principal \in Nat /\ deposits[u].userIndex \in Nat
  BY DEF IInv, TypeOK
<1>4. CASE deposits[u].principal > 0
  <2>1. deposits[u].userIndex = ONE
    BY <1>1, <1>2, <1>3, <1>4 DEF IInv, IndexDiscipline
  <2>2. (deposits[u].principal * ONE) \div ONE = deposits[u].principal
    BY <1>1, <1>3, DivExact
  <2>3. QED
    BY <1>1, <1>4, <2>1, <2>2 DEF BalanceOf, CalculateBalance
<1>5. CASE deposits[u].principal = 0
  <2>1. BalanceOf(u) = 0
    BY <1>5 DEF BalanceOf
  <2>2. QED
    BY <1>2, <1>5, <2>1
<1>6. QED
  BY <1>2, <1>3, <1>4, <1>5

LEMMA DepositKeepsCover ==
  ASSUME IInv, PrincipalsCoverTotal,
         NEW u \in Accounts, NEW amount \in Amounts, Deposit(u, amount)
  PROVE  PrincipalsCoverTotal'
<1>1. /\ amount \in Nat /\ totalPrincipal \in Nat
      /\ BalanceOf(u) \in Nat /\ deposits[u].principal \in Nat
      /\ deposits[u].principal <= BalanceOf(u) /\ SumOfPrincipals \in Int
  BY VaultConstants, BalanceCoversPrincipal, PrincipalsTyped DEF IInv, TypeOK
<1>2. UpdateGlobalIndex /\ totalPrincipal' = totalPrincipal + amount
  BY DEF Deposit, DepositFrom
<1>3. SumOfPrincipals' = SumOfPrincipals - deposits[u].principal + (BalanceOf(u) + amount)
  <2> DEFINE r == [principal |-> BalanceOf(u) + amount, userIndex |-> CurrentIndex]
  <2>1. deposits' = [deposits EXCEPT ![u] = r]
    BY DEF Deposit, DepositFrom
  <2>2. r.principal = BalanceOf(u) + amount /\ BalanceOf(u) + amount \in Nat
    BY <1>1
  <2> HIDE DEF r
  <2>3. QED
    BY <2>1, <2>2, OnePrincipalMoves
<1>4. totalPrincipal' <= SumOfPrincipals'
  BY <1>1, <1>2, <1>3 DEF PrincipalsCoverTotal
<1>5. ASSUME globalIndex' = ONE PROVE totalPrincipal' = SumOfPrincipals'
  BY <1>1, <1>2, <1>3, <1>5, NothingEarnedAtONE DEF PrincipalsCoverTotal
<1>6. QED
  BY <1>4, <1>5 DEF PrincipalsCoverTotal

(* The share of the principal that leaves the total with a partial         *)
(* withdrawal is no less than what the withdrawal leaves uncovered: with b *)
(* the balance and p <= b the principal, p - (b - a) <= a * p / b.         *)
LEMMA ShareCoversGap ==
  ASSUME NEW a \in Nat, NEW p \in Nat, NEW b \in Nat \ {0}, a <= b, p <= b
  PROVE  /\ (a * p) \div b \in Nat
         /\ p - (b - a) <= (a * p) \div b
<1> DEFINE e == b - p
           q == (a * p) \div b
<1>1. e \in Nat /\ p = b - e
  OBVIOUS
<1>2. a * p \in Nat /\ a * e \in Nat /\ b * e \in Nat /\ a * e <= b * e
  BY <1>1, MulMonotone
<1>3. q \in Nat /\ q * b <= a * p /\ a * p < q * b + b
  BY <1>2, DivBounds
<1>4. a * p = a * b - a * e
  BY <1>1
<1> HIDE DEF e, q
<1>5. a * b - b * e <= a * p
  BY <1>1, <1>2, <1>4
<1>6. ASSUME a - e > q PROVE FALSE
  <2>1. a - e >= q + 1 /\ a - e \in Nat
    BY <1>1, <1>3, <1>6
  <2>2. (q + 1) * b <= (a - e) * b
    BY <1>3, <2>1, MulMonotone
  <2>3. (a - e) * b = a * b - b * e /\ (q + 1) * b = q * b + b
    BY <1>1, <1>3
  <2>4. q * b \in Nat
    BY <1>3, MulMonotone
  <2>5. QED
    BY <1>2, <1>3, <1>5, <2>2, <2>3, <2>4
<1>7. p - (b - a) = a - e
  BY <1>1
<1>8. QED
  BY <1>1, <1>3, <1>6, <1>7 DEF q

LEMMA WithdrawKeepsCover ==
  ASSUME IInv, PrincipalsCoverTotal,
         NEW u \in Accounts, NEW amount \in Amounts, Withdraw(u, amount)
  PROVE  PrincipalsCoverTotal'
<1> DEFINE p == deposits[u].principal
           b == BalanceOf(u)
<1>1. /\ amount \in Nat /\ totalPrincipal \in Nat /\ b \in Nat /\ p \in Nat
      /\ p <= b /\ SumOfPrincipals \in Int
  BY VaultConstants, BalanceCoversPrincipal, PrincipalsTyped DEF IInv, TypeOK
<1>2. UpdateGlobalIndex /\ p > 0 /\ amount <= b
  BY DEF Withdraw
<1>3. globalIndex' = ONE => globalIndex = ONE /\ b = p
  BY <1>2, NothingEarnedAtONE
<1>4. CASE WithdrawAll(u)
  <2>1. NoDeposit.principal = 0 /\ deposits' = [deposits EXCEPT ![u] = NoDeposit]
        /\ totalPrincipal' = totalPrincipal - p
    BY <1>4 DEF WithdrawAll, NoDeposit
  <2>2. SumOfPrincipals' = SumOfPrincipals - p + NoDeposit.principal
    <3>1. NoDeposit.principal \in Nat
      BY <2>1
    <3>2. QED
      BY <2>1, <3>1, OnePrincipalMoves
  <2> HIDE DEF p, b
  <2>3. QED
    BY <1>1, <1>3, <2>1, <2>2 DEF PrincipalsCoverTotal
<1>5. CASE amount < b /\ WithdrawPart(u, amount, b)
  <2> DEFINE r == [principal |-> b - amount, userIndex |-> CurrentIndex]
  <2>1. /\ deposits' = [deposits EXCEPT ![u] = r]
        /\ totalPrincipal' = totalPrincipal - (amount * p) \div b
    BY <1>5 DEF WithdrawPart, PrincipalWithdrawn
  <2>2. r.principal = b - amount /\ b - amount \in Nat
    BY <1>1, <1>5
  <2>3. SumOfPrincipals' = SumOfPrincipals - p + (b - amount)
    <3> HIDE DEF r, b
    <3> QED
      BY <2>1, <2>2, OnePrincipalMoves
  <2> HIDE DEF p, b
  <2>4. b \in Nat \ {0}
    BY <1>1, <1>2
  <2>5. (amount * p) \div b \in Nat /\ p - (b - amount) <= (amount * p) \div b
    BY <1>1, <1>2, <2>4, ShareCoversGap
  <2>6. totalPrincipal' <= SumOfPrincipals'
    BY <1>1, <2>1, <2>3, <2>4, <2>5 DEF PrincipalsCoverTotal
  <2>7. ASSUME globalIndex' = ONE PROVE totalPrincipal' = SumOfPrincipals'
    <3>1. b = p /\ (amount * b) \div b = amount
      BY <1>1, <1>3, <2>4, <2>7, DivExact
    <3>2. QED
      BY <1>1, <1>3, <2>1, <2>3, <2>7, <3>1 DEF PrincipalsCoverTotal
  <2>8. QED
    BY <2>6, <2>7 DEF PrincipalsCoverTotal
<1>6. QED
  BY <1>4, <1>5 DEF Withdraw

LEMMA CoverKept == IInv /\ PrincipalsCoverTotal /\ [Next]_vars => PrincipalsCoverTotal'
<1> SUFFICES ASSUME IInv, PrincipalsCoverTotal, [Next]_vars PROVE PrincipalsCoverTotal'
  OBVIOUS
<1>1. ASSUME NEW u \in Accounts, NEW amount \in Amounts, Deposit(u, amount)
      PROVE  PrincipalsCoverTotal'
  BY <1>1, DepositKeepsCover
<1>2. ASSUME NEW u \in Accounts, NEW amount \in Amounts, Withdraw(u, amount)
      PROVE  PrincipalsCoverTotal'
  BY <1>2, WithdrawKeepsCover
<1>3. ASSUME NEW bps \in RateChoices, UpdateInterestRate(bps)
      PROVE  PrincipalsCoverTotal'
  <2>1. SumOfPrincipals' = SumOfPrincipals /\ totalPrincipal' = totalPrincipal
    BY <1>3 DEF UpdateInterestRate, SumOfPrincipals, Principals
  <2>2. /\ globalIndex' = CurrentIndex /\ globalIndex <= CurrentIndex /\ CurrentIndex \in Nat
        /\ ONE <= globalIndex /\ ONE \in Nat /\ globalIndex \in Nat
    BY <1>3, VaultConstants, CurrentIndexGrows
    DEF UpdateInterestRate, UpdateGlobalIndex, IInv, TypeOK, IndexDiscipline
  <2>3. QED
    BY <2>1, <2>2 DEF PrincipalsCoverTotal
<1>4. CASE UNCHANGED <<globalIndex, totalPrincipal, deposits>>
  BY <1>4 DEF PrincipalsCoverTotal, SumOfPrincipals, Principals
<1>5. QED
  BY <1>1, <1>2, <1>3, <1>4
  DEF Next, vars, vaultVars, TransferLiquidity, FundInterest, UpdateMinDepositAmount,
      SetLendingPool, Tick

(* totalPrincipal never counts money no deposit has: for any number of     *)
(* accounts, rates and amounts the principals together are at least the    *)
(* total, and exactly the total until the index first moves.               *)
THEOREM PrincipalsAreCovered == Spec => []PrincipalsCoverTotal
<1>1. Init => PrincipalsCoverTotal
  <2> SUFFICES ASSUME Init PROVE PrincipalsCoverTotal
    OBVIOUS
  <2>1. IsFiniteSet(Accounts) /\ Principals \in [Accounts -> Int]
    BY InitEstablishesIInv, PrincipalsTyped
  <2>2. \A u \in Accounts : Principals[u] = 0
    BY DEF Init, Principals, NoDeposit
  <2>3. SumOfPrincipals = 0
    BY <2>1, <2>2, SumOfMapping DEF SumOfPrincipals
  <2>4. QED
    BY <2>3 DEF Init, PrincipalsCoverTotal
<1>2. QED
  BY <1>1, CoverKept, VaultInvariant, PTL DEF Spec

-----------------------------------------------------------------------------
(* The vault implements the depositors' ledger.                            *)

(* Once a transaction has stored the index, views read that same index for *)
(* the rest of the block.                                                  *)
LEMMA StoredIndexIsCurrent ==
  ASSUME UpdateGlobalIndex, now' = now
  PROVE  CurrentIndex' = CurrentIndex
  BY DEF UpdateGlobalIndex, CurrentIndex

(* An account whose record a transaction does not write keeps its claim.   *)
LEMMA UntouchedClaim ==
  ASSUME NEW v \in Accounts, deposits'[v] = deposits[v], CurrentIndex' = CurrentIndex
  PROVE  BalanceOf(v)' = BalanceOf(v)
  BY DEF BalanceOf, CalculateBalance

(* A record written at the current index is worth exactly its principal.   *)
LEMMA FreshClaim ==
  ASSUME IInv, NEW u \in Accounts, NEW p \in Nat, CurrentIndex' = CurrentIndex,
         deposits'[u] = [principal |-> p, userIndex |-> CurrentIndex]
  PROVE  BalanceOf(u)' = p
<1>1. CurrentIndex \in Nat \ {0}
  BY CurrentIndexGrows
<1>2. (p * CurrentIndex) \div CurrentIndex = p
  BY <1>1, DivExact
<1>3. QED
  BY <1>2 DEF BalanceOf, CalculateBalance

(* When one record is written at the current index, the claims change in   *)
(* that place and nowhere else.                                            *)
LEMMA OneClaimMoves ==
  ASSUME IInv, NEW u \in Accounts, NEW p \in Nat, NEW r, CurrentIndex' = CurrentIndex,
         deposits' = [deposits EXCEPT ![u] = r],
         \/ r = [principal |-> p, userIndex |-> CurrentIndex]
         \/ r = NoDeposit /\ p = 0
  PROVE  Claims' = [Claims EXCEPT ![u] = p]
<1>1. deposits'[u] = r /\ \A v \in Accounts : v # u => deposits'[v] = deposits[v]
  BY DEF IInv, TypeOK
<1>2. BalanceOf(u)' = p
  BY <1>1, FreshClaim DEF NoDeposit, BalanceOf
<1>3. \A v \in Accounts : v # u => BalanceOf(v)' = BalanceOf(v)
  BY <1>1, UntouchedClaim
<1>4. QED
  BY <1>2, <1>3 DEF Claims

LEMMA ClaimsStay ==
  ASSUME CurrentIndex' = CurrentIndex, deposits' = deposits
  PROVE  Claims' = Claims
  BY UntouchedClaim DEF Claims

LEMMA VaultIsNoWallet == VaultAddr \notin Accounts \cup Borrowers /\ Amounts \subseteq Nat
  BY VaultConstants

LEMMA LedgerInit == Init => Ledger!LInit
<1> SUFFICES ASSUME Init PROVE Ledger!LInit
  OBVIOUS
<1>1. Claims = [u \in Accounts |-> 0]
  BY DEF Init, Claims, BalanceOf, NoDeposit
<1>2. Wallets \in [Accounts -> Nat]
  BY VaultConstants DEF Init, Wallets, Holders
<1>3. QED
  BY <1>1, <1>2 DEF Init, Ledger!LInit

LEMMA DepositCredits ==
  ASSUME IInv, NEW u \in Accounts, NEW amount \in Amounts, Deposit(u, amount)
  PROVE  Ledger!Credit(u, amount)
<1>1. amount \in Nat /\ BalanceOf(u) \in Nat
  BY VaultConstants, BalanceCoversPrincipal
<1>2. UpdateGlobalIndex /\ now' = now /\ Transfer(u, VaultAddr, amount)
  BY DEF Deposit, DepositFrom
<1>3. CurrentIndex' = CurrentIndex
  BY <1>2, StoredIndexIsCurrent
<1>4. BalanceOf(u) + amount \in Nat
  BY <1>1
<1>5. Claims' = [Claims EXCEPT ![u] = BalanceOf(u) + amount]
  BY <1>3, <1>4, OneClaimMoves DEF Deposit, DepositFrom
<1>6. Claims' = [Claims EXCEPT ![u] = Claims[u] + amount]
  BY <1>5 DEF Claims
<1>7. /\ amount <= Wallets[u]
      /\ Wallets' = [Wallets EXCEPT ![u] = Wallets[u] - amount]
  BY <1>1, <1>2, VaultIsNoWallet DEF IInv, TypeOK, Transfer, Wallets, Holders
<1>8. QED
  BY <1>2, <1>6, <1>7 DEF Ledger!Credit

LEMMA WithdrawDebits ==
  ASSUME IInv, NEW u \in Accounts, NEW amount \in Amounts, Withdraw(u, amount)
  PROVE  Ledger!Debit(u, amount)
<1>1. amount \in Nat /\ BalanceOf(u) \in Nat
  BY VaultConstants, BalanceCoversPrincipal
<1>2. /\ UpdateGlobalIndex /\ now' = now /\ Transfer(VaultAddr, u, amount)
      /\ amount <= BalanceOf(u)
  BY DEF Withdraw
<1>3. CurrentIndex' = CurrentIndex
  BY <1>2, StoredIndexIsCurrent
<1>4. BalanceOf(u) - amount \in Nat
  BY <1>1, <1>2
<1>5. Claims' = [Claims EXCEPT ![u] = BalanceOf(u) - amount]
  <2>1. CASE amount = BalanceOf(u) /\ WithdrawAll(u)
    <3>1. BalanceOf(u) - amount = 0
      BY <1>1, <2>1
    <3>2. QED
      BY <1>3, <1>4, <2>1, <3>1, OneClaimMoves DEF WithdrawAll
  <2>2. CASE amount < BalanceOf(u) /\ WithdrawPart(u, amount, BalanceOf(u))
    BY <1>3, <1>4, <2>2, OneClaimMoves DEF WithdrawPart
  <2>3. QED
    BY <2>1, <2>2 DEF Withdraw
<1>6. Claims[u] = BalanceOf(u) /\ Claims' = [Claims EXCEPT ![u] = Claims[u] - amount]
  BY <1>5 DEF Claims
<1>7. Wallets' = [Wallets EXCEPT ![u] = Wallets[u] + amount]
  BY <1>1, <1>2, VaultIsNoWallet DEF IInv, TypeOK, Transfer, Wallets, Holders
<1>8. QED
  BY <1>2, <1>6, <1>7 DEF Ledger!Debit

(* Time only raises the index, hence every claim, and raises none from 0.  *)
LEMMA TickAccrues ==
  ASSUME IInv, Tick
  PROVE  Ledger!Accrue
<1>1. /\ TypeOK /\ IndexDiscipline /\ now' = now + 1
      /\ UNCHANGED <<vaultVars, tokens>>
      /\ ONE \in Nat \ {0}
  BY VaultConstants DEF IInv, Tick
<1>3. /\ interestRatePerSecond * (now - lastUpdateTimestamp) \in Nat
      /\ interestRatePerSecond * (now - lastUpdateTimestamp)
           <= interestRatePerSecond * (now' - lastUpdateTimestamp)
      /\ interestRatePerSecond * (now' - lastUpdateTimestamp) \in Nat
  <2>1. /\ interestRatePerSecond \in Nat /\ now \in Nat /\ lastUpdateTimestamp \in Nat
        /\ lastUpdateTimestamp <= now
    BY <1>1 DEF TypeOK, IndexDiscipline
  <2>2. /\ now - lastUpdateTimestamp \in Nat /\ now' - lastUpdateTimestamp \in Nat
        /\ now - lastUpdateTimestamp <= now' - lastUpdateTimestamp
    BY <1>1, <2>1
  <2>3. QED
    BY <2>1, <2>2, MulMonotone
<1>4. InterestFactor \in Nat /\ InterestFactor' \in Nat /\ InterestFactor <= InterestFactor'
  BY <1>1, <1>3 DEF InterestFactor, vaultVars
<1>5. ASSUME NEW f \in Nat, NEW g \in Nat, f <= g
      PROVE  /\ (globalIndex * f) \div ONE <= (globalIndex * g) \div ONE
             /\ (globalIndex * g) \div ONE \in Nat
  <2>1. globalIndex \in Nat
    BY <1>1 DEF TypeOK
  <2>2. /\ globalIndex * f \in Nat /\ globalIndex * g \in Nat
        /\ globalIndex * f <= globalIndex * g
    BY <1>5, <2>1
  <2>3. QED
    BY <1>1, <2>2, DivMonotone, DivBounds
<1>6. CurrentIndex <= CurrentIndex' /\ CurrentIndex \in Nat /\ CurrentIndex' \in Nat
  <2>1. CurrentIndex \in Nat /\ globalIndex \in Nat
    BY <1>1, CurrentIndexGrows DEF TypeOK
  <2>2. CASE totalPrincipal = 0
    BY <1>1, <2>1, <2>2 DEF CurrentIndex, vaultVars
  <2>3. CASE totalPrincipal # 0
    <3>1. now' # lastUpdateTimestamp'
      BY <1>1 DEF TypeOK, IndexDiscipline, vaultVars
    <3>2. CurrentIndex' = (globalIndex * InterestFactor') \div ONE
      BY <1>1, <2>3, <3>1 DEF CurrentIndex, vaultVars
    <3>3. CASE now = lastUpdateTimestamp
      <4>1. ONE <= InterestFactor'
        BY <1>1, <1>3 DEF InterestFactor, vaultVars
      <4>2. /\ globalIndex <= (globalIndex * InterestFactor') \div ONE
            /\ (globalIndex * InterestFactor') \div ONE \in Nat
        BY <1>1, <1>4, <2>1, <4>1, ScaleUp
      <4>3. CurrentIndex = globalIndex
        BY <3>3 DEF CurrentIndex
      <4>4. QED
        BY <2>1, <3>2, <4>2, <4>3
    <3>4. CASE now # lastUpdateTimestamp
      <4>1. CurrentIndex = (globalIndex * InterestFactor) \div ONE
        BY <2>3, <3>4 DEF CurrentIndex
      <4>2. /\ (globalIndex * InterestFactor) \div ONE
                 <= (globalIndex * InterestFactor') \div ONE
            /\ (globalIndex * InterestFactor') \div ONE \in Nat
        BY <1>4, <1>5
      <4>3. QED
        BY <2>1, <3>2, <4>1, <4>2
    <3>5. QED
      BY <3>3, <3>4
  <2>4. QED
    BY <2>2, <2>3
<1>7. ASSUME NEW v \in Accounts
      PROVE  /\ BalanceOf(v)' \in Nat /\ BalanceOf(v) <= BalanceOf(v)'
             /\ BalanceOf(v) = 0 => BalanceOf(v)' = 0
  <2>1. /\ deposits'[v] = deposits[v]
        /\ deposits[v].principal \in Nat /\ deposits[v].userIndex \in Nat
    BY <1>1 DEF vaultVars, TypeOK
  <2>2. CASE deposits[v].principal = 0
    BY <2>1, <2>2 DEF BalanceOf
  <2>3. CASE deposits[v].principal > 0
    <3>1. deposits[v].userIndex \in Nat \ {0}
      BY <1>1, <2>1, <2>3 DEF IndexDiscipline
    <3>2. /\ deposits[v].principal * CurrentIndex \in Nat
          /\ deposits[v].principal * CurrentIndex' \in Nat
          /\ deposits[v].principal * CurrentIndex <= deposits[v].principal * CurrentIndex'
      BY <1>6, <2>1, MulMonotone
    <3>3. BalanceOf(v) <= BalanceOf(v)' /\ BalanceOf(v)' \in Nat
      BY <2>1, <2>3, <3>1, <3>2, DivMonotone, DivBounds DEF BalanceOf, CalculateBalance
    <3>4. BalanceOf(v) # 0
      BY <2>1, <2>3, BalanceCoversPrincipal
    <3>5. QED
      BY <3>3, <3>4
  <2>4. QED
    BY <2>1, <2>2, <2>3
<1>8. /\ now' > now /\ Wallets' = Wallets
  BY <1>1 DEF TypeOK, Wallets
<1>9. Claims' \in [Accounts -> Nat]
  BY <1>7 DEF Claims
<1>10. \A v \in Accounts : Claims'[v] >= Claims[v] /\ (Claims[v] = 0 => Claims'[v] = 0)
  BY <1>7, BalanceCoversPrincipal DEF Claims
<1>11. QED
  BY <1>8, <1>9, <1>10 DEF Ledger!Accrue

(* Sending liquidity out, or tokens in, moves no claim.                    *)
LEMMA LiquidityLends ==
  ASSUME IInv, NEW caller, NEW to \in Borrowers, NEW amount \in Amounts,
         TransferLiquidity(caller, to, amount)
  PROVE  \/ \E u \in Accounts : Ledger!Lend(u, amount)
         \/ UNCHANGED <<now, Claims, Wallets>>
<1>1. Claims' = Claims /\ now' = now
  BY ClaimsStay DEF TransferLiquidity, vaultVars, CurrentIndex, InterestFactor
<1>2. CASE to \in Accounts
  <2>1. Wallets' = [Wallets EXCEPT ![to] = Wallets[to] + amount]
    BY <1>2, VaultIsNoWallet DEF IInv, TypeOK, TransferLiquidity, Transfer, Wallets, Holders
  <2>2. QED
    BY <1>1, <1>2, <2>1 DEF Ledger!Lend
<1>3. CASE to \notin Accounts
  <2>1. Wallets' = Wallets
    BY <1>3, VaultIsNoWallet DEF IInv, TypeOK, TransferLiquidity, Transfer, Wallets, Holders
  <2>2. QED
    BY <1>1, <2>1
<1>4. QED
  BY <1>2, <1>3

LEMMA FundingGives ==
  ASSUME IInv, NEW payer \in Accounts \cup Borrowers, NEW amount \in Amounts,
         FundInterest(payer, amount)
  PROVE  \/ \E u \in Accounts : Ledger!Gift(u, amount)
         \/ UNCHANGED <<now, Claims, Wallets>>
<1>1. Claims' = Claims /\ now' = now
  BY ClaimsStay DEF FundInterest, vaultVars, CurrentIndex, InterestFactor
<1>2. CASE payer \in Accounts
  <2>1. /\ amount <= Wallets[payer]
        /\ Wallets' = [Wallets EXCEPT ![payer] = Wallets[payer] - amount]
    BY <1>2, VaultIsNoWallet DEF IInv, TypeOK, FundInterest, Transfer, Wallets, Holders
  <2>2. QED
    BY <1>1, <1>2, <2>1 DEF Ledger!Gift
<1>3. CASE payer \notin Accounts
  <2>1. Wallets' = Wallets
    BY <1>3, VaultIsNoWallet DEF IInv, TypeOK, FundInterest, Transfer, Wallets, Holders
  <2>2. QED
    BY <1>1, <2>1
<1>4. QED
  BY <1>2, <1>3

LEMMA StepKeepsLedger ==
  IInv /\ [Next]_vars => [Ledger!LNext]_<<now, Claims, Wallets>>
<1> SUFFICES ASSUME IInv, [Next]_vars PROVE [Ledger!LNext]_<<now, Claims, Wallets>>
  OBVIOUS
<1>1. ASSUME NEW u \in Accounts, NEW amount \in Amounts, Deposit(u, amount)
      PROVE  Ledger!LNext
  BY <1>1, DepositCredits DEF Ledger!LNext
<1>2. ASSUME NEW u \in Accounts, NEW amount \in Amounts, Withdraw(u, amount)
      PROVE  Ledger!LNext
  BY <1>2, WithdrawDebits DEF Ledger!LNext
<1>3. ASSUME NEW caller \in Accounts \cup PoolChoices, NEW to \in Borrowers,
             NEW amount \in Amounts, TransferLiquidity(caller, to, amount)
      PROVE  [Ledger!LNext]_<<now, Claims, Wallets>>
  BY <1>3, LiquidityLends DEF Ledger!LNext
<1>4. ASSUME NEW payer \in Accounts \cup Borrowers, NEW amount \in Amounts,
             FundInterest(payer, amount)
      PROVE  [Ledger!LNext]_<<now, Claims, Wallets>>
  BY <1>4, FundingGives DEF Ledger!LNext
<1>5. ASSUME NEW bps \in RateChoices, UpdateInterestRate(bps)
      PROVE  UNCHANGED <<now, Claims, Wallets>>
  <2>1. CurrentIndex' = CurrentIndex
    BY <1>5, StoredIndexIsCurrent DEF UpdateInterestRate
  <2>2. QED
    BY <1>5, <2>1, ClaimsStay DEF UpdateInterestRate, Wallets
<1>6. ASSUME NEW minimum \in MinimumChoices, UpdateMinDepositAmount(minimum)
      PROVE  UNCHANGED <<now, Claims, Wallets>>
  BY <1>6, ClaimsStay DEF UpdateMinDepositAmount, CurrentIndex, InterestFactor, Wallets
<1>7. ASSUME NEW pool \in PoolChoices \cup {NoPool}, SetLendingPool(pool)
      PROVE  UNCHANGED <<now, Claims, Wallets>>
  BY <1>7, ClaimsStay DEF SetLendingPool, CurrentIndex, InterestFactor, Wallets
<1>8. CASE Tick
  BY <1>8, TickAccrues DEF Ledger!LNext
<1>9. CASE UNCHANGED vars
  BY <1>9, ClaimsStay DEF vars, CurrentIndex, InterestFactor, Wallets
<1>10. QED
  BY <1>1, <1>2, <1>3, <1>4, <1>5, <1>6, <1>7, <1>8, <1>9 DEF Next

(* For every number of accounts, rates and amounts: deposits and           *)
(* withdrawals move exactly one claim, one for one, and nothing but time   *)
(* makes a claim grow.                                                     *)
THEOREM VaultKeepsLedger == Spec => KeepsLedger
<1>1. QED
  BY LedgerInit, StepKeepsLedger, VaultInvariant, PTL
  DEF Spec, KeepsLedger, Ledger!LSpec, Ledger!lvars
=============================================================================
