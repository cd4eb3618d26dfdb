----------------------------- MODULE FormProofs -----------------------------
(***************************************************************************)
(* Proofs about the transaction forms: a confirmation names what was done, *)
(* a payment clicked on current reads is allowed, and the reads know of    *)
(* all that was sent once every follow-up is over.  The second has to know *)
(* what the approval effect's callbacks will say: the last one to run      *)
(* decides, and it was queued with the inputs as they are (CheckFits).     *)
(* The third follows each read that differs from the chain by more than    *)
(* interest, from the transaction that touches it to the queued follow-up  *)
(* that has it read again (Follows).                                       *)
(***************************************************************************)
EXTENDS TransactionForms, SequenceTheorems, TLAPS

TxFields == {"phase", "call", "amount", "pledge", "why"} \subseteq DOMAIN tx

Typed ==
  /\ form \in Forms
  /\ chain \in [Reads -> Nat] /\ accrued \in [Reads -> Nat]
  /\ cached \in [Reads -> Nat \cup {Unread}]
  /\ amount \in Nat /\ pledge \in Nat
  /\ TxFields /\ tx.amount \in Nat /\ tx.pledge \in Nat
  /\ checks \in Seq(BOOLEAN)

(* The approval check that is to hold when all callbacks have run.         *)
LastCheck == IF checks = << >> THEN needsApproval ELSE checks[Len(checks)]
CheckFits ==
  Pays /\ amount > 0 /\ cached.allowance # Unread =>
    (LastCheck <=> Needs(amount, cached.allowance))

(* Each form sends its own calls.                                          *)
CallsFit ==
  /\ tx.phase # None =>
       tx.call \in {"deposit", "withdraw", "repay", "approve", "wrap", "borrow"}
  /\ tx.call \in {"deposit", "repay"} => Pays
  /\ tx.call = "borrow" => form = "borrow"
  /\ form = "withdraw" => tx.phase = None \/ tx.call = "withdraw"

(* What lastAction says of the transaction.                                *)
ActionFits == Pays => lastAction \in {None, tx.call}

(* A transaction under way that was clicked on current reads.              *)
AllowanceFits ==
  /\ ~stale /\ tx.phase \in {"wallet", "sent"} =>
       /\ tx.call \in {"deposit", "repay"} => tx.amount <= chain.allowance
       /\ tx.call = "borrow" => tx.pledge <= chain.wethAllowance
  /\ tx.why = "allowance" => stale

FormInv == Typed /\ CheckFits /\ CallsFit /\ ActionFits /\ AllowanceFits

LEMMA InvNamesDone == FormInv => ConfirmedMeansDone
  BY DEF FormInv, Typed, ActionFits, CallsFit, ConfirmedMeansDone, FollowUp, Pays, Forms,
         IsConfirmed, None

LEMMA InvAllows == FormInv => FreshFormsAreAllowed
  BY DEF FormInv, AllowanceFits, FreshFormsAreAllowed

LEMMA ReadNames ==
  {"usdt", "allowance", "owned", "debt", "eth", "weth", "wethAllowance", "collateral"} = Reads
  BY DEF Reads

LEMMA ScaleUp == \A a \in Nat : a * DepositScale >= a
<1>1. TAKE a \in Nat
<1>2. DepositScale \in Nat /\ DepositScale >= 1
  BY FormConstants
<1>3. a * DepositScale = a * (DepositScale - 1) + a
  BY <1>2
<1>4. a * (DepositScale - 1) \in Nat
  BY <1>2
<1>5. QED
  BY <1>2, <1>3, <1>4

LEMMA TailKeepsLast ==
  ASSUME NEW S, NEW queue \in Seq(S), queue # << >>
  PROVE  IF Tail(queue) = << >> THEN Head(queue) = queue[Len(queue)]
         ELSE Tail(queue)[Len(Tail(queue))] = queue[Len(queue)]
<1>1. Len(queue) \in Nat \ {0}
  BY EmptySeq
<1>2. /\ Tail(queue) \in Seq(S) /\ Len(Tail(queue)) = Len(queue) - 1
      /\ Head(queue) = queue[1]
      /\ \A i \in 1..(Len(queue) - 1) : Tail(queue)[i] = queue[i + 1]
  BY <1>1
<1>3. CASE Tail(queue) = << >>
  <2>1. Len(queue) = 1
    BY <1>1, <1>2, <1>3, EmptySeq
  <2>2. QED
    BY <1>2, <1>3, <2>1
<1>4. CASE Tail(queue) # << >>
  <2>1. Len(Tail(queue)) \in Nat \ {0}
    BY <1>2, <1>4, EmptySeq
  <2>2. QED
    BY <1>1, <1>2, <1>4, <2>1
<1>5. QED
  BY <1>3, <1>4

LEMMA LastOfAppend ==
  ASSUME NEW queue \in Seq(BOOLEAN), NEW check \in BOOLEAN
  PROVE  /\ Append(queue, check) \in Seq(BOOLEAN) /\ Append(queue, check) # << >>
         /\ Append(queue, check)[Len(Append(queue, check))] = check
  OBVIOUS

-----------------------------------------------------------------------------
(* The approval effect keeps CheckFits: a callback is queued whenever what *)
(* the check depends on has changed.                                       *)
LEMMA EffectKeepsCheck ==
  ASSUME FormInv, ApprovalEffect(checks), UNCHANGED <<form, needsApproval>>,
         amount' \in Nat, cached' \in [Reads -> Nat \cup {Unread}]
  PROVE  checks' \in Seq(BOOLEAN) /\ CheckFits'
<1> DEFINE check == Needs(amount', cached'.allowance)
           ran == /\ Pays /\ amount' > 0 /\ cached'.allowance # Unread
                  /\ <<amount, cached.allowance>>' # <<amount, cached.allowance>>
<1>1. check \in BOOLEAN
  BY DEF Needs
<1>2. checks \in Seq(BOOLEAN) /\ CheckFits
  BY DEF FormInv, Typed
<1>3. checks' = IF ran THEN Append(checks, check) ELSE checks
  BY DEF ApprovalEffect
<1>4. Pays' = Pays
  BY DEF Pays
<1>5. CASE ran
  <2>1. checks' = Append(checks, check)
    BY <1>3, <1>5
  <2>2. checks' \in Seq(BOOLEAN) /\ checks' # << >> /\ checks'[Len(checks')] = check
    BY <1>1, <1>2, <2>1, LastOfAppend
  <2>3. LastCheck' <=> check
    BY <2>2 DEF LastCheck
  <2>4. check <=> Needs(amount, cached.allowance)'
    BY DEF Needs
  <2>5. QED
    BY <2>2, <2>3, <2>4 DEF CheckFits
<1>6. CASE ~ran
  <2>1. checks' = checks
    BY <1>3, <1>6
  <2>2. LastCheck' = LastCheck
    BY <2>1 DEF LastCheck
  <2>3. ASSUME Pays, amount' > 0, cached'.allowance # Unread
        PROVE  amount' = amount /\ cached'.allowance = cached.allowance
    BY <1>6, <2>3
  <2>4. CheckFits'
    BY <1>2, <1>4, <2>2, <2>3 DEF CheckFits, Needs
  <2>5. QED
    BY <1>2, <2>1, <2>4
<1>7. QED
  BY <1>5, <1>6

LEMMA NothingChecked ==
  ASSUME FormInv, UNCHANGED <<form, checks, needsApproval, amount, cached>>
  PROVE  CheckFits'
  BY DEF FormInv, CheckFits, LastCheck, Pays, Needs

(* What the transaction's invariants depend on.                            *)
LEMMA TransactionStays ==
  ASSUME FormInv, UNCHANGED <<form, chain, tx, stale>>, lastAction' \in {None, lastAction}
  PROVE  CallsFit' /\ ActionFits' /\ AllowanceFits'
  BY DEF FormInv, CallsFit, ActionFits, AllowanceFits, Pays

-----------------------------------------------------------------------------
(* The page.                                                               *)
LEMMA FireCheckStep == ASSUME FormInv, FireCheck PROVE FormInv'
<1>1. /\ checks # << >> /\ checks \in Seq(BOOLEAN)
      /\ needsApproval' = Head(checks) /\ checks' = Tail(checks)
      /\ UNCHANGED <<form, chain, accrued, cached, tx, amount, pledge, lastAction, stale>>
  BY DEF FireCheck, FormInv, Typed
<1>2. checks' \in Seq(BOOLEAN)
  BY <1>1
<1>3. LastCheck' = LastCheck
  BY <1>1, TailKeepsLast DEF LastCheck
<1>4. CheckFits'
  BY <1>1, <1>3 DEF FormInv, CheckFits, Pays, Needs
<1>5. Typed'
  BY <1>1, <1>2 DEF FormInv, Typed, TxFields
<1>6. QED
  BY <1>1, <1>4, <1>5, TransactionStays DEF FormInv

LEMMA FireTimerStep == ASSUME FormInv, FireTimer PROVE FormInv'
<1>1. /\ UNCHANGED <<form, chain, accrued, cached, tx, needsApproval, stale>>
      /\ amount' \in Nat /\ pledge' \in Nat /\ lastAction' \in {None, lastAction}
      /\ ApprovalEffect(checks)
  BY DEF FireTimer, FormInv, Typed
<1>2. checks' \in Seq(BOOLEAN) /\ CheckFits'
  BY <1>1, EffectKeepsCheck DEF FormInv, Typed
<1>3. Typed'
  BY <1>1, <1>2 DEF FormInv, Typed, TxFields
<1>4. QED
  BY <1>1, <1>2, <1>3, TransactionStays DEF FormInv

LEMMA AnswerStep == ASSUME FormInv, NEW r \in Reads, Answer(r) PROVE FormInv'
<1>1. /\ UNCHANGED <<form, chain, tx, amount, pledge, needsApproval, lastAction, stale>>
      /\ cached' \in [Reads -> Nat \cup {Unread}] /\ accrued' \in [Reads -> Nat]
      /\ ApprovalEffect(checks)
  BY DEF Answer, Effects, inputs, FormInv, Typed
<1>2. checks' \in Seq(BOOLEAN) /\ CheckFits'
  BY <1>1, EffectKeepsCheck DEF FormInv, Typed
<1>3. Typed'
  BY <1>1, <1>2 DEF FormInv, Typed, TxFields
<1>4. QED
  BY <1>1, <1>2, <1>3, TransactionStays DEF FormInv

LEMMA ReceiptStep == ASSUME FormInv, Receipt PROVE FormInv'
<1>1. /\ UNCHANGED <<form, chain, accrued, cached, amount, pledge, needsApproval, lastAction, stale>>
      /\ ApprovalEffect(checks)
      /\ tx.phase \in {"done", "failed"}
      /\ \E phase \in {"confirmed", "reverted"} : tx' = [tx EXCEPT !.phase = phase]
  BY DEF Receipt, SetPhase, Effects, inputs
<1>2. checks' \in Seq(BOOLEAN) /\ CheckFits'
  BY <1>1, EffectKeepsCheck DEF FormInv, Typed
<1>3. /\ TxFields' /\ tx'.call = tx.call /\ tx'.amount = tx.amount /\ tx'.pledge = tx.pledge
      /\ tx'.why = tx.why /\ tx'.phase \in {"confirmed", "reverted"}
  BY <1>1 DEF FormInv, Typed, TxFields
<1>4. Typed'
  BY <1>1, <1>2, <1>3 DEF FormInv, Typed
<1>5. CallsFit' /\ ActionFits' /\ AllowanceFits'
  BY <1>1, <1>3 DEF FormInv, CallsFit, ActionFits, AllowanceFits, Pays, None
<1>6. QED
  BY <1>2, <1>4, <1>5 DEF FormInv

-----------------------------------------------------------------------------
(* The user's inputs.                                                      *)
LEMMA SetAmountStep == ASSUME FormInv, NEW a \in Nat, SetAmount(a) PROVE FormInv'
<1>1. /\ UNCHANGED <<form, chain, accrued, cached, tx, pledge, needsApproval, lastAction, stale>>
      /\ amount' = a /\ ApprovalEffect(checks)
  BY DEF SetAmount, Effects
<1>2. checks' \in Seq(BOOLEAN) /\ CheckFits'
  BY <1>1, EffectKeepsCheck DEF FormInv, Typed
<1>3. Typed'
  BY <1>1, <1>2 DEF FormInv, Typed, TxFields
<1>4. QED
  BY <1>1, <1>2, <1>3, TransactionStays DEF FormInv

LEMMA TypeStep == ASSUME FormInv, NEW a \in Amounts[form] \cup {0}, Type(a) PROVE FormInv'
<1>1. a \in Nat
  BY FormConstants DEF FormInv, Typed
<1>2. QED
  BY <1>1, SetAmountStep DEF Type

LEMMA MaxStep == ASSUME FormInv, HandleMaxClick PROVE FormInv'
<1>1. form \in Forms /\ cached \in [Reads -> Nat \cup {Unread}]
  BY DEF FormInv, Typed
<1>2. cached.usdt \in Nat \cup {Unread} /\ cached.owned \in Nat \cup {Unread}
      /\ cached.debt \in Nat \cup {Unread}
  BY <1>1, ReadNames
<1>3. "max" \in Controls
  BY DEF HandleMaxClick
<1>4. CASE form = "deposit"
  BY <1>2, <1>3, <1>4, SetAmountStep DEF HandleMaxClick, MaxAmount, Controls, DepositControls, Unread
<1>5. CASE form = "withdraw"
  BY <1>2, <1>3, <1>5, SetAmountStep DEF HandleMaxClick, MaxAmount, Controls, WithdrawControls, Unread
<1>6. CASE form = "repay"
  BY <1>2, <1>3, <1>6, SetAmountStep DEF HandleMaxClick, MaxAmount, Controls, RepayControls, Unread
<1>7. CASE form = "borrow"
  BY <1>3, <1>7 DEF Controls, BorrowControls, Step
<1>8. QED
  BY <1>1, <1>4, <1>5, <1>6, <1>7 DEF Forms

LEMMA PledgeStep == ASSUME FormInv, NEW a \in Pledges \cup {0}, TypePledge(a) PROVE FormInv'
<1>1. /\ UNCHANGED <<form, chain, accrued, cached, tx, amount, needsApproval, lastAction, stale>>
      /\ pledge' \in Nat /\ ApprovalEffect(checks)
  BY FormConstants DEF TypePledge, Effects
<1>2. checks' \in Seq(BOOLEAN) /\ CheckFits'
  BY <1>1, EffectKeepsCheck DEF FormInv, Typed
<1>3. Typed'
  BY <1>1, <1>2 DEF FormInv, Typed, TxFields
<1>4. QED
  BY <1>1, <1>2, <1>3, TransactionStays DEF FormInv

-----------------------------------------------------------------------------
(* A click on one of the form's own calls.                                 *)
OwnCall(call) ==
  CASE form = "deposit" -> call \in {"approve", "deposit"}
    [] form = "repay" -> call \in {"approve", "repay"}
    [] form = "withdraw" -> call = "withdraw"
    [] form = "borrow" -> call \in {"wrap", "approve", "borrow"}

Arguments(call) ==
  IF form \in {"deposit", "withdraw"} THEN VaultArguments(call) ELSE PoolArguments(call)

LEMMA ArgumentsTyped ==
  ASSUME FormInv, NEW call
  PROVE  Arguments(call).amount \in Nat /\ Arguments(call).pledge \in Nat
  BY FormConstants DEF FormInv, Typed, Arguments, VaultArguments, PoolArguments

(* The reads of a click that is not stale are the chain's.                 *)
LEMMA FreshReads ==
  ASSUME NEW call, WriteContract(call), ~stale'
  PROVE  /\ checks = << >>
         /\ Pays => cached.allowance = chain.allowance
         /\ form = "borrow" => cached.wethAllowance = chain.wethAllowance
<1>1. /\ checks = << >>
      /\ \A r \in {"allowance", "weth", "wethAllowance"} \cap ReadsOf(form) : cached[r] = chain[r]
  BY DEF WriteContract
<1>2. Pays => "allowance" \in ReadsOf(form)
  BY DEF Pays, ReadsOf, VaultReads, PoolReads
<1>3. form = "borrow" => "wethAllowance" \in ReadsOf(form)
  BY DEF ReadsOf, PoolReads
<1>4. QED
  BY <1>1, <1>2, <1>3

(* A payment is on offer only when the check says that it is allowed.      *)
LEMMA PaymentAllowed ==
  ASSUME FormInv, NEW call \in {"deposit", "repay"}, WriteContract(call), Pays, OwnCall(call), ~stale'
  PROVE  Arguments(call).amount <= chain.allowance
<1>1. ~needsApproval /\ amount > 0 /\ call \in Controls
  BY DEF WriteContract, Controls, DepositControls, RepayControls, OwnCall, Pays
<1>2. checks = << >> /\ cached.allowance = chain.allowance
  BY FreshReads
<1>3. chain.allowance \in Nat /\ amount \in Nat
  BY ReadNames DEF FormInv, Typed
<1>4. cached.allowance # Unread
  BY <1>2, <1>3 DEF Unread
<1>5. ~Needs(amount, cached.allowance)
  BY <1>1, <1>2, <1>4 DEF FormInv, CheckFits, LastCheck
<1>6. amount <= chain.allowance
  <2>1. CASE form = "deposit"
    <3>1. amount * DepositScale >= amount /\ amount * DepositScale \in Nat
      BY <1>3, ScaleUp, FormConstants
    <3>2. ~(chain.allowance < amount * DepositScale)
      BY <1>2, <1>5, <2>1 DEF Needs
    <3>3. QED
      BY <1>3, <3>1, <3>2
  <2>2. CASE form = "repay"
    BY <1>2, <1>3, <1>5, <2>2 DEF Needs
  <2>3. QED
    BY <2>1, <2>2 DEF Pays
<1>7. Arguments(call).amount = amount
  BY DEF Arguments, VaultArguments, PoolArguments
<1>8. QED
  BY <1>6, <1>7

LEMMA BorrowAllowed ==
  ASSUME FormInv, WriteContract("borrow"), form = "borrow", ~stale'
  PROVE  Arguments("borrow").pledge <= chain.wethAllowance
<1>1. Step = "borrow"
  BY DEF WriteContract, Controls, BorrowControls
<1>2. cached.wethAllowance = chain.wethAllowance /\ chain.wethAllowance \in Nat /\ pledge \in Nat
  BY FreshReads, ReadNames DEF FormInv, Typed
<1>3. pledge <= chain.wethAllowance
  BY <1>1, <1>2 DEF Step
<1>4. Arguments("borrow").pledge = pledge
  BY DEF Arguments, PoolArguments
<1>5. QED
  BY <1>3, <1>4

LEMMA ClickStep ==
  ASSUME FormInv, NEW call, WriteContract(call), OwnCall(call), ApprovalEffect(checks),
         Pays => lastAction' = call
  PROVE  FormInv'
<1>1. /\ UNCHANGED <<form, chain, accrued, cached, amount, pledge, needsApproval>>
      /\ tx' = [phase |-> "wallet", call |-> call, amount |-> Arguments(call).amount,
                pledge |-> Arguments(call).pledge, why |-> None]
  BY DEF WriteContract, Arguments
<1>2. /\ TxFields' /\ tx'.phase = "wallet" /\ tx'.call = call /\ tx'.why = None
      /\ tx'.amount = Arguments(call).amount /\ tx'.pledge = Arguments(call).pledge
  BY <1>1 DEF TxFields
<1>3. checks' \in Seq(BOOLEAN) /\ CheckFits'
  BY <1>1, EffectKeepsCheck DEF FormInv, Typed
<1>4. Typed'
  BY <1>1, <1>2, <1>3, ArgumentsTyped DEF FormInv, Typed
<1>5. CallsFit' /\ ActionFits'
  BY <1>1, <1>2 DEF CallsFit, ActionFits, OwnCall, Pays, FormInv, Typed, Forms
<1>6. ASSUME ~stale'
      PROVE  /\ call \in {"deposit", "repay"} => tx'.amount <= chain.allowance
             /\ call = "borrow" => tx'.pledge <= chain.wethAllowance
  <2>1. call \in {"deposit", "repay"} => Pays
    BY DEF OwnCall, Pays, FormInv, Typed, Forms
  <2>2. call = "borrow" => form = "borrow"
    BY DEF OwnCall, FormInv, Typed, Forms
  <2>3. QED
    BY <1>2, <1>6, <2>1, <2>2, PaymentAllowed, BorrowAllowed
<1>7. AllowanceFits'
  BY <1>1, <1>2, <1>6 DEF AllowanceFits, None
<1>8. QED
  BY <1>3, <1>4, <1>5, <1>7 DEF FormInv

LEMMA PayStep ==
  ASSUME FormInv, HandleDeposit \/ HandleRepay \/ HandleApprove
  PROVE  FormInv'
<1>1. CASE HandleDeposit
  BY <1>1, ClickStep DEF HandleDeposit, Pay, Effects, OwnCall
<1>2. CASE HandleRepay
  BY <1>2, ClickStep DEF HandleRepay, Pay, Effects, OwnCall
<1>3. CASE HandleApprove
  BY <1>3, ClickStep DEF HandleApprove, Pays, Effects, OwnCall
<1>4. QED
  BY <1>1, <1>2, <1>3

LEMMA OtherClickStep ==
  ASSUME FormInv, HandleWithdraw \/ HandleAction
  PROVE  FormInv'
<1>1. CASE HandleWithdraw
  BY <1>1, ClickStep DEF HandleWithdraw, Pays, Effects, OwnCall
<1>2. CASE HandleAction
  <2>1. form = "borrow" /\ OwnCall(Step) /\ ~Pays
    BY <1>2 DEF HandleAction, OwnCall, Step, Pays
  <2>2. QED
    BY <1>2, <2>1, ClickStep DEF HandleAction, Effects
<1>3. QED
  BY <1>1, <1>2

-----------------------------------------------------------------------------
(* The wallet and the chain.                                               *)
LEMMA WalletStep ==
  ASSUME FormInv, Sign \/ Reject PROVE FormInv'
<1>1. /\ UNCHANGED <<form, chain, accrued, cached>>
      /\ UNCHANGED <<amount, pledge, needsApproval, lastAction, checks, stale>>
      /\ tx.phase = "wallet"
      /\ \E phase \in {"sent", "rejected"} : tx' = [tx EXCEPT !.phase = phase]
  BY DEF Sign, Reject, SetPhase, InPage, inputs, IsPending
<1>2. /\ TxFields' /\ tx'.call = tx.call /\ tx'.amount = tx.amount /\ tx'.pledge = tx.pledge
      /\ tx'.why = tx.why /\ tx'.phase \in {"sent", "rejected"}
  BY <1>1 DEF FormInv, Typed, TxFields
<1>3. Typed' /\ CheckFits'
  BY <1>1, <1>2, NothingChecked DEF FormInv, Typed
<1>4. CallsFit' /\ ActionFits' /\ AllowanceFits'
  BY <1>1, <1>2 DEF FormInv, CallsFit, ActionFits, AllowanceFits, Pays, None
<1>5. QED
  BY <1>3, <1>4 DEF FormInv

(* Balances and allowances stay unsigned: what is taken is covered.        *)
LEMMA PaidTyped ==
  ASSUME FormInv, Covered, Taken.amount <= chain[ApprovedToken],
         tx.call \in {"deposit", "withdraw", "repay", "wrap", "borrow"}
  PROVE  Paid \in [Reads -> Nat]
<1>1. /\ chain \in [Reads -> Nat] /\ tx.amount \in Nat /\ tx.pledge \in Nat
      /\ chain.debt \in Nat /\ chain.usdt \in Nat /\ chain.weth \in Nat
      /\ chain.eth \in Nat /\ chain.owned \in Nat /\ chain.collateral \in Nat
      /\ ApprovedToken \in Reads /\ chain[ApprovedToken] \in Nat
  BY ReadNames DEF FormInv, Typed, ApprovedToken
<1> DEFINE left == IF chain[ApprovedToken] = Unlimited THEN Unlimited
                   ELSE chain[ApprovedToken] - Taken.amount
           paying == [chain EXCEPT ![Taken.token] = @ - Taken.amount, ![ApprovedToken] = left]
<1>2. Taken.amount \in Nat
  BY <1>1 DEF Taken, Lesser
<1>3. left \in Nat
  BY <1>1, <1>2, FormConstants
<1>4. ASSUME tx.call \in {"deposit", "repay", "borrow"} PROVE paying \in [Reads -> Nat]
  <2>1. Taken.token \in Reads
    BY <1>4, ReadNames DEF Taken
  <2>2. chain[Taken.token] >= Taken.amount
    BY <1>4 DEF Covered
  <2>3. chain[Taken.token] \in Nat /\ chain[Taken.token] - Taken.amount \in Nat
    BY <1>1, <1>2, <2>1, <2>2
  <2> HIDE DEF left
  <2>4. QED
    BY <1>1, <1>3, <2>3
<1>5. CASE tx.call = "deposit"
  <2>1. Paid = [paying EXCEPT !.owned = @ + tx.amount]
    BY <1>5 DEF Paid
  <2> HIDE DEF paying
  <2>2. paying \in [Reads -> Nat] /\ "owned" \in Reads /\ paying.owned \in Nat
    BY <1>4, <1>5, ReadNames
  <2>3. QED
    BY <1>1, <2>1, <2>2
<1>6. CASE tx.call = "borrow"
  <2>1. Paid = [paying EXCEPT !.debt = @ + tx.amount, !.collateral = @ + tx.pledge]
    BY <1>6 DEF Paid
  <2> HIDE DEF paying
  <2>2. /\ paying \in [Reads -> Nat] /\ {"debt", "collateral"} \subseteq Reads
        /\ paying.debt \in Nat /\ paying.collateral \in Nat
    BY <1>4, <1>6, ReadNames
  <2> DEFINE owing == [paying EXCEPT !.debt = @ + tx.amount]
  <2>3. owing \in [Reads -> Nat] /\ Paid = [owing EXCEPT !.collateral = @ + tx.pledge]
    BY <1>1, <2>1, <2>2
  <2>4. owing.collateral \in Nat
    BY <2>2, <2>3
  <2> HIDE DEF owing
  <2>5. QED
    BY <1>1, <2>2, <2>3, <2>4
<1>7. CASE tx.call = "repay"
  <2>1. Paid = [paying EXCEPT !.debt = @ - Taken.amount]
    BY <1>7 DEF Paid
  <2>2. Taken.token = "usdt" /\ ApprovedToken \in {"allowance", "wethAllowance"}
    BY <1>7 DEF Taken, ApprovedToken
  <2>3. paying.debt = chain.debt
    BY <1>1, <2>2, ReadNames
  <2>4. chain.debt - Taken.amount \in Nat
    BY <1>1, <1>7 DEF Taken, Lesser
  <2> HIDE DEF paying
  <2>5. paying \in [Reads -> Nat] /\ "debt" \in Reads
    BY <1>4, <1>7, ReadNames
  <2>6. QED
    BY <2>1, <2>3, <2>4, <2>5
<1>8. CASE tx.call = "withdraw"
  <2>1. Paid = [chain EXCEPT !.owned = @ - tx.amount]
    BY <1>8 DEF Paid
  <2>2. chain.owned - tx.amount \in Nat /\ "owned" \in Reads
    BY <1>1, <1>8, ReadNames DEF Covered
  <2>3. QED
    BY <1>1, <2>1, <2>2
<1>9. CASE tx.call = "wrap"
  <2>1. Paid = [chain EXCEPT !.eth = @ - tx.amount, !.weth = @ + tx.amount]
    BY <1>9 DEF Paid
  <2>2. /\ chain.eth - tx.amount \in Nat /\ chain.weth + tx.amount \in Nat
        /\ {"eth", "weth"} \subseteq Reads
    BY <1>1, <1>9, ReadNames DEF Covered
  <2>3. QED
    BY <1>1, <2>1, <2>2
<1>10. QED
  BY <1>5, <1>6, <1>7, <1>8, <1>9

LEMMA MineStep == ASSUME FormInv, Mine PROVE FormInv'
<1>1. /\ UNCHANGED <<form, accrued, cached>>
      /\ UNCHANGED <<amount, pledge, needsApproval, lastAction, checks, stale>>
      /\ tx.phase = "sent" /\ tx' = [tx EXCEPT !.phase = "done"]
      /\ Covered /\ Taken.amount <= chain[ApprovedToken]
  BY DEF Mine, SetPhase, InPage, inputs
<1>2. /\ TxFields' /\ tx'.call = tx.call /\ tx'.amount = tx.amount /\ tx'.pledge = tx.pledge
      /\ tx'.why = tx.why /\ tx'.phase = "done"
  BY <1>1 DEF FormInv, Typed, TxFields
<1>3. chain' \in [Reads -> Nat]
  <2>1. CASE tx.call = "approve"
    <3>1. PICK granted \in {Unlimited} \cup Caps :
            chain' = [chain EXCEPT ![ApprovedToken] = granted]
      BY <2>1 DEF Mine
    <3>2. granted \in Nat /\ ApprovedToken \in Reads
      BY FormConstants, ReadNames DEF ApprovedToken
    <3>3. QED
      BY <3>1, <3>2 DEF FormInv, Typed
  <2>2. CASE tx.call # "approve"
    <3>1. tx.call \in {"deposit", "withdraw", "repay", "wrap", "borrow"}
      BY <1>1, <2>2 DEF FormInv, CallsFit, None
    <3>2. QED
      BY <1>1, <2>2, <3>1, PaidTyped DEF Mine
  <2>3. QED
    BY <2>1, <2>2
<1>4. Typed' /\ CheckFits'
  BY <1>1, <1>2, <1>3, NothingChecked DEF FormInv, Typed
<1>5. CallsFit' /\ ActionFits' /\ AllowanceFits'
  BY <1>1, <1>2 DEF FormInv, CallsFit, ActionFits, AllowanceFits, Pays, None
<1>6. QED
  BY <1>4, <1>5 DEF FormInv

(* A call reverts for want of an allowance only if it was clicked on       *)
(* outdated reads: what it takes is no more than was asked for.            *)
LEMMA RevertStep == ASSUME FormInv, Revert PROVE FormInv'
<1> DEFINE why == IF Taken.amount > chain[ApprovedToken] THEN "allowance"
                  ELSE IF ~Covered THEN "balance" ELSE "refused"
<1>1. /\ UNCHANGED <<form, chain, accrued, cached>>
      /\ UNCHANGED <<amount, pledge, needsApproval, lastAction, checks, stale>>
      /\ tx.phase = "sent" /\ tx' = [tx EXCEPT !.phase = "failed", !.why = why]
  BY DEF Revert, InPage, inputs
<1>2. /\ chain \in [Reads -> Nat] /\ tx.amount \in Nat /\ tx.pledge \in Nat
      /\ chain.debt \in Nat /\ chain.allowance \in Nat /\ chain.wethAllowance \in Nat
  BY ReadNames DEF FormInv, Typed
<1>3. ASSUME ~stale PROVE ~(Taken.amount > chain[ApprovedToken])
  <2>1. /\ tx.call \in {"deposit", "repay"} => tx.amount <= chain.allowance /\ form # "borrow"
        /\ tx.call = "borrow" => tx.pledge <= chain.wethAllowance /\ form = "borrow"
    BY <1>1, <1>3 DEF FormInv, AllowanceFits, CallsFit, Pays
  <2>2. CASE tx.call = "deposit"
    BY <1>2, <2>1, <2>2 DEF Taken, ApprovedToken
  <2>3. CASE tx.call = "repay"
    BY <1>2, <2>1, <2>3 DEF Taken, ApprovedToken, Lesser
  <2>4. CASE tx.call = "borrow"
    BY <1>2, <2>1, <2>4 DEF Taken, ApprovedToken
  <2>5. CASE tx.call \notin {"deposit", "repay", "borrow"}
    BY <1>2, <2>5 DEF Taken, ApprovedToken
  <2>6. QED
    BY <2>2, <2>3, <2>4, <2>5
<1>4. why = "allowance" => stale
  BY <1>3
<1> HIDE DEF why
<1>5. /\ TxFields' /\ tx'.call = tx.call /\ tx'.amount = tx.amount /\ tx'.pledge = tx.pledge
      /\ tx'.why = why /\ tx'.phase = "failed"
  BY <1>1 DEF FormInv, Typed, TxFields
<1>6. Typed' /\ CheckFits'
  BY <1>1, <1>5, NothingChecked DEF FormInv, Typed
<1>7. CallsFit' /\ ActionFits' /\ AllowanceFits'
  BY <1>1, <1>4, <1>5 DEF FormInv, CallsFit, ActionFits, AllowanceFits, Pays, None
<1>8. QED
  BY <1>6, <1>7 DEF FormInv

LEMMA ElsewhereStep == ASSUME FormInv, NEW r \in Reads, Elsewhere(r) PROVE FormInv'
<1>1. /\ UNCHANGED <<form, accrued, cached, amount, pledge, needsApproval, lastAction, checks, tx>>
      /\ chain' = [chain EXCEPT ![r] = 0] /\ stale'
  BY DEF Elsewhere, inputs
<1>2. chain' \in [Reads -> Nat]
  BY <1>1 DEF FormInv, Typed
<1>3. Typed' /\ CheckFits'
  BY <1>1, <1>2, NothingChecked DEF FormInv, Typed, TxFields
<1>4. CallsFit' /\ ActionFits' /\ AllowanceFits'
  BY <1>1 DEF FormInv, CallsFit, ActionFits, AllowanceFits, Pays
<1>5. QED
  BY <1>3, <1>4 DEF FormInv

(* Interest touches no allowance.                                          *)
LEMMA AccrueStep == ASSUME FormInv, NEW r \in {"owned", "debt"}, Accrue(r) PROVE FormInv'
<1>1. /\ UNCHANGED <<form, cached, amount, pledge, needsApproval, lastAction, checks, tx, stale>>
      /\ chain' = [chain EXCEPT ![r] = @ + 1] /\ accrued' = [accrued EXCEPT ![r] = @ + 1]
  BY DEF Accrue, inputs
<1>2. chain' \in [Reads -> Nat] /\ accrued' \in [Reads -> Nat]
  BY <1>1, ReadNames DEF FormInv, Typed
<1>3. chain'.allowance = chain.allowance /\ chain'.wethAllowance = chain.wethAllowance
  BY <1>1, ReadNames DEF FormInv, Typed
<1>4. Typed' /\ CheckFits'
  BY <1>1, <1>2, NothingChecked DEF FormInv, Typed, TxFields
<1>5. CallsFit' /\ ActionFits' /\ AllowanceFits'
  BY <1>1, <1>3 DEF FormInv, CallsFit, ActionFits, AllowanceFits, Pays
<1>6. QED
  BY <1>4, <1>5 DEF FormInv

LEMMA NothingMoves ==
  ASSUME FormInv,
         UNCHANGED <<form, chain, accrued, cached, tx, stale>>,
         UNCHANGED <<amount, pledge, needsApproval, lastAction, checks>>
  PROVE  FormInv'
<1>1. CheckFits' /\ CallsFit' /\ ActionFits' /\ AllowanceFits'
  BY NothingChecked, TransactionStays
<1>2. QED
  BY <1>1 DEF FormInv, Typed, TxFields

LEMMA FormStepHolds == FormInv /\ [Next]_vars => FormInv'
<1> SUFFICES ASSUME FormInv, [Next]_vars PROVE FormInv'
  OBVIOUS
<1>1. ASSUME NEW r \in Reads, ReadFails(r) PROVE FormInv'
  BY <1>1, NothingMoves DEF ReadFails, inputs
<1>2. ASSUME WindowFocus PROVE FormInv'
  BY <1>2, NothingMoves DEF WindowFocus, inputs
<1>3. ASSUME NEW r \in {"usdt", "weth", "allowance", "wethAllowance"}, Elsewhere(r) PROVE FormInv'
  BY <1>3, ElsewhereStep, ReadNames
<1>4. CASE User
  BY <1>2, <1>3, <1>4, TypeStep, PledgeStep, MaxStep, PayStep, OtherClickStep, WalletStep DEF User
<1>5. CASE Page
  BY <1>5, FireCheckStep, FireTimerStep, ReceiptStep, AnswerStep DEF Page
<1>6. CASE UNCHANGED vars
  BY <1>6, NothingMoves DEF vars, inputs
<1>7. QED
  BY <1>1, <1>4, <1>5, <1>6, AccrueStep, MineStep, RevertStep DEF Next

LEMMA FormInitHolds == Init => FormInv
<1> SUFFICES ASSUME Init PROVE FormInv
  OBVIOUS
<1>1. form \in Forms /\ chain \in [Reads -> Nat] /\ accrued \in [Reads -> Nat]
  BY FormConstants DEF Init
<1>2. cached \in [Reads -> Nat \cup {Unread}] /\ cached.allowance = Unread
  BY ReadNames DEF Init
<1>3. /\ TxFields /\ tx.phase = None /\ tx.call = None /\ tx.why = None
      /\ tx.amount = 0 /\ tx.pledge = 0
  BY DEF Init, NoTransaction, TxFields
<1>4. amount = 0 /\ pledge = 0 /\ checks = << >> /\ lastAction = None
  BY DEF Init
<1>5. << >> \in Seq(BOOLEAN)
  OBVIOUS
<1>6. Typed
  BY <1>1, <1>2, <1>3, <1>4, <1>5 DEF Typed
<1>7. QED
  BY <1>2, <1>3, <1>4, <1>6 DEF FormInv, CheckFits, CallsFit, ActionFits, AllowanceFits, None

LEMMA FormInvariant == Spec => []FormInv
  BY FormInitHolds, FormStepHolds, PTL DEF Spec

(* The confirmation names the transaction that was confirmed, for every    *)
(* order of clicks, late timers and receipts, and for every amount         *)
(* (DepositForm, RepayForm, WithdrawForm).                                 *)
THEOREM ConfirmationsAreTrue == Spec => []ConfirmedMeansDone
  BY FormInvariant, InvNamesDone, PTL

(* A payment or a borrowing that was clicked on current reads never fails  *)
(* for want of an allowance, for every scale of the deposit's comparison,  *)
(* every allowance granted and every number of callbacks pending.          *)
THEOREM FreshPaymentsAllowed == Spec => []FreshFormsAreAllowed
  BY FormInvariant, InvAllows, PTL

-----------------------------------------------------------------------------
(* Follow-ups.  What is to be queued, and what is still to be read again.  *)
FollowUps == {"deposit", "withdraw", "repay", "approve", "wrap", "borrow"}
Queued == timers \in Seq(FollowUps) /\ lastAction \in FollowUps \cup {None}

(* The forms' own calls, clicked one at a time; what a follow-up that is   *)
(* still to come will have read again.  A borrowing empties the form, and  *)
(* its step, "wrap" again, is then followed up too: that reads the wrapped *)
(* tokens the borrowing took.                                              *)
Refetched(r) == \E i \in 1..Len(timers) : r \in Refetches(timers[i])
WillEmpty == /\ form = "borrow" /\ IsConfirmed /\ FollowUp # "wrap"
             /\ \E i \in 1..Len(timers) : timers[i] = "borrow"
Awaited(r) == r \in reading \/ Refetched(r) \/ (r = "weth" /\ WillEmpty)
Touched(call, r) == r \in Refetches(call) \/ (r = "weth" /\ call = "borrow")

Follows ==
  ~disturbed =>
    /\ Busy => reading = {} /\ timers = << >> /\ FollowUp = tx.call /\ OwnCall(tx.call)
    /\ \A r \in FollowedUp :
         ~Fresh(r) =>
           IF Busy THEN tx.phase = "done" /\ Touched(tx.call, r) ELSE Awaited(r)

FollowInv == Queued /\ Follows

LEMMA FollowsMeansFresh == FollowInv => SettledIsFresh
<1> SUFFICES ASSUME FollowInv, Settled, ~disturbed, NEW r \in FollowedUp, ~Fresh(r)
             PROVE  FALSE
  BY DEF SettledIsFresh
<1>1. Awaited(r)
  BY DEF FollowInv, Follows, Settled
<1>2. QED
  BY <1>1 DEF Awaited, Refetched, WillEmpty, Settled

LEMMA FollowInitHolds == Init => FollowInv
<1> SUFFICES ASSUME Init PROVE FollowInv
  OBVIOUS
<1>1. Queued
  BY DEF Init, Queued
<1>2. ~Busy
  BY DEF Init, Busy, IsPending, IsConfirming, NoTransaction, None
<1>3. \A r \in FollowedUp : Awaited(r)
  BY DEF Init, FollowedUp, Awaited
<1>4. QED
  BY <1>1, <1>2, <1>3 DEF FollowInv, Follows

LEMMA FollowUpTyped ==
  ASSUME FormInv, Queued PROVE FollowUp \in FollowUps \cup {None}
  BY DEF FormInv, Typed, Forms, Queued, FollowUp, FollowUps, Step

(* The confirmation effect keeps what is queued, and adds the follow-up    *)
(* when it has changed.                                                    *)
LEMMA EffectQueues ==
  ASSUME FormInv, Queued, UNCHANGED form, lastAction' \in {None, lastAction},
         NEW queue \in Seq(FollowUps), ConfirmedEffect(queue)
  PROVE  /\ Queued'
         /\ \A i \in 1..Len(queue) : i \in 1..Len(timers') /\ timers'[i] = queue[i]
         /\ IsConfirmed' /\ FollowUp' # None /\ <<IsConfirmed, FollowUp>>' # <<IsConfirmed, FollowUp>>
              => \E i \in 1..Len(timers') : timers'[i] = FollowUp'
<1> DEFINE new == FollowUp'
           adds == IsConfirmed' /\ new # None /\ <<IsConfirmed, FollowUp>>' # <<IsConfirmed, FollowUp>>
<1>1. new \in FollowUps \cup {None} /\ lastAction' \in FollowUps \cup {None}
  BY DEF FormInv, Typed, Forms, Queued, FollowUp, FollowUps, Step
<1>2. timers' = IF adds THEN Append(queue, new) ELSE queue
  BY DEF ConfirmedEffect
<1>3. CASE adds
  <2>1. new \in FollowUps
    BY <1>1, <1>3
  <2>2. timers' = Append(queue, new)
    BY <1>2, <1>3
  <2> HIDE DEF new, adds
  <2>3. /\ timers' \in Seq(FollowUps) /\ Len(timers') = Len(queue) + 1 /\ Len(queue) \in Nat
        /\ timers'[Len(queue) + 1] = new
        /\ \A i \in 1..Len(queue) : timers'[i] = queue[i]
    BY <2>1, <2>2
  <2>4. /\ Len(queue) + 1 \in 1..Len(timers')
        /\ \A i \in 1..Len(queue) : i \in 1..Len(timers')
    BY <2>3
  <2>5. \E i \in 1..Len(timers') : timers'[i] = FollowUp'
    BY <2>3, <2>4 DEF new
  <2>6. QED
    BY <1>1, <2>3, <2>4, <2>5 DEF Queued
<1>4. CASE ~adds
  <2>1. timers' = queue
    BY <1>2, <1>4
  <2>2. QED
    BY <1>1, <1>4, <2>1 DEF Queued
<1>5. QED
  BY <1>3, <1>4

(* What is awaited stays awaited until it is read: of a queue that has     *)
(* lost its first, that one's reads are under way.                         *)
LEMMA StaysAwaited ==
  ASSUME FormInv, Queued, UNCHANGED <<form, tx>>, lastAction' \in {None, lastAction},
         NEW queue \in Seq(FollowUps), ConfirmedEffect(queue),
         NEW r, Awaited(r), r \in reading => r \in reading',
         \A i \in 1..Len(timers) :
           \/ \E k \in 1..Len(queue) : queue[k] = timers[i]
           \/ /\ Refetches(timers[i]) \subseteq reading'
              /\ timers[i] = "borrow" => pledge' = 0
  PROVE  Awaited(r)'
<1>1. \A k \in 1..Len(queue) : k \in 1..Len(timers') /\ timers'[k] = queue[k]
  BY EffectQueues
<1>2. \A f : Refetches(f)' = Refetches(f)
  BY DEF Refetches
<1>3. CASE r \in reading
  BY <1>3 DEF Awaited
<1>4. CASE Refetched(r)
  <2>1. PICK i \in 1..Len(timers) : r \in Refetches(timers[i])
    BY <1>4 DEF Refetched
  <2>2. CASE \E k \in 1..Len(queue) : queue[k] = timers[i]
    <3>1. \E k \in 1..Len(timers') : timers'[k] = timers[i]
      BY <1>1, <2>2
    <3>2. QED
      BY <1>2, <2>1, <3>1 DEF Awaited, Refetched
  <2>3. CASE Refetches(timers[i]) \subseteq reading'
    BY <2>1, <2>3 DEF Awaited
  <2>4. QED
    BY <2>2, <2>3
<1>5. CASE r = "weth" /\ WillEmpty
  <2>1. /\ form' = "borrow" /\ form = "borrow" /\ IsConfirmed' /\ FollowUp # "wrap"
    BY <1>5 DEF WillEmpty, IsConfirmed
  <2>2. PICK i \in 1..Len(timers) : timers[i] = "borrow"
    BY <1>5 DEF WillEmpty
  <2>3. CASE FollowUp' = "wrap"
    <3>1. \E k \in 1..Len(timers') : timers'[k] = "wrap"
      BY <2>1, <2>3, EffectQueues DEF None
    <3>2. "weth" \in Refetches("wrap")'
      BY <2>1 DEF Refetches, BorrowRefetches
    <3>3. QED
      BY <1>5, <3>1, <3>2 DEF Awaited, Refetched
  <2>4. CASE FollowUp' # "wrap"
    <3>1. pledge' # 0
      BY <2>1, <2>4 DEF FollowUp, Step
    <3>2. \E k \in 1..Len(queue) : queue[k] = "borrow"
      BY <2>2, <3>1
    <3>3. \E k \in 1..Len(timers') : timers'[k] = "borrow"
      BY <1>1, <3>2
    <3>4. QED
      BY <1>5, <2>1, <2>4, <3>3 DEF Awaited, WillEmpty
  <2>5. QED
    BY <2>3, <2>4
<1>6. QED
  BY <1>3, <1>4, <1>5 DEF Awaited

(* Steps that leave alone what the follow-ups depend on.                   *)
LEMMA FollowsStays ==
  ASSUME FollowInv,
         UNCHANGED <<form, reading, tx, timers, disturbed>>, UNCHANGED <<FollowUp, lastAction>>,
         \A r \in FollowedUp : Fresh(r) => Fresh(r)'
  PROVE  FollowInv'
<1>1. /\ Queued' /\ Busy' = Busy /\ IsConfirmed' = IsConfirmed
      /\ FollowedUp' = FollowedUp
      /\ \A r, call : /\ Awaited(r)' = Awaited(r) /\ Touched(call, r)' = Touched(call, r)
                      /\ OwnCall(call)' = OwnCall(call)
  BY DEF FollowInv, Queued, Busy, IsPending, IsConfirming, IsConfirmed, FollowedUp, ReadsOf,
         VaultReads, PoolReads, Awaited, Refetched, WillEmpty, Touched, Refetches, OwnCall
<1>2. QED
  BY <1>1 DEF FollowInv, Follows

LEMMA DisturbedFollows == ASSUME Queued', disturbed' PROVE FollowInv'
  BY DEF FollowInv, Follows

LEMMA QueuedStays == ASSUME Queued, UNCHANGED <<timers, lastAction>> PROVE Queued'
  BY DEF Queued

LEMMA FormKeepsReads ==
  ASSUME UNCHANGED form
  PROVE  /\ FollowedUp' = FollowedUp
         /\ \A call : Refetches(call)' = Refetches(call) /\ OwnCall(call)' = OwnCall(call)
         /\ \A call, r : Touched(call, r)' = Touched(call, r)
  BY DEF FollowedUp, ReadsOf, VaultReads, PoolReads, Refetches, OwnCall, Touched

(* While no transaction is under way: inputs, answers and timers.          *)
LEMMA IdleFollows ==
  ASSUME FormInv, FollowInv, UNCHANGED <<form, tx, disturbed>>, ~Busy \/ disturbed,
         lastAction' \in {None, lastAction},
         NEW queue \in Seq(FollowUps), ConfirmedEffect(queue),
         \A r \in FollowedUp : /\ Fresh(r) => Fresh(r)'
                               /\ r \in reading => r \in reading' \/ Fresh(r)',
         \A i \in 1..Len(timers) :
           \/ \E k \in 1..Len(queue) : queue[k] = timers[i]
           \/ /\ Refetches(timers[i]) \subseteq reading'
              /\ timers[i] = "borrow" => pledge' = 0
  PROVE  FollowInv'
<1>1. Queued'
  BY EffectQueues DEF FollowInv
<1>2. CASE disturbed
  BY <1>1, <1>2, DisturbedFollows
<1>3. CASE ~disturbed
  <2>1. ~Busy /\ ~Busy'
    BY <1>3 DEF Busy, IsPending, IsConfirming
  <2>2. ASSUME NEW r \in FollowedUp, ~Fresh(r)' PROVE Awaited(r)'
    <3>1. ~Fresh(r) /\ (r \in reading => r \in reading')
      BY <2>2
    <3>2. Awaited(r)
      BY <1>3, <2>1, <3>1 DEF FollowInv, Follows
    <3>3. QED
      BY <3>1, <3>2, StaysAwaited DEF FollowInv
  <2>3. QED
    BY <1>1, <2>1, <2>2, FormKeepsReads DEF FollowInv, Follows
<1>4. QED
  BY <1>2, <1>3

LEMMA WholeQueue ==
  ASSUME Queued
  PROVE  timers \in Seq(FollowUps) /\ \A i \in 1..Len(timers) : \E k \in 1..Len(timers) : timers[k] = timers[i]
  BY DEF Queued

LEMMA InputsFollow ==
  ASSUME FormInv, FollowInv,
         (\E a : SetAmount(a)) \/ (\E a : TypePledge(a)), Controls # {}
  PROVE  FollowInv'
<1>1. /\ UNCHANGED <<form, chain, accrued, cached, reading, tx, lastAction, disturbed>>
      /\ ConfirmedEffect(timers)
  BY DEF SetAmount, TypePledge, Effects
<1>2. ~Busy
  BY DEF Controls, DepositControls, RepayControls, WithdrawControls, BorrowControls,
         FormInv, Typed, Forms
<1>3. Queued
  BY DEF FollowInv
<1>4. \A r : Fresh(r)' <=> Fresh(r)
  BY <1>1 DEF Fresh
<1>5. QED
  BY <1>1, <1>2, <1>3, <1>4, WholeQueue, IdleFollows

LEMMA AnswerFollows ==
  ASSUME FormInv, FollowInv, NEW r \in Reads, Answer(r)
  PROVE  FollowInv'
<1>1. /\ UNCHANGED <<form, chain, tx, pledge, lastAction, disturbed>>
      /\ r \in reading /\ reading' = reading \ {r}
      /\ cached' = [cached EXCEPT ![r] = chain[r]] /\ accrued' = [accrued EXCEPT ![r] = 0]
      /\ ConfirmedEffect(timers)
  BY DEF Answer, Effects, inputs
<1>2. Queued /\ (~Busy \/ disturbed)
  BY <1>1 DEF FollowInv, Follows
<1>3. DOMAIN cached = Reads /\ DOMAIN accrued = Reads /\ chain[r] \in Nat
  BY DEF FormInv, Typed
<1>4. \A q \in FollowedUp : q \in Reads
  BY DEF FollowedUp, ReadsOf, VaultReads, PoolReads, Reads, FormInv, Typed, Forms
<1>5. Fresh(r)'
  BY <1>1, <1>3 DEF Fresh, Unread
<1>6. \A q \in Reads : q # r => (Fresh(q)' <=> Fresh(q))
  BY <1>1, <1>3 DEF Fresh
<1>7. \A q \in FollowedUp : /\ Fresh(q) => Fresh(q)'
                            /\ q \in reading => q \in reading' \/ Fresh(q)'
  BY <1>1, <1>4, <1>5, <1>6
<1>8. QED
  BY <1>1, <1>2, <1>7, WholeQueue, IdleFollows

(* Interest takes the chain from what was read by just what has accrued.   *)
LEMMA AccrueFollows ==
  ASSUME FormInv, FollowInv, NEW r \in {"owned", "debt"}, Accrue(r)
  PROVE  FollowInv'
<1>1. /\ UNCHANGED <<form, cached, reading, tx, pledge, lastAction, timers, disturbed>>
      /\ chain' = [chain EXCEPT ![r] = @ + 1] /\ accrued' = [accrued EXCEPT ![r] = @ + 1]
  BY DEF Accrue, inputs
<1>2. /\ chain \in [Reads -> Nat] /\ accrued \in [Reads -> Nat] /\ r \in Reads
      /\ cached \in [Reads -> Nat \cup {Unread}]
  BY ReadNames DEF FormInv, Typed
<1>3. ASSUME NEW q \in FollowedUp, Fresh(q) PROVE Fresh(q)'
  <2>1. q \in Reads
    BY DEF FollowedUp, ReadsOf, VaultReads, PoolReads, Reads, FormInv, Typed, Forms
  <2>2. chain[q] \in Nat /\ accrued[q] \in Nat /\ cached[q] \in Nat
    BY <1>2, <1>3, <2>1 DEF Fresh
  <2>3. chain'[q] - chain[q] = accrued'[q] - accrued[q] /\ chain'[q] \in Nat /\ accrued'[q] \in Nat
    BY <1>1, <1>2, <2>1, <2>2
  <2>4. QED
    BY <1>1, <1>3, <2>2, <2>3 DEF Fresh
<1>4. Step' = Step
  <2>1. UNCHANGED <<pledge, cached>>
    BY <1>1
  <2>2. QED
    BY <2>1 DEF Step
<1>5. UNCHANGED FollowUp
  BY <1>1, <1>4 DEF FollowUp
<1>6. QED
  BY <1>1, <1>3, <1>5, FollowsStays

LEMMA FireTimerFollows == ASSUME FormInv, FollowInv, FireTimer PROVE FollowInv'
<1> DEFINE head == Head(timers)
           queue == Tail(timers)
<1>1. /\ timers # << >> /\ UNCHANGED <<form, chain, accrued, cached, tx, disturbed>>
      /\ reading' = reading \cup Refetches(head)
      /\ lastAction' \in {None, lastAction}
      /\ head = "borrow" => pledge' = 0
      /\ ConfirmedEffect(queue)
  BY DEF FireTimer, Empties
<1>2. timers \in Seq(FollowUps) /\ (~Busy \/ disturbed)
  BY <1>1 DEF FollowInv, Follows, Queued
<1>3. Len(timers) \in Nat \ {0}
  BY <1>1, <1>2, EmptySeq
<1>4. /\ queue \in Seq(FollowUps) /\ Len(queue) = Len(timers) - 1 /\ timers[1] = head
      /\ \A k \in 1..(Len(timers) - 1) : queue[k] = timers[k + 1]
  BY <1>1, <1>2, <1>3
<1> HIDE DEF queue, head
<1>5. ASSUME NEW i \in 1..Len(timers)
      PROVE  \/ \E k \in 1..Len(queue) : queue[k] = timers[i]
             \/ /\ Refetches(timers[i]) \subseteq reading'
                /\ timers[i] = "borrow" => pledge' = 0
  <2>1. CASE i = 1
    <3>1. timers[i] = head
      BY <1>4, <2>1
    <3>2. Refetches(head) \subseteq reading'
      BY <1>1
    <3>3. QED
      BY <1>1, <3>1, <3>2
  <2>2. CASE i # 1
    <3>1. i - 1 \in 1..(Len(timers) - 1) /\ (i - 1) + 1 = i
      BY <1>3, <2>2
    <3>2. queue[i - 1] = timers[i]
      BY <1>4, <3>1
    <3>3. QED
      BY <1>4, <3>1, <3>2
  <2>3. QED
    BY <2>1, <2>2
<1>6. \A r \in FollowedUp : /\ Fresh(r) => Fresh(r)'
                            /\ r \in reading => r \in reading' \/ Fresh(r)'
  BY <1>1 DEF Fresh
<1>7. /\ UNCHANGED <<form, tx, disturbed>> /\ (~Busy \/ disturbed)
      /\ lastAction' \in {None, lastAction} /\ queue \in Seq(FollowUps) /\ ConfirmedEffect(queue)
  BY <1>1, <1>2, <1>4
<1>8. QED
  BY <1>5, <1>6, <1>7, IdleFollows

LEMMA FocusFollows == ASSUME FormInv, FollowInv, WindowFocus PROVE FollowInv'
<1>1. /\ UNCHANGED <<form, chain, accrued, cached, tx, timers, lastAction>>
      /\ reading' = ReadsOf(form) /\ disturbed' = (disturbed \/ Busy)
  BY DEF WindowFocus, inputs
<1>2. Queued'
  BY <1>1, QueuedStays DEF FollowInv
<1>3. FollowedUp' \subseteq reading'
  BY <1>1, FormKeepsReads DEF FollowedUp
<1>4. Busy' = Busy
  BY <1>1 DEF Busy, IsPending, IsConfirming
<1>5. ~disturbed' => ~Busy'
  BY <1>1, <1>4
<1>6. \A r \in FollowedUp' : Awaited(r)'
  BY <1>3 DEF Awaited
<1>7. QED
  BY <1>2, <1>5, <1>6 DEF FollowInv, Follows

(* A click, once nothing is awaited any more.                              *)
LEMMA ClickFollows ==
  ASSUME FormInv, FollowInv, NEW call, WriteContract(call), OwnCall(call), FollowUp' = call,
         ConfirmedEffect(timers), lastAction' \in FollowUps \cup {None}
  PROVE  FollowInv'
<1>1. /\ UNCHANGED <<form, chain, accrued, cached, reading, pledge>> /\ call \in Controls
      /\ tx' = [phase |-> "wallet", call |-> call, amount |-> Arguments(call).amount,
                pledge |-> Arguments(call).pledge, why |-> None]
      /\ disturbed' = (disturbed \/ timers # << >> \/ reading # {})
  BY DEF WriteContract, Arguments
<1>2. tx'.phase = "wallet" /\ tx'.call = call
  BY <1>1
<1>3. Busy' /\ ~IsConfirmed'
  BY <1>2 DEF Busy, IsPending, IsConfirmed
<1>4. timers' = timers
  BY <1>3 DEF ConfirmedEffect
<1>5. Queued'
  BY <1>4 DEF FollowInv, Queued
<1>6. ~Busy
  BY <1>1 DEF Controls, DepositControls, RepayControls, WithdrawControls, BorrowControls,
         FormInv, Typed, Forms
<1>7. CASE disturbed'
  BY <1>5, <1>7, DisturbedFollows
<1>8. CASE ~disturbed'
  <2>1. ~disturbed /\ timers = << >> /\ reading = {}
    BY <1>1, <1>8
  <2>2. \A r : ~Awaited(r)
    BY <2>1 DEF Awaited, Refetched, WillEmpty
  <2>3. \A r \in FollowedUp : Fresh(r)
    BY <1>6, <2>1, <2>2 DEF FollowInv, Follows
  <2>4. reading' = {} /\ timers' = << >> /\ FollowUp' = tx'.call /\ OwnCall(call)'
    BY <1>1, <1>2, <1>4, <2>1, FormKeepsReads
  <2>5. \A r \in FollowedUp' : Fresh(r)'
    BY <1>1, <2>3, FormKeepsReads DEF Fresh
  <2>6. OwnCall(tx.call)'
    BY <1>1, <1>2 DEF OwnCall
  <2>7. QED
    BY <1>5, <2>4, <2>5, <2>6 DEF FollowInv, Follows
<1>9. QED
  BY <1>7, <1>8

LEMMA PayFollows ==
  ASSUME FormInv, FollowInv, HandleDeposit \/ HandleRepay \/ HandleApprove PROVE FollowInv'
<1>1. ASSUME HandleDeposit PROVE FollowInv'
  <2>1. /\ form = "deposit" /\ form' = form /\ WriteContract("deposit") /\ lastAction' = "deposit"
        /\ ConfirmedEffect(timers)
    BY <1>1 DEF HandleDeposit, Pay, Effects, WriteContract
  <2>2. OwnCall("deposit") /\ FollowUp' = "deposit" /\ lastAction' \in FollowUps \cup {None}
    BY <2>1 DEF OwnCall, FollowUp, FollowUps
  <2>3. QED
    BY <2>1, <2>2, ClickFollows
<1>2. ASSUME HandleRepay PROVE FollowInv'
  <2>1. /\ form = "repay" /\ form' = form /\ WriteContract("repay") /\ lastAction' = "repay"
        /\ ConfirmedEffect(timers)
    BY <1>2 DEF HandleRepay, Pay, Effects, WriteContract
  <2>2. OwnCall("repay") /\ FollowUp' = "repay" /\ lastAction' \in FollowUps \cup {None}
    BY <2>1 DEF OwnCall, FollowUp, FollowUps
  <2>3. QED
    BY <2>1, <2>2, ClickFollows
<1>3. ASSUME HandleApprove PROVE FollowInv'
  <2>1. /\ form \in {"deposit", "repay"} /\ form' = form
        /\ WriteContract("approve") /\ lastAction' = "approve" /\ ConfirmedEffect(timers)
    BY <1>3 DEF HandleApprove, Pays, Effects, WriteContract
  <2>2. OwnCall("approve") /\ FollowUp' = "approve" /\ lastAction' \in FollowUps \cup {None}
    BY <2>1 DEF OwnCall, FollowUp, FollowUps
  <2>3. QED
    BY <2>1, <2>2, ClickFollows
<1>4. QED
  BY <1>1, <1>2, <1>3

LEMMA OtherClickFollows ==
  ASSUME FormInv, FollowInv, HandleWithdraw \/ HandleAction PROVE FollowInv'
<1>1. lastAction \in FollowUps \cup {None}
  BY DEF FollowInv, Queued
<1>2. ASSUME HandleWithdraw PROVE FollowInv'
  <2>1. /\ form = "withdraw" /\ form' = form /\ WriteContract("withdraw")
        /\ lastAction' = lastAction /\ ConfirmedEffect(timers)
    BY <1>2 DEF HandleWithdraw, Effects, WriteContract
  <2>2. OwnCall("withdraw") /\ FollowUp' = "withdraw"
    BY <2>1 DEF OwnCall, FollowUp
  <2>3. QED
    BY <1>1, <2>1, <2>2, ClickFollows
<1>3. ASSUME HandleAction PROVE FollowInv'
  <2>1. /\ form = "borrow" /\ form' = form /\ WriteContract(Step) /\ UNCHANGED <<pledge, cached>>
        /\ lastAction' = lastAction /\ ConfirmedEffect(timers)
    BY <1>3 DEF HandleAction, Effects, WriteContract
  <2>2. OwnCall(Step) /\ FollowUp' = Step
    BY <2>1 DEF OwnCall, FollowUp, Step
  <2>3. QED
    BY <1>1, <2>1, <2>2, ClickFollows
<1>4. QED
  BY <1>2, <1>3

(* A transaction on its way, unless something disturbs: the reads are the  *)
(* chain's until it is mined, and then all but those it touches.           *)
LEMMA UnderWayFollows ==
  ASSUME FollowInv, UNCHANGED <<form, cached, reading, pledge, lastAction, timers, disturbed>>,
         Busy, tx'.call = tx.call,
         Busy' \/ tx'.phase = "rejected",
         tx.phase # "done",
         \A r \in FollowedUp :
           Fresh(r) /\ ~Fresh(r)' => tx'.phase = "done" /\ Touched(tx.call, r)
  PROVE  FollowInv'
<1>1. Queued'
  BY QueuedStays DEF FollowInv
<1>2. ASSUME ~disturbed
      PROVE  /\ reading = {} /\ timers = << >> /\ FollowUp = tx.call /\ OwnCall(tx.call)
             /\ \A r \in FollowedUp : Fresh(r)
  BY <1>2 DEF FollowInv, Follows
<1>3. FollowUp' = FollowUp
  BY DEF FollowUp, Step
<1>4. ASSUME ~disturbed, NEW r \in FollowedUp, ~Fresh(r)'
      PROVE  Busy' /\ tx'.phase = "done" /\ Touched(tx.call, r)
  BY <1>2, <1>4 DEF Busy
<1>5. \A r : Touched(tx.call, r) => Touched(tx.call, r)'
  BY DEF Touched, Refetches
<1>6. OwnCall(tx.call) => OwnCall(tx.call)'
  BY DEF OwnCall
<1>7. QED
  BY <1>1, <1>2, <1>3, <1>4, <1>5, <1>6, FormKeepsReads DEF FollowInv, Follows

LEMMA MineTouches ==
  ASSUME FormInv, Mine, OwnCall(tx.call), NEW r \in FollowedUp, chain'[r] # chain[r]
  PROVE  Touched(tx.call, r)
<1>1. chain \in [Reads -> Nat] /\ form \in Forms /\ r \in Reads
  BY DEF FormInv, Typed, FollowedUp, ReadsOf, VaultReads, PoolReads, Reads, Forms
<1>2. ASSUME tx.call = "approve" PROVE r = ApprovedToken
  <2>1. PICK granted : chain' = [chain EXCEPT ![ApprovedToken] = granted]
    BY <1>2 DEF Mine
  <2>2. QED
    BY <1>1, <2>1
<1>3. CASE form = "deposit"
  <2>1. r \in {"allowance", "owned"}
    BY <1>3 DEF FollowedUp, ReadsOf, VaultReads
  <2>2. tx.call \in {"approve", "deposit"}
    BY <1>3 DEF OwnCall
  <2>3. tx.call = "approve" => r = "allowance"
    BY <1>2, <1>3 DEF ApprovedToken
  <2>4. r \in Refetches(tx.call)
    BY <1>3, <2>1, <2>2, <2>3 DEF Refetches, DepositRefetches
  <2>5. QED
    BY <2>4 DEF Touched
<1>4. CASE form = "repay"
  <2>1. r \in {"allowance", "debt"}
    BY <1>4 DEF FollowedUp, ReadsOf, PoolReads
  <2>2. tx.call \in {"approve", "repay"}
    BY <1>4 DEF OwnCall
  <2>3. tx.call = "approve" => r = "allowance"
    BY <1>2, <1>4 DEF ApprovedToken
  <2>4. r \in Refetches(tx.call)
    BY <1>4, <2>1, <2>2, <2>3 DEF Refetches, RepayRefetches
  <2>5. QED
    BY <2>4 DEF Touched
<1>5. CASE form = "withdraw"
  BY <1>5 DEF FollowedUp, ReadsOf, VaultReads, Touched, Refetches, WithdrawRefetches
<1>6. CASE form = "borrow"
  <2>1. r \in {"debt", "collateral", "weth"}
    BY <1>6 DEF FollowedUp, ReadsOf, PoolReads
  <2>2. tx.call # "approve"
    BY <1>2, <1>6, <2>1 DEF ApprovedToken
  <2>3. CASE tx.call = "borrow"
    BY <1>6, <2>1, <2>3 DEF Touched, Refetches, BorrowRefetches
  <2>4. CASE tx.call = "wrap"
    <3>1. chain' = [chain EXCEPT !.eth = @ - tx.amount, !.weth = @ + tx.amount]
      BY <2>4 DEF Mine, Paid
    <3>2. \A q \in Reads : q \notin {"eth", "weth"} => chain'[q] = chain[q]
      BY <1>1, <3>1
    <3>3. r = "weth"
      BY <1>1, <2>1, <3>2
    <3>4. QED
      BY <1>6, <2>4, <3>3 DEF Touched, Refetches, BorrowRefetches
  <2>5. QED
    BY <1>6, <2>2, <2>3, <2>4 DEF OwnCall
<1>7. QED
  BY <1>1, <1>3, <1>4, <1>5, <1>6 DEF Forms

LEMMA WalletFollows ==
  ASSUME FormInv, FollowInv, Sign \/ Reject \/ Mine \/ Revert PROVE FollowInv'
<1>1. /\ UNCHANGED <<form, accrued, cached, reading, pledge, lastAction, timers, disturbed>>
      /\ tx.phase \in {"wallet", "sent"}
      /\ tx'.call = tx.call /\ tx'.phase \in {"sent", "rejected", "done", "failed"}
  BY DEF Sign, Reject, Mine, Revert, SetPhase, InPage, inputs, IsPending, FormInv, Typed, TxFields
<1>2. /\ Busy /\ tx.phase # "done"
      /\ Busy' \/ tx'.phase = "rejected"
  BY <1>1 DEF Busy, IsPending, IsConfirming
<1>3. CASE Sign \/ Reject \/ Revert
  <2>1. chain' = chain
    BY <1>3 DEF Sign, Reject, Revert
  <2>2. \A r : Fresh(r)' <=> Fresh(r)
    BY <1>1, <2>1 DEF Fresh
  <2>3. QED
    BY <1>1, <1>2, <2>2, UnderWayFollows
<1>4. CASE Mine
  <2>1. tx'.phase = "done"
    BY <1>4 DEF Mine, SetPhase, FormInv, Typed, TxFields
  <2>2. CASE disturbed
    BY <1>1, <2>2, QueuedStays, DisturbedFollows DEF FollowInv
  <2>3. CASE ~disturbed
    <3>1. OwnCall(tx.call)
      BY <1>2, <2>3 DEF FollowInv, Follows
    <3>2. \A r : Fresh(r) /\ ~Fresh(r)' => chain'[r] # chain[r]
      BY <1>1 DEF Fresh
    <3>3. QED
      BY <1>1, <1>2, <1>4, <2>1, <3>1, <3>2, MineTouches, UnderWayFollows
  <2>4. QED
    BY <2>2, <2>3
<1>5. QED
  BY <1>3, <1>4

(* The receipt starts the follow-up of what was confirmed.                 *)
LEMMA ReceiptFollows == ASSUME FormInv, FollowInv, Receipt PROVE FollowInv'
<1>1. /\ UNCHANGED <<form, chain, accrued, cached, reading, pledge, lastAction, disturbed>>
      /\ ConfirmedEffect(timers) /\ Queued /\ timers \in Seq(FollowUps)
  BY DEF Receipt, Effects, inputs, FollowInv, Queued
<1>2. /\ tx'.call = tx.call
      /\ \/ tx.phase = "done" /\ tx'.phase = "confirmed"
         \/ tx.phase = "failed" /\ tx'.phase = "reverted"
  BY DEF Receipt, SetPhase, FormInv, Typed, TxFields
<1>3. Queued'
  BY <1>1, EffectQueues
<1>4. Busy /\ ~IsConfirmed /\ ~Busy' /\ FollowUp' = FollowUp
  BY <1>1, <1>2 DEF Busy, IsPending, IsConfirming, IsConfirmed, FollowUp, Step
<1>5. CASE disturbed
  BY <1>1, <1>3, <1>5, DisturbedFollows
<1>6. CASE ~disturbed
  <2>1. /\ FollowUp = tx.call /\ OwnCall(tx.call)
        /\ \A r \in FollowedUp :
             ~Fresh(r) => tx.phase = "done" /\ Touched(tx.call, r)
    BY <1>4, <1>6 DEF FollowInv, Follows
  <2>2. ASSUME NEW r \in FollowedUp, ~Fresh(r)' PROVE Awaited(r)'
    <3>1. tx.phase = "done" /\ Touched(tx.call, r)
      BY <1>1, <2>1, <2>2 DEF Fresh
    <3>2. IsConfirmed' /\ tx.call # None
      BY <1>2, <2>1, <3>1 DEF IsConfirmed, OwnCall, None, FormInv, Typed, Forms
    <3>3. \E i \in 1..Len(timers') : timers'[i] = tx.call
      BY <1>1, <1>4, <2>1, <3>2, EffectQueues
    <3>4. CASE r \in Refetches(tx.call)
      BY <1>1, <3>3, <3>4, FormKeepsReads DEF Awaited, Refetched
    <3>5. CASE r = "weth" /\ tx.call = "borrow"
      <4>1. form' = "borrow" /\ FollowUp' # "wrap"
        BY <1>1, <1>4, <2>1, <3>5 DEF OwnCall, FormInv, Typed, Forms
      <4>2. QED
        BY <3>2, <3>3, <3>5, <4>1 DEF Awaited, WillEmpty
    <3>6. QED
      BY <3>1, <3>4, <3>5 DEF Touched
  <2>3. QED
    BY <1>1, <1>3, <1>4, <2>2, FormKeepsReads DEF FollowInv, Follows
<1>7. QED
  BY <1>5, <1>6

LEMMA FollowStepHolds == FormInv /\ FollowInv /\ [Next]_vars => FollowInv'
<1> SUFFICES ASSUME FormInv, FollowInv, [Next]_vars PROVE FollowInv'
  OBVIOUS
<1>1. ASSUME NEW r, Elsewhere(r) \/ ReadFails(r) PROVE FollowInv'
  <2>1. disturbed' /\ UNCHANGED <<timers, lastAction>>
    BY <1>1 DEF Elsewhere, ReadFails, inputs
  <2>2. QED
    BY <2>1, QueuedStays, DisturbedFollows DEF FollowInv
<1>2. ASSUME NEW a, Type(a) \/ TypePledge(a) PROVE FollowInv'
  BY <1>2, InputsFollow DEF Type, TypePledge
<1>3. ASSUME HandleMaxClick PROVE FollowInv'
  BY <1>3, InputsFollow DEF HandleMaxClick
<1>4. ASSUME FireCheck \/ UNCHANGED vars PROVE FollowInv'
  <2>1. UNCHANGED <<form, chain, accrued, cached, reading, tx, pledge, lastAction, timers, disturbed>>
    BY <1>4 DEF FireCheck, vars, inputs
  <2>2. UNCHANGED FollowUp /\ \A r : Fresh(r)' <=> Fresh(r)
    BY <2>1 DEF FollowUp, Step, Fresh
  <2>3. QED
    BY <2>1, <2>2, FollowsStays
<1>5. CASE User
  BY <1>1, <1>2, <1>3, <1>5, PayFollows, OtherClickFollows, WalletFollows, FocusFollows DEF User
<1>6. CASE Page
  BY <1>4, <1>6, FireTimerFollows, ReceiptFollows, AnswerFollows DEF Page
<1>7. QED
  BY <1>1, <1>4, <1>5, <1>6, AccrueFollows, WalletFollows DEF Next

(* Once every follow-up is over, the page knows what its transactions have *)
(* done: it shows the chain's allowances, claims and debt, and so the      *)
(* tokens a borrowing took, but for the interest since each was last read, *)
(* for every amount, allowance and growth, unless a read failed or the     *)
(* account was used elsewhere (the confirmation effects of the four forms, *)
(* useVault, useLendingPool).                                              *)
THEOREM SettlingRefreshes == Spec => []SettledIsFresh
  BY FormInvariant, FollowInitHolds, FollowStepHolds, FollowsMeansFresh, PTL DEF Spec
=============================================================================
