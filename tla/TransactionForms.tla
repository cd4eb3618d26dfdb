-------------------------- MODULE TransactionForms --------------------------
(***************************************************************************)
(* The frontend's four transaction forms (DepositForm, WithdrawForm,       *)
(* BorrowForm, RepayForm) on the hooks useVault and useLendingPool.  A     *)
(* form acts on cached reads of the chain, sends one transaction at a time *)
(* through the wallet, and follows a confirmed one up with timers nobody   *)
(* cancels.  One form is mounted: changing the tab unmounts it and mounts  *)
(* the other one afresh.  Amounts are numbers, 0 an empty input; the       *)
(* inputs are the decimal numerals that parseUnits accepts.                *)
(***************************************************************************)
EXTENDS Integers, Sequences

CONSTANTS
  Amounts,       \* form -> amounts a user may type
  Pledges,       \* amounts of collateral a user may type
  DepositScale,  \* 1e12: DepositForm compares 18 decimals with 6
  Unlimited,     \* 2^256 - 1, the allowance the hooks ask for
  Caps,          \* allowances a user may grant in the wallet instead
  Start,         \* form -> the chain as the form may find it
  MaxClaim,      \* bound: how far a claim or a debt grows by interest, unread or not
  MaxChecks, MaxTimers  \* bounds: callbacks of the two effects that may be pending

Forms == {"deposit", "withdraw", "repay", "borrow"}
Reads == {"usdt", "allowance", "owned", "debt", "eth", "weth", "wethAllowance", "collateral"}

ASSUME FormConstants ==
  /\ DepositScale \in Nat \ {0} /\ Pledges \subseteq Nat \ {0}
  /\ Unlimited \in Nat /\ Caps \subseteq 0..Unlimited
  /\ MaxClaim \in Nat /\ MaxChecks \in Nat \ {0} /\ MaxTimers \in Nat \ {0}
  /\ \A f \in Forms : /\ Start[f] \subseteq [Reads -> Nat]
                       /\ Amounts[f] \subseteq 1..Unlimited
                       /\ \A a \in Amounts[f] : a * DepositScale < Unlimited

VARIABLES
  form,           \* the form that is mounted
  chain,          \* read -> its value on the chain
  accrued,        \* history: read -> interest since the page last got its value
  cached,         \* read -> the value the page last got, Unread before
  reading,        \* reads that have been asked for
  tx,             \* the form's transaction, from click to receipt
  amount,         \* the amount input ("shares" in WithdrawForm)
  pledge,         \* BorrowForm's collateral input
  needsApproval, lastAction,
  checks,         \* setTimeout(..., 0) callbacks of the approval effect, in order
  timers,         \* the confirmation effect's callbacks, in order
  stale,          \* history: was the last click made on outdated reads
  disturbed       \* history: did anything get in the way of the follow-ups

inputs == <<amount, pledge, needsApproval, lastAction>>
vars == <<form, chain, accrued, cached, reading, tx, inputs, checks, timers, stale, disturbed>>

Unread == -1
None == "none"

(* What a form uses of the reads of its hook.                              *)
VaultReads(f) == IF f = "deposit" THEN {"usdt", "allowance", "owned"} ELSE {"owned"}
PoolReads(f) ==
  IF f = "repay" THEN {"usdt", "allowance", "debt"}
  ELSE {"debt", "collateral", "weth", "wethAllowance"}
ReadsOf(f) ==
  CASE f \in {"deposit", "withdraw"} -> VaultReads(f)
    [] f = "repay" -> PoolReads(f)
    [] f = "borrow" -> PoolReads(f) \cup {"eth"}

NoTransaction == [phase |-> None, call |-> None, amount |-> 0, pledge |-> 0, why |-> None]

Init ==
  /\ form \in Forms
  /\ chain \in Start[form]
  /\ accrued = [r \in Reads |-> 0]
  /\ cached = [r \in Reads |-> Unread]
  /\ reading = ReadsOf(form)
  /\ tx = NoTransaction
  /\ amount = 0 /\ pledge = 0
  /\ needsApproval = FALSE /\ lastAction = None
  /\ checks = << >> /\ timers = << >>
  /\ stale = FALSE /\ disturbed = FALSE

IsPending == tx.phase = "wallet"
IsConfirming == tx.phase \in {"sent", "done", "failed"}
IsConfirmed == tx.phase = "confirmed"
Busy == IsPending \/ IsConfirming

-----------------------------------------------------------------------------
(* The effects.  An effect runs after a render in which one of the values  *)
(* it depends on has changed, and closes over the values of that render.   *)
Pays == form \in {"deposit", "repay"}

NeedsOnlyFirst(a, allowance) == allowance = 0
Needs(a, allowance) == allowance < a * (IF form = "deposit" THEN DepositScale ELSE 1)

ApprovalEffect(queue) ==
  checks' =
    IF /\ Pays /\ amount' > 0 /\ cached'.allowance # Unread
       /\ <<amount, cached.allowance>>' # <<amount, cached.allowance>>
    THEN Append(queue, Needs(amount', cached'.allowance))
    ELSE queue

(* BorrowForm's step, derived from cached balances at every render.        *)
Step ==
  IF pledge = 0 \/ cached.weth < pledge THEN "wrap"
  ELSE IF cached.wethAllowance < pledge THEN "approve"
  ELSE "borrow"

(* What the form takes the confirmed transaction to have been.             *)
FollowUp ==
  CASE form = "borrow" -> Step
    [] form = "withdraw" -> "withdraw"
    [] OTHER -> lastAction

ConfirmedEffect(queue) ==
  timers' =
    IF IsConfirmed' /\ FollowUp' # None /\ <<IsConfirmed, FollowUp>>' # <<IsConfirmed, FollowUp>>
    THEN Append(queue, FollowUp')
    ELSE queue

Effects == ApprovalEffect(checks) /\ ConfirmedEffect(timers)

(* What the timer of a follow-up asks to be read again, form by form, and  *)
(* whether it empties the form.                                            *)
DepositRefetches(followUp) ==
  {"allowance"} \cup (IF followUp = "deposit" THEN {"owned"} ELSE {})
RefetchesNoDebt(followUp) == {"allowance"}
RefetchesOnlyDebt(followUp) == IF followUp = "repay" THEN {"debt"} ELSE {}
RepayRefetches(followUp) ==
  {"allowance"} \cup (IF followUp = "repay" THEN {"debt"} ELSE {})
BorrowRefetches(followUp) ==
  CASE followUp = "wrap" -> {"weth"}
    [] followUp = "approve" -> {"wethAllowance"}
    [] followUp = "borrow" -> {"debt", "collateral"}
WithdrawRefetches(followUp) == {"owned"}
Refetches(followUp) ==
  CASE form = "deposit" -> DepositRefetches(followUp)
    [] form = "repay" -> RepayRefetches(followUp)
    [] form = "borrow" -> BorrowRefetches(followUp)
    [] form = "withdraw" -> WithdrawRefetches(followUp)

Empties(followUp) == followUp \in {"deposit", "repay", "withdraw", "borrow"}

FireCheck ==
  /\ checks # << >>
  /\ needsApproval' = Head(checks)
  /\ checks' = Tail(checks)
  /\ UNCHANGED <<form, chain, accrued, cached, reading, tx, amount, pledge, lastAction, timers,
                 stale, disturbed>>

FireTimer ==
  /\ timers # << >>
  /\ LET followUp == Head(timers) IN
       /\ reading' = reading \cup Refetches(followUp)
       /\ IF Empties(followUp)
          THEN amount' = 0 /\ pledge' = 0 /\ lastAction' = None
          ELSE UNCHANGED <<amount, pledge, lastAction>>
  /\ UNCHANGED <<form, chain, accrued, cached, tx, needsApproval, stale, disturbed>>
  /\ ApprovalEffect(checks) /\ ConfirmedEffect(Tail(timers))

-----------------------------------------------------------------------------
(* The controls that a form shows enabled.  Everything is disabled while a *)
(* transaction is under way; RepayForm shows nothing while it knows of no  *)
(* debt; BorrowForm has one button for its three steps.                    *)
DepositControls ==
  {c \in {"amount", "max", "approve", "deposit"} : ~Busy /\
     CASE c = "amount" -> TRUE
       [] c = "max" -> cached.usdt > 0
       [] c = "approve" -> needsApproval /\ amount > 0
       [] c = "deposit" -> ~needsApproval /\ amount > 0 /\ cached.usdt > 0}

RepayControls ==
  {c \in {"amount", "max", "approve", "repay"} : ~Busy /\ cached.debt > 0 /\
     CASE c = "amount" -> TRUE
       [] c = "max" -> cached.usdt > 0
       [] c = "approve" -> needsApproval /\ amount > 0
       [] c = "repay" -> ~needsApproval /\ amount > 0 /\ cached.usdt > 0}

WithdrawControls ==
  {c \in {"amount", "max", "withdraw"} : ~Busy /\
     (c \in {"max", "withdraw"} => cached.owned > 0) /\ (c = "withdraw" => amount > 0)}

BorrowControls ==
  {c \in {"amount", "pledge", Step} : ~Busy /\
     (c = Step => amount > 0 /\ pledge > 0 /\ cached.eth > 0)}

Controls ==
  CASE form = "deposit" -> DepositControls
    [] form = "repay" -> RepayControls
    [] form = "withdraw" -> WithdrawControls
    [] form = "borrow" -> BorrowControls

MaxAmount ==
  CASE form = "deposit" -> cached.usdt
    [] form = "withdraw" -> cached.owned
    [] form = "repay" -> IF cached.debt < cached.usdt THEN cached.debt ELSE cached.usdt

(* Where a follow-up of the last confirmation is still to come, an input   *)
(* adds a check or a timer of its own.                                     *)
SetAmount(a) ==
  /\ Len(checks) < MaxChecks /\ amount' = a
  /\ UNCHANGED <<form, chain, accrued, cached, reading, tx, pledge, needsApproval, lastAction,
                 stale, disturbed>>
  /\ Effects

Type(a) == "amount" \in Controls /\ SetAmount(a)
HandleMaxClick == "max" \in Controls /\ SetAmount(MaxAmount)

TypePledge(a) ==
  /\ "pledge" \in Controls /\ Len(timers) < MaxTimers
  /\ pledge' = a
  /\ UNCHANGED <<form, chain, accrued, cached, reading, tx, amount, needsApproval, lastAction,
                 stale, disturbed>>
  /\ Effects

(* The arguments the hooks give the contracts.                             *)
VaultArguments(call) ==
  [amount |-> IF call = "approve" THEN Unlimited ELSE amount, pledge |-> 0]
PoolArguments(call) ==
  [amount |-> CASE call = "approve" -> Unlimited [] call = "wrap" -> pledge [] OTHER -> amount,
   pledge |-> IF call = "borrow" THEN pledge ELSE 0]

(* writeContract forgets the last transaction and opens the wallet.  The   *)
(* reads the button was drawn from are outdated when one of them, or the   *)
(* approval check, is not the chain's.                                     *)
WriteContract(call) ==
  LET arguments == IF form \in {"deposit", "withdraw"} THEN VaultArguments(call)
                   ELSE PoolArguments(call)
  IN
  /\ call \in Controls /\ Len(timers) < MaxTimers
  /\ tx' = [phase |-> "wallet", call |-> call, amount |-> arguments.amount,
            pledge |-> arguments.pledge, why |-> None]
  /\ stale' = \/ checks # << >>
              \/ \E r \in {"allowance", "weth", "wethAllowance"} \cap ReadsOf(form) :
                   cached[r] # chain[r]
  /\ disturbed' = (disturbed \/ timers # << >> \/ reading # {})
  /\ UNCHANGED <<form, chain, accrued, cached, reading, amount, pledge, needsApproval>>

HandleApprove == Pays /\ WriteContract("approve") /\ lastAction' = "approve" /\ Effects

PayKeepsLastAction(call) == WriteContract(call) /\ UNCHANGED lastAction /\ Effects
Pay(call) == WriteContract(call) /\ lastAction' = call /\ Effects
HandleDeposit == form = "deposit" /\ Pay("deposit")
HandleRepay == form = "repay" /\ Pay("repay")

HandleWithdraw ==
  form = "withdraw" /\ WriteContract("withdraw") /\ UNCHANGED lastAction /\ Effects

HandleAction == form = "borrow" /\ WriteContract(Step) /\ UNCHANGED lastAction /\ Effects

-----------------------------------------------------------------------------
(* The wallet and the chain.  The hooks name the gas of their calls, so    *)
(* that one which asks more than the account has or has allowed is sent    *)
(* too, and reverts; a contract may also have reasons of its own to revert *)
(* (minimum deposit, liquidity, health factor).                            *)
ApprovedToken == IF form = "borrow" THEN "wethAllowance" ELSE "allowance"
SetPhase(phase) == tx' = [tx EXCEPT !.phase = phase]
InPage == UNCHANGED <<form, accrued, cached, reading, inputs, checks, timers, stale>>

Sign ==
  /\ IsPending /\ SetPhase("sent")
  /\ InPage /\ UNCHANGED <<chain, disturbed>>
Reject ==
  /\ IsPending /\ SetPhase("rejected")
  /\ InPage /\ UNCHANGED <<chain, disturbed>>

Lesser(a, b) == IF a < b THEN a ELSE b

(* token and amount that the called contract takes with transferFrom.      *)
Taken ==
  CASE tx.call = "deposit" -> [token |-> "usdt", amount |-> tx.amount]
    [] tx.call = "repay" -> [token |-> "usdt", amount |-> Lesser(tx.amount, chain.debt)]
    [] tx.call = "borrow" -> [token |-> "weth", amount |-> tx.pledge]
    [] OTHER -> [token |-> None, amount |-> 0]

Covered ==
  CASE tx.call = "withdraw" -> chain.owned >= tx.amount
    [] tx.call = "wrap" -> chain.eth >= tx.amount
    [] tx.call = "approve" -> TRUE
    [] OTHER -> chain[Taken.token] >= Taken.amount

Paid ==
  LET left == IF chain[ApprovedToken] = Unlimited THEN Unlimited
              ELSE chain[ApprovedToken] - Taken.amount
      paying == [chain EXCEPT ![Taken.token] = @ - Taken.amount, ![ApprovedToken] = left]
  IN CASE tx.call = "deposit" -> [paying EXCEPT !.owned = @ + tx.amount]
       [] tx.call = "repay" -> [paying EXCEPT !.debt = @ - Taken.amount]
       [] tx.call = "borrow" ->
            [paying EXCEPT !.debt = @ + tx.amount, !.collateral = @ + tx.pledge]
       [] tx.call = "withdraw" -> [chain EXCEPT !.owned = @ - tx.amount]
       [] tx.call = "wrap" -> [chain EXCEPT !.eth = @ - tx.amount, !.weth = @ + tx.amount]

Mine ==
  /\ tx.phase = "sent" /\ Covered
  /\ Taken.amount <= chain[ApprovedToken]
  /\ IF tx.call = "approve"
     THEN \E granted \in {Unlimited} \cup (IF form = "borrow" THEN {} ELSE Caps) :
            chain' = [chain EXCEPT ![ApprovedToken] = granted]
     ELSE chain' = Paid
  /\ SetPhase("done")
  /\ InPage /\ UNCHANGED disturbed

Revert ==
  /\ tx.phase = "sent"
  /\ tx' = [tx EXCEPT !.phase = "failed",
                      !.why = IF Taken.amount > chain[ApprovedToken] THEN "allowance"
                              ELSE IF ~Covered THEN "balance" ELSE "refused"]
  /\ InPage /\ UNCHANGED <<chain, disturbed>>

(* The page learns of the receipt by polling.                              *)
Receipt ==
  /\ \/ tx.phase = "done" /\ SetPhase("confirmed")
     \/ tx.phase = "failed" /\ SetPhase("reverted")
  /\ UNCHANGED <<form, chain, accrued, cached, reading, inputs, stale, disturbed>>
  /\ Effects

(* A read answers with the chain's value, or fails and leaves the old one. *)
(* One failure, or one use of the account elsewhere, is enough of either.  *)
Answer(r) ==
  /\ r \in reading /\ Len(checks) < MaxChecks /\ Len(timers) < MaxTimers
  /\ cached' = [cached EXCEPT ![r] = chain[r]] /\ accrued' = [accrued EXCEPT ![r] = 0]
  /\ reading' = reading \ {r}
  /\ UNCHANGED <<form, chain, tx, inputs, stale, disturbed>>
  /\ Effects

ReadFails(r) ==
  /\ r \in reading /\ reading' = reading \ {r}
  /\ ~disturbed /\ disturbed' = TRUE
  /\ UNCHANGED <<form, chain, accrued, cached, tx, inputs, checks, timers, stale>>

(* Returning to the window reads everything anew.                          *)
WindowFocus ==
  /\ reading = {} /\ reading' = ReadsOf(form)
  /\ disturbed' = (disturbed \/ Busy)
  /\ UNCHANGED <<form, chain, accrued, cached, tx, inputs, checks, timers, stale>>

(* Interest: a claim and a debt grow with every second, and the page is    *)
(* not told; none of its reads is repeated for that.                       *)
Accrue(r) ==
  /\ chain[r] > 0 /\ chain[r] + accrued[r] < MaxClaim
  /\ chain' = [chain EXCEPT ![r] = @ + 1] /\ accrued' = [accrued EXCEPT ![r] = @ + 1]
  /\ UNCHANGED <<form, cached, reading, tx, inputs, checks, timers, stale, disturbed>>

(* The account is used elsewhere: tokens spent, an allowance revoked.      *)
Elsewhere(r) ==
  /\ chain[r] > 0 /\ chain' = [chain EXCEPT ![r] = 0]
  /\ ~disturbed /\ disturbed' = TRUE
  /\ stale' = TRUE
  /\ UNCHANGED <<form, accrued, cached, reading, tx, inputs, checks, timers>>

User ==
  \/ \E a \in Amounts[form] \cup {0} : Type(a)
  \/ \E a \in Pledges \cup {0} : TypePledge(a)
  \/ HandleMaxClick \/ HandleApprove \/ HandleDeposit \/ HandleRepay \/ HandleWithdraw \/ HandleAction
  \/ Sign \/ Reject \/ WindowFocus
  \/ \E r \in {"usdt", "weth", "allowance", "wethAllowance"} \cap ReadsOf(form) : Elsewhere(r)

Page == FireCheck \/ FireTimer \/ Receipt \/ \E r \in Reads : Answer(r)

Next ==
  \/ User \/ Page \/ Mine \/ Revert
  \/ \E r \in Reads : ReadFails(r)
  \/ \E r \in {"owned", "debt"} \cap ReadsOf(form) : Accrue(r)

(* Timers fire, receipts and reads arrive; nobody has to click or sign.    *)
(* An answer comes even while the user keeps typing (SF: the bound on      *)
(* pending checks holds it up while one is pending).                       *)
Fairness ==
  /\ WF_vars(FireCheck) /\ WF_vars(FireTimer) /\ WF_vars(Receipt)
  /\ SF_vars(Answer("allowance"))

Spec == Init /\ [][Next]_vars /\ Fairness

-----------------------------------------------------------------------------
(* The message under the button ("Deposit confirmed!", "Loan repaid        *)
(* successfully!", "Approval confirmed!") names the transaction that was   *)
(* confirmed, although it is chosen by lastAction, which clicks and late   *)
(* timers write (DepositForm.tsx:166, RepayForm.tsx:202).                  *)
ConfirmedMeansDone ==
  form # "borrow" /\ IsConfirmed /\ FollowUp # None => FollowUp = tx.call

(* A payment or a borrowing that was clicked while the page's reads and    *)
(* its approval check were up to date does not fail for want of an         *)
(* allowance: the two sides of a boundary, units included, agree           *)
(* (DepositForm.tsx:35, RepayForm.tsx:36, BorrowForm.tsx:50-56).           *)
FreshFormsAreAllowed == tx.why = "allowance" => stale

(* Once every follow-up is over, the page knows of all that its            *)
(* transactions have done: the allowances, claims and debt it shows are    *)
(* the chain's but for the interest since each was last read, whatever was *)
(* sent, rejected or reverted, as long as no read failed, nothing happened *)
(* elsewhere, and each click came after the follow-ups of the one before   *)
(* (DepositForm.tsx:45, RepayForm.tsx:46, WithdrawForm.tsx:24,             *)
(* BorrowForm.tsx:62).  The interest itself stays unseen: the hooks read   *)
(* Vault.balanceOf and LendingPool.getUserDebt on no schedule.             *)
Settled == ~Busy /\ timers = << >> /\ checks = << >> /\ reading = {}
FollowedUp == ReadsOf(form) \ {"usdt", "eth", "wethAllowance"}
Fresh(r) == cached[r] # Unread /\ chain[r] = cached[r] + accrued[r]
SettledIsFresh == Settled /\ ~disturbed => \A r \in FollowedUp : Fresh(r)

(* After an unlimited approval the form goes on to its second step by      *)
(* itself (DepositForm.tsx:46, RepayForm.tsx:47).                          *)
ApprovalLeadsOn ==
  []~disturbed =>
    (Pays /\ IsConfirmed /\ tx.call = "approve" /\ chain.allowance = Unlimited
       ~> amount = 0 \/ ~needsApproval)
=============================================================================
