--------------------------- MODULE DepositLedger ---------------------------
(***************************************************************************)
(* What the vault promises its depositors, with none of its machinery: a   *)
(* ledger that gives each account a claim on the vault beside the tokens   *)
(* in the account's own wallet.  A deposit turns tokens into exactly that  *)
(* much claim, a withdrawal turns claim back into tokens one for one, and  *)
(* the only other thing that may happen to a claim is that it grows while  *)
(* time passes.  No transaction of one account touches another's claim.    *)
(***************************************************************************)
EXTENDS Integers

CONSTANTS Accounts,   \* the addresses other than the vault's
          Amounts     \* token amounts a call may name

VARIABLES clock, claim, wallet

lvars == <<clock, claim, wallet>>

LInit ==
  /\ clock = 0
  /\ claim = [u \in Accounts |-> 0]
  /\ wallet \in [Accounts -> Nat]

Credit(u, amount) ==
  /\ amount <= wallet[u]
  /\ claim' = [claim EXCEPT ![u] = @ + amount]
  /\ wallet' = [wallet EXCEPT ![u] = @ - amount]
  /\ UNCHANGED clock

Debit(u, amount) ==
  /\ amount <= claim[u]
  /\ claim' = [claim EXCEPT ![u] = @ - amount]
  /\ wallet' = [wallet EXCEPT ![u] = @ + amount]
  /\ UNCHANGED clock

(* Tokens that move without a claim: a gift to the vault, or liquidity the *)
(* lending pool sends out.                                                 *)
Gift(u, amount) ==
  /\ amount <= wallet[u]
  /\ wallet' = [wallet EXCEPT ![u] = @ - amount]
  /\ UNCHANGED <<clock, claim>>

Lend(u, amount) ==
  /\ wallet' = [wallet EXCEPT ![u] = @ + amount]
  /\ UNCHANGED <<clock, claim>>

Accrue ==
  /\ clock' > clock
  /\ claim' \in [Accounts -> Nat]
  /\ \A u \in Accounts : /\ claim'[u] >= claim[u]
                         /\ claim[u] = 0 => claim'[u] = 0
  /\ UNCHANGED wallet

LNext ==
  \/ \E u \in Accounts, amount \in Amounts :
       Credit(u, amount) \/ Debit(u, amount) \/ Gift(u, amount) \/ Lend(u, amount)
  \/ Accrue

LSpec == LInit /\ [][LNext]_lvars
=============================================================================
