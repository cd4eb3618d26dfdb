-------------------------- MODULE MCTransactionForms --------------------------
(* Small instances of TransactionForms for TLC.                              *)
EXTENDS TransactionForms, TLC

MCAmounts ==
  [f \in Forms |-> CASE f = "borrow" -> {1} [] f = "repay" -> {2} [] OTHER -> {1, 2}]

Nothing == [r \in Reads |-> 0]

(* The chain as a form may find it: approved already, in part, or not.     *)
MCStart ==
  [f \in Forms |->
     CASE f = "deposit" ->
            {[Nothing EXCEPT !.usdt = 1, !.allowance = a] : a \in {0, 1}}
       [] f = "withdraw" -> {[Nothing EXCEPT !.owned = 1]}
       [] f = "repay" ->
            {[Nothing EXCEPT !.usdt = 2, !.debt = 1, !.allowance = a] : a \in {0, 1}}
       [] f = "borrow" ->
            {[Nothing EXCEPT !.eth = 1]}]
==============================================================================
