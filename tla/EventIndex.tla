----------------------------- MODULE EventIndex -----------------------------
(***************************************************************************)
(* What the indexer promises to those who read its tables, with none of    *)
(* its machinery: no tasks, batches, overlapping runs or restarts.  Rows   *)
(* are only ever added, and only of what the chain has; a record follows a *)
(* raw event row of its own; closing a loan uses up a repayment; a log is  *)
(* lost to an error, where its row cannot be written, or to a claim of a   *)
(* process that knows no contracts, and not otherwise; and the stored      *)
(* block number may be set to any block up to which nothing but lost logs  *)
(* is missing.                                                             *)
(***************************************************************************)
EXTENDS Integers

CONSTANTS Logs,         \* the contracts' logs, in chain order
          START_BLOCK

VARIABLES
  mined,    \* number of the chain's latest block
  claimed,  \* the stored block number
  events,   \* log -> raw event rows
  records,  \* log -> deposit, withdrawal, repayment and loan rows
  credit,   \* repayment rows that have not closed a loan
  lost,     \* logs that were given up
  errors,   \* calls that have failed
  knowing   \* has the process that is up been told of the contracts

ivars == <<mined, claimed, events, records, credit, lost, errors, knowing>>

LogsUpTo(block) == {i \in DOMAIN Logs : Logs[i].block <= block}

IInit ==
  /\ mined = 0 /\ claimed = -1
  /\ events = [i \in DOMAIN Logs |-> 0]
  /\ records = [i \in DOMAIN Logs |-> 0]
  /\ credit = 0 /\ lost = {} /\ errors = 0 /\ knowing = FALSE

(* A process starts, told of the contracts or not, or is gone.             *)
Restart ==
  /\ knowing' \in BOOLEAN
  /\ UNCHANGED <<mined, claimed, events, records, credit, lost, errors>>

Grow ==
  /\ mined' = mined + 1
  /\ UNCHANGED <<claimed, events, records, credit, lost, errors, knowing>>

AddEvent(i) ==
  /\ events' = [events EXCEPT ![i] = @ + 1]
  /\ UNCHANGED <<mined, claimed, records, credit, lost, errors, knowing>>

Record(i) ==
  /\ records[i] < events[i]
  /\ records' = [records EXCEPT ![i] = @ + 1]
  /\ credit' = IF Logs[i].kind = "Repaid" THEN credit + 1 ELSE credit
  /\ UNCHANGED <<mined, claimed, events, lost, errors, knowing>>

CloseLoan ==
  /\ credit > 0
  /\ credit' = credit - 1
  /\ UNCHANGED <<mined, claimed, events, records, lost, errors, knowing>>

(* The rows that cannot be written: a liquidation's, and that of a second  *)
(* deposit of a user in a transaction.                                     *)
Refused(i) ==
  \/ Logs[i].kind = "Liquidated"
  \/ /\ Logs[i].kind = "Deposited"
     /\ \E j \in DOMAIN Logs :
          /\ records[j] > 0 /\ Logs[j].kind = "Deposited"
          /\ Logs[j].tx = Logs[i].tx /\ Logs[j].user = Logs[i].user

GiveUp(i) ==
  /\ Refused(i) /\ events[i] > 0
  /\ lost' = lost \cup {i}
  /\ UNCHANGED <<mined, claimed, events, records, credit, errors, knowing>>

Fail ==
  /\ errors' = errors + 1
  /\ \/ lost' = lost
     \/ \E i \in LogsUpTo(mined) : lost' = lost \cup {i}
  /\ UNCHANGED <<mined, claimed, events, records, credit, knowing>>

(* Who knows no contracts gives up the logs that are claimed.              *)
Claim(block) ==
  /\ claimed' = block
  /\ \/ lost' = lost
     \/ ~knowing /\ lost \subseteq lost' /\ lost' \ lost \subseteq LogsUpTo(block)
  /\ \A i \in LogsUpTo(block) : Logs[i].block >= START_BLOCK => events[i] > 0 \/ i \in lost'
  /\ UNCHANGED <<mined, events, records, credit, errors, knowing>>

INext ==
  \/ Grow \/ Restart \/ CloseLoan \/ Fail
  \/ \E i \in LogsUpTo(mined) : AddEvent(i) \/ Record(i) \/ GiveUp(i)
  \/ \E block \in 0..mined : Claim(block)

ISpec == IInit /\ [][INext]_ivars
=============================================================================
