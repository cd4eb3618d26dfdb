--------------------------- MODULE EventListener ---------------------------
(***************************************************************************)
(* backend/apps/indexer: EventListenerService and the services it writes   *)
(* the database through.  One task walks the chain when the process        *)
(* starts; from then on a cron fires every ten seconds, whether or not an  *)
(* earlier run has finished, so several runs may be under way.  Tasks      *)
(* interleave at every await: a step here is the code between two awaits.  *)
(* Any awaited call may fail, and the process may be killed at any point;  *)
(* only the database survives that.  The chain is final: no                *)
(* reorganisation is modelled, nor does the code handle one.               *)
(***************************************************************************)
EXTENDS Integers, Sequences, FiniteSets, Functions

CONSTANTS
  Logs,         \* the contracts' logs, in chain order
  MaxBlock,     \* bound: the last block that is ever mined
  START_BLOCK, BATCH_SIZE,
  Startup,      \* the task onModuleInit runs
  CronRuns,     \* bound: runs of syncCheck that may be under way at once
  MaxFaults,    \* bound: calls that fail
  MaxCrashes    \* bound: times the process is killed

ASSUME ListenerConstants ==
  /\ MaxBlock \in Nat /\ START_BLOCK \in Nat /\ BATCH_SIZE \in Nat \ {0}
  /\ Startup \notin CronRuns /\ IsFiniteSet(CronRuns)
  /\ MaxFaults \in Nat /\ MaxCrashes \in Nat
  /\ DOMAIN Logs \subseteq Nat /\ IsFiniteSet(DOMAIN Logs)
  /\ \A i \in DOMAIN Logs :
       Logs[i].block \in 1..MaxBlock /\ Logs[i].contract \in {"Vault", "LendingPool"}

VARIABLES
  head,          \* number of the chain's latest block
  isIndexing,    \* the service's flag
  contractsSet,  \* did initializeContracts find addresses and ABIs
  running,       \* is the process up
  task,          \* task -> where it stands
  lastBlock,     \* IndexerState.lastBlockNumber, NoState without the row
  eventRows,     \* log -> rows in the events table
  recordRows,    \* log -> rows in the deposits, withdrawals or repayments table
  loans,         \* the loans table, in order of creation
  givenUp,       \* history: logs that ended in a swallowed error, or that no
                 \* contract was there to look for
  overlapped,    \* history: was a run of syncCheck started beside another
  faults, crashes

db == <<lastBlock, eventRows, recordRows, loans>>
process == <<isIndexing, contractsSet, running>>
budget == <<faults, crashes>>
vars == <<head, isIndexing, contractsSet, running, task, lastBlock, eventRows,
          recordRows, loans, givenUp, overlapped, faults, crashes>>

Tasks == {Startup} \cup CronRuns
LogIds == DOMAIN Logs
NoState == -1
Contracts == <<"Vault", "LendingPool">>

Idle == [pc |-> "idle", from |-> 0, batchEnd |-> 0, to |-> 0,
         contract |-> 1, logs |-> {}, loan |-> 0]

Init ==
  /\ head = 0
  /\ isIndexing = FALSE /\ contractsSet = FALSE /\ running = FALSE
  /\ task = [t \in Tasks |-> Idle]
  /\ lastBlock = NoState
  /\ eventRows = [i \in LogIds |-> 0]
  /\ recordRows = [i \in LogIds |-> 0]
  /\ loans = << >>
  /\ givenUp = {} /\ overlapped = FALSE
  /\ faults = 0 /\ crashes = 0

Fault == faults < MaxFaults /\ faults' = faults + 1
Goto(t, r) == task' = [task EXCEPT ![t] = r]

-----------------------------------------------------------------------------
(* Where a task goes next.                                                 *)
Lesser(a, b) == IF a < b THEN a ELSE b

FirstContract == IF contractsSet THEN "fetch" ELSE "store"

(* The loop over batches of blocks; syncCheck takes all of them at once.   *)
BatchUnclipped(t, from, to) == IF t = Startup THEN from + BATCH_SIZE - 1 ELSE to
BatchEnd(t, from, to) == IF t = Startup THEN Lesser(from + BATCH_SIZE - 1, to) ELSE to

NextBatch(t, r, from) ==
  IF from > r.to
  THEN Idle
  ELSE [r EXCEPT !.pc = FirstContract, !.from = from, !.contract = 1,
                 !.batchEnd = BatchEnd(t, from, r.to)]

NextContract(r) ==
  [r EXCEPT !.pc = IF r.contract < Len(Contracts) THEN "fetch" ELSE "store",
            !.contract = @ + 1, !.logs = {}, !.loan = 0]

(* The logs of a fetch are worked off one by one, in the chain's order.    *)
First(logs) == CHOOSE i \in logs : \A j \in logs : i <= j

NextLog(r) ==
  LET rest == r.logs \ {First(r.logs)} IN
  IF rest # {} THEN [r EXCEPT !.pc = "save", !.logs = rest, !.loan = 0] ELSE NextContract(r)

Current(t) == First(task[t].logs)

-----------------------------------------------------------------------------
(* The process starts with the settings and files of the moment: without   *)
(* addresses (as config/default.json has it) or ABIs, initializeContracts  *)
(* leaves the contracts out, and no call has failed.  startIndexing raises *)
(* the flag before it has read anything.                                   *)
Start ==
  /\ ~running /\ running' = TRUE /\ isIndexing' = TRUE
  /\ contractsSet' \in BOOLEAN
  /\ Goto(Startup, [Idle EXCEPT !.pc = "state"])
  /\ UNCHANGED <<overlapped, head, db, givenUp, budget>>

(* Crons are mounted once onModuleInit is over.                            *)
SyncCheck(t) ==
  /\ running /\ isIndexing
  /\ task[Startup].pc = "idle" /\ task[t].pc = "idle"
  /\ Goto(t, [Idle EXCEPT !.pc = "state"])
  /\ overlapped' = (overlapped \/ \E c \in CronRuns : task[c].pc # "idle")
  /\ UNCHANGED <<head, process, db, givenUp, budget>>

(* getState answers null when its query fails.  The startup task takes 0   *)
(* for "no state", the cron does not.                                      *)
FirstBlockTwoOn(t, last) == last + 2
FirstBlockAgain(t, last) == IF last = NoState THEN START_BLOCK ELSE last
FirstBlock(t, last) ==
  IF t = Startup
  THEN IF last \in {NoState, 0} THEN START_BLOCK ELSE last + 1
  ELSE last + 1

GetState(t) ==
  /\ task[t].pc = "state"
  /\ \/ Goto(t, [task[t] EXCEPT !.pc = "head", !.from = FirstBlock(t, lastBlock)])
        /\ UNCHANGED faults
     \/ Goto(t, [task[t] EXCEPT !.pc = "head", !.from = FirstBlock(t, NoState)])
        /\ Fault
  /\ UNCHANGED <<overlapped, head, process, db, givenUp, crashes>>

GetCurrentBlock(t) ==
  /\ task[t].pc = "head"
  /\ Goto(t, NextBatch(t, [task[t] EXCEPT !.to = head], task[t].from))
  /\ UNCHANGED <<overlapped, head, process, db, givenUp, budget>>

(* eth_getLogs of one contract for the batch. *)
LogsOf(contract, from, to) ==
  {i \in LogIds : Logs[i].contract = contract /\ Logs[i].block \in from..to}

GetLogs(t) ==
  LET r == task[t]
      found == LogsOf(Contracts[r.contract], r.from, r.batchEnd)
  IN
  /\ r.pc = "fetch"
  /\ Goto(t, IF found = {} THEN NextContract(r)
             ELSE [r EXCEPT !.pc = "save", !.logs = found])
  /\ UNCHANGED <<overlapped, head, process, db, givenUp, budget>>

(* The state row is written when every contract of the batch is done.      *)
StoresEarly(t) == task[t].pc \in {"fetch", "store"}
ReadyToStore(t) == task[t].pc = "store"

UpdateState(t) ==
  /\ ReadyToStore(t)
  /\ lastBlock' = task[t].batchEnd
  /\ givenUp' = IF contractsSet THEN givenUp
                ELSE givenUp \cup {i \in LogIds : Logs[i].block \in task[t].from..task[t].batchEnd}
  /\ Goto(t, NextBatch(t, task[t], task[t].batchEnd + 1))
  /\ UNCHANGED <<overlapped, head, process, eventRows, recordRows, loans, budget>>

(* A failure outside the loop over the logs ends the task; at startup it   *)
(* also lowers the flag, and nothing raises it again in this process.      *)
TaskFails(t) ==
  /\ task[t].pc \in {"head", "fetch", "store"}
  /\ Fault
  /\ isIndexing' = (isIndexing /\ t # Startup)
  /\ Goto(t, Idle)
  /\ UNCHANGED <<overlapped, head, contractsSet, running, db, givenUp, crashes>>

-----------------------------------------------------------------------------
(* One log: the raw event first, then the table of its kind, each a        *)
(* database call of its own with no transaction around them.               *)
SaveEvent(t) ==
  /\ task[t].pc = "save"
  /\ eventRows' = [eventRows EXCEPT ![Current(t)] = @ + 1]
  /\ Goto(t, [task[t] EXCEPT !.pc = "handle"])
  /\ UNCHANGED <<overlapped, head, process, lastBlock, recordRows, loans, givenUp, budget>>

(* An error while a log is handled is logged, and the loop goes on.        *)
SaveErrorIgnored(t) ==
  IF task[t].pc = "save" THEN [task[t] EXCEPT !.pc = "handle"] ELSE NextLog(task[t])
AfterError(t) == NextLog(task[t])

LogFails(t) ==
  /\ task[t].pc \in {"save", "handle", "find", "mark"}
  /\ Fault
  /\ givenUp' = givenUp \cup {Current(t)}
  /\ Goto(t, AfterError(t))
  /\ UNCHANGED <<overlapped, head, process, db, crashes>>

AddRecord(t, i) ==
  /\ recordRows' = [recordRows EXCEPT ![i] = @ + 1]
  /\ UNCHANGED <<loans, givenUp>>

(* deposits has @@unique([transactionHash, user]): a second row is refused.*)
IsRecorded(tx, user) ==
  \E j \in LogIds : recordRows[j] > 0 /\ Logs[j].kind = "Deposited"
                    /\ Logs[j].tx = tx /\ Logs[j].user = user

HandleDeposit(t, i) ==
  /\ Goto(t, NextLog(task[t]))
  /\ IF IsRecorded(Logs[i].tx, Logs[i].user)
     THEN givenUp' = givenUp \cup {i} /\ UNCHANGED <<recordRows, loans>>
     ELSE AddRecord(t, i)

HandleBorrow(t, i) ==
  /\ loans' = Append(loans, [log |-> i, status |-> "active"])
  /\ Goto(t, NextLog(task[t]))
  /\ UNCHANGED <<recordRows, givenUp>>

HandleRepay(t, i) == AddRecord(t, i) /\ Goto(t, [task[t] EXCEPT !.pc = "find"])

(* handleLiquidation reads args.amount, which the event does not have.     *)
HandleLiquidation(t, i) ==
  /\ givenUp' = givenUp \cup {i}
  /\ Goto(t, NextLog(task[t]))
  /\ UNCHANGED <<recordRows, loans>>

HandleEvent(t) ==
  LET i == Current(t) IN
  /\ task[t].pc = "handle"
  /\ CASE Logs[i].kind = "Deposited" -> HandleDeposit(t, i)
       [] Logs[i].kind = "Withdrawn" -> AddRecord(t, i) /\ Goto(t, NextLog(task[t]))
       [] Logs[i].kind = "Borrowed" -> HandleBorrow(t, i)
       [] Logs[i].kind = "Repaid" -> HandleRepay(t, i)
       [] Logs[i].kind = "Liquidated" -> HandleLiquidation(t, i)
       [] OTHER -> Goto(t, NextLog(task[t])) /\ UNCHANGED <<recordRows, loans, givenUp>>
  /\ UNCHANGED <<overlapped, head, process, lastBlock, eventRows, budget>>

(* handleRepay, after the repayment row: a latest active loan of the user  *)
(* is looked up, and marked repaid whatever the amount.                    *)
ActiveLoans(user) ==
  {k \in DOMAIN loans : loans[k].status = "active" /\ Logs[loans[k].log].user = user}
Latest(ks) ==
  {k \in ks : \A j \in ks : Logs[loans[j].log].block <= Logs[loans[k].log].block}

FindActiveLoan(t) ==
  LET active == ActiveLoans(Logs[Current(t)].user) IN
  /\ task[t].pc = "find"
  /\ \/ active = {} /\ Goto(t, NextLog(task[t]))
     \/ \E k \in Latest(active) : Goto(t, [task[t] EXCEPT !.pc = "mark", !.loan = k])
  /\ UNCHANGED <<overlapped, head, process, db, givenUp, budget>>

MarkAllRepaid(t) ==
  loans' = [k \in DOMAIN loans |->
              IF Logs[loans[k].log].user = Logs[Current(t)].user
              THEN [loans[k] EXCEPT !.status = "repaid"] ELSE loans[k]]
MarkRepaid(t) == loans' = [loans EXCEPT ![task[t].loan].status = "repaid"]

UpdateLoan(t) ==
  /\ task[t].pc = "mark"
  /\ MarkRepaid(t)
  /\ Goto(t, NextLog(task[t]))
  /\ UNCHANGED <<overlapped, head, process, lastBlock, eventRows, recordRows, givenUp, budget>>

-----------------------------------------------------------------------------
(* The environment: blocks are mined, and the process is killed.           *)
Mine ==
  /\ head < MaxBlock
  /\ head' = head + 1
  /\ UNCHANGED <<overlapped, process, task, db, givenUp, budget>>

Crash ==
  /\ running /\ crashes < MaxCrashes
  /\ crashes' = crashes + 1
  /\ running' = FALSE /\ isIndexing' = FALSE /\ contractsSet' = FALSE
  /\ task' = [t \in Tasks |-> Idle]
  /\ UNCHANGED <<overlapped, head, db, givenUp, faults>>

TaskStep(t) ==
  \/ GetState(t) \/ GetCurrentBlock(t) \/ GetLogs(t) \/ UpdateState(t)
  \/ SaveEvent(t) \/ HandleEvent(t) \/ FindActiveLoan(t) \/ UpdateLoan(t)

Next ==
  \/ Start \/ Mine \/ Crash
  \/ \E t \in CronRuns : SyncCheck(t)
  \/ \E t \in Tasks : TaskStep(t) \/ TaskFails(t) \/ LogFails(t)

(* The process is started again when it is down, the event loop runs every *)
(* task whose call has answered, and the timer keeps firing; nothing makes *)
(* a call fail or the process die.                                         *)
Fairness ==
  /\ WF_vars(Start) /\ WF_vars(Mine)
  /\ \A t \in Tasks : WF_vars(TaskStep(t))
  /\ \A t \in CronRuns : WF_vars(SyncCheck(t))

Spec == Init /\ [][Next]_vars
FairSpec == Spec /\ Fairness

-----------------------------------------------------------------------------
PCs == {"idle", "state", "head", "fetch", "store", "save", "handle", "find", "mark"}

(* Types; a task that is on a log has one, one that is to mark a loan      *)
(* names a row, and the stored block is one the chain has.                 *)
TypeOK ==
  /\ head \in 0..MaxBlock /\ lastBlock \in {NoState} \cup 0..head
  /\ {isIndexing, contractsSet, running} \subseteq BOOLEAN
  /\ \A t \in Tasks :
       /\ task[t].pc \in PCs
       /\ task[t].pc \in {"save", "handle", "find", "mark"} =>
            task[t].logs # {} /\ task[t].logs \subseteq LogIds
       /\ task[t].pc = "mark" => task[t].loan \in DOMAIN loans
  /\ eventRows \in [LogIds -> Nat] /\ recordRows \in [LogIds -> Nat]
  /\ \A k \in DOMAIN loans : loans[k] \in [log : LogIds, status : {"active", "repaid"}]
  /\ givenUp \subseteq LogIds /\ overlapped \in BOOLEAN
  /\ faults \in 0..MaxFaults /\ crashes \in 0..MaxCrashes

(* The stored block number is a promise: every log up to it has its row in *)
(* the events table, unless an error was swallowed on the way or the       *)
(* process had no contracts to look for (event-listener:40-45).  It holds  *)
(* however runs overlap, calls fail and the process dies, because a batch  *)
(* is stored only when all of it has been walked (event-listener:187), and *)
(* a run that finishes late can only lower the number again.               *)
NoSilentGap ==
  \A i \in LogIds :
    Logs[i].block \in START_BLOCK..lastBlock => eventRows[i] > 0 \/ i \in givenUp

(* A deposit, withdrawal, repayment or loan row always has a raw event row *)
(* beside it (event-listener:250 comes before the handlers), also where    *)
(* re-indexing has made several of each.                                   *)
LoanRows(i) == Cardinality({k \in DOMAIN loans : loans[k].log = i})
RecordsHaveEvents == \A i \in LogIds : recordRows[i] + LoanRows(i) <= eventRows[i]

(* Each loan row marked repaid has a repayment row of its own behind it:   *)
(* one repayment never closes two loans, not even when two runs handle the *)
(* same log between each other's lookup and update (loans.service:60-75).  *)
RepaymentRows ==
  SumFunction([i \in LogIds |-> IF Logs[i].kind = "Repaid" THEN recordRows[i] ELSE 0])
ClosedByRepayments ==
  Cardinality({k \in DOMAIN loans : loans[k].status = "repaid"}) <= RepaymentRows

(* For all that its tasks fail, overlap, are killed and start over, the    *)
(* indexer keeps the index that EventIndex describes: no step takes a row  *)
(* back, records what has no event row, closes a loan without a repayment  *)
(* to its name, drops a log without cause or stores the number of a block  *)
(* that the chain does not have or that is not done (event-listener:187,   *)
(* :231, :250; loans.service:60-75; state.service:25).                     *)
Records == [i \in LogIds |-> recordRows[i] + LoanRows(i)]
ClosedLoans == Cardinality({k \in DOMAIN loans : loans[k].status = "repaid"})
Index == INSTANCE EventIndex
  WITH mined <- head, claimed <- lastBlock, events <- eventRows, records <- Records,
       credit <- RepaymentRows - ClosedLoans, lost <- givenUp, errors <- faults,
       knowing <- contractsSet
KeepsIndex == Index!ISpec

(* As long as no two runs were under way together, a log is indexed once,  *)
(* and once more at most for every call that has failed and every time the *)
(* process was killed: the startup task and the runs hand on to each other *)
(* without a block taken twice, and what an interrupted walk had not       *)
(* stored, or a failed read of the state made it forget, is walked again   *)
(* no more than once for it (event-listener:152, :171, :188, :320).        *)
EventsOnce ==
  ~overlapped => \A i \in LogIds : eventRows[i] <= 1 + faults + crashes

(* If indexing does not stop for good, the index catches up with the chain *)
(* and stays there.                                                        *)
CatchesUp == <>[]isIndexing => <>[](lastBlock = MaxBlock)
=============================================================================
