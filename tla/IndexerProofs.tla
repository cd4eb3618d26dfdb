---------------------------- MODULE IndexerProofs ----------------------------
(***************************************************************************)
(* Proofs about the indexer.                                               *)
(*                                                                         *)
(* No silent gap: the stored block number alone is no inductive invariant; *)
(* what makes it true is what every task under way has behind it (all      *)
(* blocks before its batch) and what of its batch it still has ahead of it *)
(* (the logs of its fetch, and those of the contracts it has not come to). *)
(* The logs that are done only ever become more, so overlapping tasks,     *)
(* failures and crashes do no harm.                                        *)
(*                                                                         *)
(* Records have events: for every log, the tasks standing between the raw  *)
(* event and its record are counted, and rows exceed records by those.     *)
(*                                                                         *)
(* Loans are closed by repayments: each closed loan is one repayment row   *)
(* or one task on its way to write it.                                     *)
(*                                                                         *)
(* Each log once, and once more for each failure: a single task walks at a *)
(* time, what it has walked is stored, and a failure sends it back once.   *)
(*                                                                         *)
(* And the index that EventIndex describes is kept: what these invariants  *)
(* say together of each step.                                              *)
(***************************************************************************)
EXTENDS EventListener, Arithmetic, SequenceTheorems

Done == {i \in LogIds : eventRows[i] > 0 \/ i \in givenUp}

Position(i) == IF Logs[i].contract = "Vault" THEN 1 ELSE 2

OnLog == {"save", "handle", "find", "mark"}
InBatch == {"fetch", "store"} \cup OnLog

(* The logs that task record r has still to save.                          *)
ToSave(r) == IF r.pc = "save" THEN r.logs ELSE r.logs \ {First(r.logs)}
Ahead(r, i) ==
  \/ r.pc = "fetch" /\ Position(i) >= r.contract
  \/ r.pc \in OnLog /\ (i \in ToSave(r) \/ Position(i) > r.contract)

Shaped(r) ==
  /\ {"pc", "from", "batchEnd", "to", "contract", "logs", "loan"} \subseteq DOMAIN r
  /\ r.from \in Int /\ r.batchEnd \in Int /\ r.to \in Int

(* All logs of the blocks before number n are in the set done.             *)
Behind(n, done) == \A i \in LogIds : Logs[i].block \in START_BLOCK..(n - 1) => i \in done

(* Task record r, when these logs are done; set is contractsSet.           *)
Walks(r, done, set) ==
  /\ Shaped(r)
  /\ r.pc \in {"head"} \cup InBatch => Behind(r.from, done)
  /\ r.pc \in InBatch /\ set =>
       /\ \A i \in LogIds : Logs[i].block \in r.from..r.batchEnd => i \in done \/ Ahead(r, i)
       /\ r.pc # "store" => r.contract \in {1, 2}
  /\ r.pc \in InBatch /\ ~set => r.pc = "store"

Numbers ==
  /\ head \in Int /\ lastBlock \in Int
  /\ eventRows \in [LogIds -> Nat]
  /\ contractsSet \in BOOLEAN
  /\ task = [t \in Tasks |-> task[t]]

IndexInv ==
  /\ Numbers
  /\ Behind(lastBlock + 1, Done)
  /\ \A t \in Tasks : Walks(task[t], Done, contractsSet)
  /\ ~running => \A t \in Tasks : task[t] = Idle

LEMMA InvIsEnough == IndexInv => NoSilentGap
  BY ListenerConstants DEF IndexInv, Numbers, Behind, Done, NoSilentGap

LEMMA LogFacts ==
  \A i \in LogIds : /\ Logs[i].block \in Int
                    /\ Position(i) \in {1, 2}
                    /\ Logs[i].contract = Contracts[Position(i)]
  BY ListenerConstants DEF LogIds, Position, Contracts

LEMMA IdleWalks ==
  ASSUME NEW done, NEW set PROVE Walks(Idle, done, set)
  BY DEF Walks, Shaped, Idle, InBatch, OnLog

-----------------------------------------------------------------------------
(* What is done stays done, and so every task that does not move itself    *)
(* still walks.                                                            *)
LEMMA WalksOn ==
  ASSUME NEW done, NEW more, done \subseteq more, NEW set, NEW r, Walks(r, done, set)
  PROVE  Walks(r, more, set)
  BY DEF Walks, Behind

LEMMA BehindOn ==
  ASSUME NEW done, NEW more, done \subseteq more, NEW n, Behind(n, done)
  PROVE  Behind(n, more)
  BY DEF Behind

(* One task moves on, the process stays up.                                *)
LEMMA OneTaskMoves ==
  ASSUME IndexInv, NEW t \in Tasks, NEW r, Goto(t, r), Done \subseteq Done',
         UNCHANGED <<contractsSet, running>>, running,
         head' \in Int, lastBlock' \in Int, eventRows' \in [LogIds -> Nat],
         Behind(lastBlock' + 1, Done'), Walks(r, Done', contractsSet)
  PROVE  IndexInv'
<1>1. \A u \in Tasks : task'[u] = IF u = t THEN r ELSE task[u]
  BY DEF IndexInv, Numbers, Goto
<1>2. \A u \in Tasks : Walks(task[u], Done', contractsSet)
  BY WalksOn DEF IndexInv
<1>3. \A u \in Tasks : Walks(task'[u], Done', contractsSet')
  BY <1>1, <1>2
<1>4. Numbers'
  BY DEF IndexInv, Numbers, Goto
<1>5. QED
  BY <1>3, <1>4 DEF IndexInv

(* The same, for a step that writes nothing but errors.                    *)
LEMMA OneTaskReads ==
  ASSUME IndexInv, NEW t \in Tasks, NEW r, Goto(t, r), task[t].pc # "idle" \/ running,
         UNCHANGED <<contractsSet, running, head, lastBlock, eventRows>>,
         givenUp \subseteq givenUp', Walks(r, Done', contractsSet)
  PROVE  IndexInv'
<1>1. Done \subseteq Done'
  BY DEF Done
<1>2. running
  BY DEF IndexInv, Idle
<1>3. Behind(lastBlock' + 1, Done')
  BY <1>1, BehindOn DEF IndexInv
<1>4. head' \in Int /\ lastBlock' \in Int /\ eventRows' \in [LogIds -> Nat]
  BY DEF IndexInv, Numbers
<1>5. QED
  BY <1>1, <1>2, <1>3, <1>4, OneTaskMoves

-----------------------------------------------------------------------------
(* Where a task goes next.                                                 *)
LEMMA NextContractWalks ==
  ASSUME NEW r, NEW done, Walks(r, done, TRUE), r.pc \in InBatch, r.contract \in {1, 2},
         \A i \in LogIds : Logs[i].block \in r.from..r.batchEnd =>
           i \in done \/ Position(i) > r.contract
  PROVE  Walks(NextContract(r), done, TRUE)
<1> DEFINE new == NextContract(r)
<1>1. /\ Shaped(new)
      /\ new.from = r.from /\ new.batchEnd = r.batchEnd
      /\ new.contract = r.contract + 1
      /\ new.pc = IF r.contract < 2 THEN "fetch" ELSE "store"
  BY DEF NextContract, Walks, Shaped, Contracts
<1>2. Behind(new.from, done)
  BY <1>1 DEF Walks
<1>3. \A i \in LogIds : Logs[i].block \in new.from..new.batchEnd => i \in done \/ Ahead(new, i)
  BY <1>1, LogFacts DEF Ahead
<1>4. new.pc # "store" => new.contract \in {1, 2}
  BY <1>1
<1> HIDE DEF new
<1>5. Walks(new, done, TRUE)
  BY <1>1, <1>2, <1>3, <1>4 DEF Walks
<1>6. QED
  BY <1>5 DEF new

(* A log is done with: it has its row, or is given up.                     *)
LEMMA NextLogWalks ==
  ASSUME NEW r, NEW done, Walks(r, done, TRUE), r.pc \in OnLog,
         \A i \in LogIds : Logs[i].block \in r.from..r.batchEnd =>
           i \in done \/ i \in r.logs \ {First(r.logs)} \/ Position(i) > r.contract
  PROVE  Walks(NextLog(r), done, TRUE)
<1> DEFINE rest == r.logs \ {First(r.logs)}
<1>1. r.contract \in {1, 2} /\ r.pc \in InBatch /\ r.pc # "store"
  BY DEF Walks, InBatch, OnLog
<1>2. CASE rest = {}
  BY <1>1, <1>2, NextContractWalks DEF NextLog
<1>3. CASE rest # {}
  <2> DEFINE new == [r EXCEPT !.pc = "save", !.logs = rest, !.loan = 0]
  <2> HIDE DEF rest
  <2>1. /\ Shaped(new) /\ new.pc = "save" /\ new.logs = rest
        /\ new.from = r.from /\ new.batchEnd = r.batchEnd /\ new.contract = r.contract
    BY DEF Walks, Shaped
  <2>2. NextLog(r) = new
    BY <1>3 DEF NextLog, rest
  <2>3. Behind(new.from, done)
    BY <1>1, <2>1 DEF Walks
  <2>4. \A i \in LogIds : Logs[i].block \in new.from..new.batchEnd => i \in done \/ Ahead(new, i)
    BY <2>1 DEF Ahead, ToSave, OnLog, rest
  <2> HIDE DEF new
  <2>5. Walks(new, done, TRUE)
    BY <1>1, <2>1, <2>3, <2>4 DEF Walks
  <2>6. QED
    BY <2>2, <2>5
<1>4. QED
  BY <1>2, <1>3

(* A batch begins with all of it ahead, or, without contracts, at its end. *)
LEMMA NextBatchWalks ==
  ASSUME NEW t, NEW r, Shaped(r), NEW from \in Int, NEW done, Behind(from, done),
         contractsSet \in BOOLEAN
  PROVE  Walks(NextBatch(t, r, from), done, contractsSet)
<1>1. CASE from > r.to
  BY <1>1, IdleWalks DEF NextBatch
<1>2. CASE ~(from > r.to)
  <2> DEFINE new == [r EXCEPT !.pc = FirstContract, !.from = from, !.contract = 1,
                              !.batchEnd = BatchEnd(t, from, r.to)]
  <2>1. BatchEnd(t, from, r.to) \in Int
    BY ListenerConstants DEF BatchEnd, Lesser, Shaped
  <2>2. /\ Shaped(new) /\ new.pc = FirstContract
        /\ new.from = from /\ new.contract = 1
    BY <2>1 DEF Shaped
  <2>3. NextBatch(t, r, from) = new
    BY <1>2 DEF NextBatch
  <2> HIDE DEF new
  <2>4. contractsSet => \A i \in LogIds : Ahead(new, i)
    BY <2>2, LogFacts DEF Ahead, FirstContract
  <2>5. Walks(new, done, contractsSet)
    BY <2>2, <2>4 DEF Walks, FirstContract, InBatch, OnLog
  <2>6. QED
    BY <2>3, <2>5
<1>3. QED
  BY <1>1, <1>2

-----------------------------------------------------------------------------
(* The steps.                                                              *)
LEMMA StartStep == ASSUME IndexInv, Start PROVE IndexInv'
<1> DEFINE r == [Idle EXCEPT !.pc = "state"]
<1>1. /\ ~running /\ running' /\ contractsSet' \in BOOLEAN
      /\ Goto(Startup, r)
      /\ UNCHANGED <<head, lastBlock, eventRows, givenUp>>
  BY DEF Start, db
<1>2. Walks(r, Done', contractsSet') /\ Walks(Idle, Done', contractsSet')
  BY IdleWalks DEF Walks, Shaped, Idle, InBatch, OnLog
<1> HIDE DEF r
<1>3. \A t \in Tasks : task'[t] \in {r, Idle}
  BY <1>1 DEF IndexInv, Numbers, Goto
<1>4. \A t \in Tasks : Walks(task'[t], Done', contractsSet')
  BY <1>2, <1>3
<1>5. Numbers' /\ Behind(lastBlock' + 1, Done')
  BY <1>1 DEF IndexInv, Numbers, Goto, Behind, Done
<1>6. QED
  BY <1>1, <1>4, <1>5 DEF IndexInv

LEMMA SyncCheckStep == ASSUME IndexInv, NEW t \in CronRuns, SyncCheck(t) PROVE IndexInv'
<1> DEFINE r == [Idle EXCEPT !.pc = "state"]
<1>1. Walks(r, Done', contractsSet)
  BY DEF Walks, Shaped, Idle, InBatch, OnLog
<1>2. /\ t \in Tasks /\ running /\ Goto(t, r)
      /\ UNCHANGED <<contractsSet, running, head, lastBlock, eventRows, givenUp>>
  BY DEF SyncCheck, Tasks, process, db
<1> HIDE DEF r
<1>3. QED
  BY <1>1, <1>2, OneTaskReads

(* Both tasks start right behind what is stored.                           *)
LEMMA FirstBlockIsNext ==
  ASSUME IndexInv, NEW t, NEW from \in {FirstBlock(t, lastBlock), FirstBlock(t, NoState)}
  PROVE  from \in Int /\ Behind(from, Done)
<1>1. lastBlock \in Int /\ Behind(lastBlock + 1, Done) /\ START_BLOCK \in Nat
  BY ListenerConstants DEF IndexInv, Numbers
<1>2. Behind(START_BLOCK, Done)
  BY <1>1, LogFacts DEF Behind
<1>3. Behind(NoState + 1, Done)
  BY <1>1, LogFacts DEF Behind, NoState
<1>4. QED
  BY <1>1, <1>2, <1>3 DEF FirstBlock, NoState

LEMMA GetStateStep == ASSUME IndexInv, NEW t \in Tasks, GetState(t) PROVE IndexInv'
<1>1. PICK from \in {FirstBlock(t, lastBlock), FirstBlock(t, NoState)} :
        Goto(t, [task[t] EXCEPT !.pc = "head", !.from = from])
  BY DEF GetState
<1> DEFINE r == [task[t] EXCEPT !.pc = "head", !.from = from]
<1>2. from \in Int /\ Behind(from, Done)
  BY FirstBlockIsNext
<1>3. /\ UNCHANGED <<contractsSet, running, head, lastBlock, eventRows, givenUp>>
      /\ task[t].pc # "idle"
  BY DEF GetState, process, db
<1>4. Shaped(r) /\ r.pc = "head" /\ r.from = from
  BY <1>2 DEF IndexInv, Walks, Shaped
<1>5. Goto(t, r)
  BY <1>1
<1> HIDE DEF r
<1>6. Walks(r, Done, contractsSet)
  BY <1>2, <1>4 DEF Walks, InBatch, OnLog
<1>7. Done' = Done
  BY <1>3 DEF Done
<1>8. QED
  BY <1>3, <1>5, <1>6, <1>7, OneTaskReads

LEMMA GetCurrentBlockStep ==
  ASSUME IndexInv, NEW t \in Tasks, GetCurrentBlock(t) PROVE IndexInv'
<1> DEFINE r == [task[t] EXCEPT !.to = head]
           new == NextBatch(t, r, task[t].from)
<1>1. /\ Goto(t, new) /\ task[t].pc = "head"
      /\ UNCHANGED <<contractsSet, running, head, lastBlock, eventRows, givenUp>>
  BY DEF GetCurrentBlock, process, db
<1>2. Shaped(r)
  BY DEF IndexInv, Numbers, Walks, Shaped
<1>3. task[t].from \in Int /\ Behind(task[t].from, Done) /\ contractsSet \in BOOLEAN
  BY <1>1 DEF IndexInv, Numbers, Walks, Shaped
<1> HIDE DEF r
<1>4. Walks(new, Done, contractsSet)
  BY <1>2, <1>3, NextBatchWalks
<1>5. Done' = Done
  BY <1>1 DEF Done
<1> HIDE DEF new
<1>6. QED
  BY <1>1, <1>4, <1>5, OneTaskReads

(* All logs of this contract in the batch are in hand, or there are none.  *)
LEMMA GetLogsStep == ASSUME IndexInv, NEW t \in Tasks, GetLogs(t) PROVE IndexInv'
<1> DEFINE r == task[t]
           found == LogsOf(Contracts[r.contract], r.from, r.batchEnd)
           fetched == [r EXCEPT !.pc = "save", !.logs = found]
           new == IF found = {} THEN NextContract(r) ELSE fetched
<1>1. /\ Goto(t, new) /\ r.pc = "fetch"
      /\ UNCHANGED <<contractsSet, running, head, lastBlock, eventRows, givenUp>>
  BY DEF GetLogs, process, db
<1>2. /\ Walks(r, Done, TRUE) /\ contractsSet = TRUE /\ r.pc \in InBatch
      /\ r.contract \in {1, 2} /\ Shaped(r) /\ Behind(r.from, Done)
      /\ \A i \in LogIds : Logs[i].block \in r.from..r.batchEnd =>
           i \in Done \/ Position(i) >= r.contract
  BY <1>1 DEF IndexInv, Numbers, Walks, Ahead, InBatch, OnLog
<1>3. \A i \in LogIds : Logs[i].block \in r.from..r.batchEnd =>
        i \in Done \/ i \in found \/ Position(i) > r.contract
  BY <1>2, LogFacts DEF LogsOf
<1> HIDE DEF found
<1>4. ASSUME found = {} PROVE Walks(new, Done, TRUE)
  BY <1>2, <1>3, <1>4, NextContractWalks
<1>5. ASSUME found # {} PROVE Walks(new, Done, TRUE)
  <2>1. /\ Shaped(fetched) /\ fetched.pc = "save" /\ fetched.logs = found
        /\ fetched.from = r.from /\ fetched.batchEnd = r.batchEnd
        /\ fetched.contract = r.contract
    BY <1>2 DEF Shaped
  <2> HIDE DEF fetched
  <2>2. Walks(fetched, Done, TRUE)
    BY <1>2, <1>3, <2>1 DEF Walks, Ahead, ToSave, InBatch, OnLog
  <2>3. QED
    BY <1>5, <2>2
<1>6. Walks(new, Done, contractsSet)
  BY <1>2, <1>4, <1>5
<1>7. Done' = Done
  BY <1>1 DEF Done
<1> HIDE DEF new
<1>8. QED
  BY <1>1, <1>6, <1>7, OneTaskReads

(* The number is stored when nothing of the batch is ahead any more.       *)
LEMMA UpdateStateStep == ASSUME IndexInv, NEW t \in Tasks, UpdateState(t) PROVE IndexInv'
<1> DEFINE r == task[t]
           new == NextBatch(t, r, r.batchEnd + 1)
<1>1. /\ Goto(t, new) /\ r.pc = "store" /\ lastBlock' = r.batchEnd
      /\ givenUp' = IF contractsSet THEN givenUp
                    ELSE givenUp \cup {i \in LogIds : Logs[i].block \in r.from..r.batchEnd}
      /\ UNCHANGED <<contractsSet, running, head, eventRows>>
  BY DEF UpdateState, ReadyToStore, process
<1>2. Walks(r, Done, contractsSet) /\ Shaped(r) /\ Behind(r.from, Done) /\ contractsSet \in BOOLEAN
  BY <1>1 DEF IndexInv, Numbers, Walks, InBatch
<1>3. r.from \in Int /\ r.batchEnd \in Int
  BY <1>2 DEF Shaped
<1>4. Done \subseteq Done'
  BY <1>1 DEF Done
<1>5. \A i \in LogIds : Logs[i].block \in r.from..r.batchEnd => i \in Done'
  <2>1. CASE contractsSet
    BY <1>1, <1>2, <1>4, <2>1 DEF Walks, Ahead, InBatch, OnLog
  <2>2. CASE ~contractsSet
    BY <1>1, <2>2 DEF Done
  <2>3. QED
    BY <2>1, <2>2
<1>6. Behind(r.batchEnd + 1, Done')
  BY <1>2, <1>3, <1>4, <1>5, LogFacts, ListenerConstants DEF Behind
<1>7. Walks(new, Done', contractsSet)
  BY <1>2, <1>3, <1>6, NextBatchWalks
<1>8. running
  BY <1>1 DEF IndexInv, Idle
<1>9. /\ lastBlock' \in Int /\ Behind(lastBlock' + 1, Done')
      /\ head' \in Int /\ eventRows' \in [LogIds -> Nat]
  BY <1>1, <1>3, <1>6 DEF IndexInv, Numbers
<1> HIDE DEF new
<1>10. QED
  BY <1>1, <1>4, <1>7, <1>8, <1>9, OneTaskMoves

-----------------------------------------------------------------------------
(* On a log.  Where the row is there, or the log given up, the next one    *)
(* may be taken.                                                           *)
LEMMA OnLogFacts ==
  ASSUME IndexInv, NEW t \in Tasks, task[t].pc \in OnLog
  PROVE  /\ Walks(task[t], Done, TRUE) /\ contractsSet = TRUE /\ task[t].pc # "idle"
         /\ \A i \in LogIds : Logs[i].block \in task[t].from..task[t].batchEnd =>
              i \in Done \/ i \in ToSave(task[t]) \/ Position(i) > task[t].contract
  BY DEF IndexInv, Numbers, Walks, Ahead, InBatch, OnLog

LEMMA SaveEventStep == ASSUME IndexInv, NEW t \in Tasks, SaveEvent(t) PROVE IndexInv'
<1> DEFINE r == task[t]
           new == [r EXCEPT !.pc = "handle"]
<1>1. /\ r.pc = "save" /\ Goto(t, new)
      /\ eventRows' = [eventRows EXCEPT ![First(r.logs)] = @ + 1]
      /\ UNCHANGED <<contractsSet, running, head, lastBlock, givenUp>>
  BY DEF SaveEvent, Current, process
<1>2. /\ contractsSet = TRUE /\ Shaped(r) /\ running
      /\ Behind(r.from, Done) /\ r.contract \in {1, 2}
      /\ \A i \in LogIds : Logs[i].block \in r.from..r.batchEnd =>
           i \in Done \/ i \in r.logs \/ Position(i) > r.contract
  <2>1. r.pc \in OnLog /\ r.pc \in InBatch /\ r.pc # "store"
    BY <1>1 DEF OnLog, InBatch
  <2>2. Walks(r, Done, TRUE) /\ contractsSet = TRUE
    BY <2>1, OnLogFacts
  <2>3. running
    BY <1>1 DEF IndexInv, Idle
  <2>4. \A i \in LogIds : Logs[i].block \in r.from..r.batchEnd =>
          i \in Done \/ i \in r.logs \/ Position(i) > r.contract
    BY <1>1, <2>1, OnLogFacts DEF ToSave
  <2>5. QED
    BY <2>1, <2>2, <2>3, <2>4 DEF Walks
<1>3. eventRows' \in [LogIds -> Nat] /\ Done \subseteq Done'
  <2>1. eventRows \in [LogIds -> Nat]
    BY DEF IndexInv, Numbers
  <2> DEFINE saved == First(r.logs)
  <2>2. eventRows' = [eventRows EXCEPT ![saved] = @ + 1]
    BY <1>1
  <2> HIDE DEF saved
  <2>3. \A i \in LogIds : eventRows'[i] = IF i = saved THEN eventRows[i] + 1 ELSE eventRows[i]
    BY <2>1, <2>2
  <2>4. eventRows' \in [LogIds -> Nat]
    <3>1. \A i \in LogIds : eventRows'[i] \in Nat
      BY <2>1, <2>3
    <3>2. eventRows' = [i \in LogIds |-> eventRows'[i]]
      BY <2>1, <2>2
    <3>3. QED
      BY <3>1, <3>2
  <2>5. QED
    BY <1>1, <2>1, <2>3, <2>4 DEF Done
<1>4. First(r.logs) \in LogIds => First(r.logs) \in Done'
  BY <1>1 DEF IndexInv, Numbers, Done
<1>5. /\ Shaped(new) /\ new.pc = "handle" /\ new.logs = r.logs
      /\ new.from = r.from /\ new.batchEnd = r.batchEnd /\ new.contract = r.contract
  BY <1>2 DEF Shaped
<1> HIDE DEF new
<1>6. \A i \in LogIds : Logs[i].block \in new.from..new.batchEnd => i \in Done' \/ Ahead(new, i)
  BY <1>2, <1>3, <1>4, <1>5 DEF Ahead, ToSave, OnLog
<1>7. Behind(new.from, Done')
  BY <1>2, <1>3, <1>5, BehindOn
<1>8. Walks(new, Done', TRUE)
  BY <1>2, <1>5, <1>6, <1>7 DEF Walks, InBatch, OnLog
<1>9. /\ lastBlock' \in Int /\ Behind(lastBlock' + 1, Done') /\ head' \in Int
  BY <1>1, <1>3, BehindOn DEF IndexInv, Numbers
<1>10. QED
  BY <1>1, <1>2, <1>3, <1>8, <1>9, OneTaskMoves

(* The end of a log, by its handler or by an error.                        *)
LEMMA LogEnds ==
  ASSUME IndexInv, NEW t \in Tasks, task[t].pc \in OnLog, Goto(t, NextLog(task[t])),
         UNCHANGED <<contractsSet, running, head, lastBlock, eventRows>>,
         givenUp \subseteq givenUp',
         task[t].pc = "save" => First(task[t].logs) \in givenUp'
  PROVE  IndexInv'
<1> DEFINE r == task[t]
           new == NextLog(r)
<1>1. /\ Walks(r, Done, TRUE) /\ contractsSet = TRUE /\ r.pc # "idle"
      /\ \A i \in LogIds : Logs[i].block \in r.from..r.batchEnd =>
           i \in Done \/ i \in ToSave(r) \/ Position(i) > r.contract
  BY OnLogFacts
<1>2. Done \subseteq Done' /\ (r.pc = "save" /\ First(r.logs) \in LogIds => First(r.logs) \in Done')
  BY DEF Done
<1>3. Walks(r, Done', TRUE)
  BY <1>1, <1>2, WalksOn
<1>4. \A i \in LogIds : Logs[i].block \in r.from..r.batchEnd =>
        i \in Done' \/ i \in r.logs \ {First(r.logs)} \/ Position(i) > r.contract
  BY <1>1, <1>2 DEF ToSave
<1>5. Walks(new, Done', TRUE)
  BY <1>3, <1>4, NextLogWalks
<1> HIDE DEF new
<1>6. Goto(t, new)
  BY DEF new
<1>7. QED
  BY <1>1, <1>5, <1>6, OneTaskReads

(* Within a log, after its row.                                            *)
LEMMA WithinLog ==
  ASSUME IndexInv, NEW t \in Tasks, task[t].pc \in OnLog \ {"save"},
         NEW pc \in OnLog \ {"save"}, NEW loan,
         Goto(t, [task[t] EXCEPT !.pc = pc, !.loan = loan]),
         UNCHANGED <<contractsSet, running, head, lastBlock, eventRows, givenUp>>
  PROVE  IndexInv'
<1> DEFINE r == task[t]
           new == [r EXCEPT !.pc = pc, !.loan = loan]
<1>1. /\ Walks(r, Done, TRUE) /\ contractsSet = TRUE /\ r.pc # "idle" /\ Shaped(r)
      /\ Behind(r.from, Done) /\ r.contract \in {1, 2}
      /\ \A i \in LogIds : Logs[i].block \in r.from..r.batchEnd =>
           i \in Done \/ i \in r.logs \ {First(r.logs)} \/ Position(i) > r.contract
  BY OnLogFacts DEF Walks, ToSave, InBatch, OnLog
<1>2. /\ Shaped(new) /\ new.pc = pc /\ new.logs = r.logs
      /\ new.from = r.from /\ new.batchEnd = r.batchEnd /\ new.contract = r.contract
  BY <1>1 DEF Shaped
<1>3. Goto(t, new)
  OBVIOUS
<1> HIDE DEF new
<1>4. Walks(new, Done, TRUE)
  BY <1>1, <1>2 DEF Walks, Ahead, ToSave, InBatch, OnLog
<1>5. Done' = Done
  BY DEF Done
<1>6. QED
  BY <1>1, <1>3, <1>4, <1>5, OneTaskReads

LEMMA HandleEventStep == ASSUME IndexInv, NEW t \in Tasks, HandleEvent(t) PROVE IndexInv'
<1>1. /\ task[t].pc = "handle" /\ task[t].pc \in OnLog
      /\ UNCHANGED <<contractsSet, running, head, lastBlock, eventRows>>
      /\ givenUp \subseteq givenUp'
  BY DEF HandleEvent, HandleDeposit, HandleBorrow, HandleRepay, HandleLiquidation, AddRecord,
         process, OnLog
<1>2. \/ Goto(t, NextLog(task[t]))
      \/ Goto(t, [task[t] EXCEPT !.pc = "find"]) /\ UNCHANGED givenUp
  BY DEF HandleEvent, HandleDeposit, HandleBorrow, HandleRepay, HandleLiquidation, AddRecord
<1>3. CASE Goto(t, NextLog(task[t]))
  BY <1>1, <1>3, LogEnds
<1>4. CASE Goto(t, [task[t] EXCEPT !.pc = "find"]) /\ UNCHANGED givenUp
  <2>1. [task[t] EXCEPT !.pc = "find"] = [task[t] EXCEPT !.pc = "find", !.loan = task[t].loan]
    BY <1>1, OnLogFacts DEF Walks, Shaped
  <2>2. "find" \in OnLog \ {"save"} /\ "handle" \in OnLog \ {"save"}
    BY DEF OnLog
  <2>3. QED
    BY <1>1, <1>4, <2>1, <2>2, WithinLog
<1>5. QED
  BY <1>2, <1>3, <1>4

LEMMA FindActiveLoanStep ==
  ASSUME IndexInv, NEW t \in Tasks, FindActiveLoan(t) PROVE IndexInv'
<1>1. /\ task[t].pc = "find"
      /\ UNCHANGED <<contractsSet, running, head, lastBlock, eventRows, givenUp>>
  BY DEF FindActiveLoan, process, db
<1>2. \/ Goto(t, NextLog(task[t]))
      \/ \E k : Goto(t, [task[t] EXCEPT !.pc = "mark", !.loan = k])
  BY DEF FindActiveLoan
<1>3. {"find", "mark"} \subseteq OnLog \ {"save"}
  BY DEF OnLog
<1>4. QED
  BY <1>1, <1>2, <1>3, LogEnds, WithinLog

LEMMA LogEndsElsewhere ==
  ASSUME IndexInv, NEW t \in Tasks, UpdateLoan(t) \/ LogFails(t) PROVE IndexInv'
<1>1. /\ task[t].pc \in OnLog
      /\ UNCHANGED <<contractsSet, running, head, lastBlock, eventRows>>
      /\ givenUp \subseteq givenUp'
      /\ task[t].pc = "save" => First(task[t].logs) \in givenUp'
      /\ Goto(t, NextLog(task[t]))
  BY DEF UpdateLoan, LogFails, AfterError, Current, process, db, OnLog
<1>2. QED
  BY <1>1, LogEnds

LEMMA TaskFailsStep == ASSUME IndexInv, NEW t \in Tasks, TaskFails(t) PROVE IndexInv'
<1>1. /\ task[t].pc # "idle" /\ Goto(t, Idle)
      /\ UNCHANGED <<contractsSet, running, head, lastBlock, eventRows, givenUp>>
  BY DEF TaskFails, db
<1>2. Walks(Idle, Done', contractsSet)
  BY IdleWalks
<1>3. QED
  BY <1>1, <1>2, OneTaskReads

LEMMA CrashStep == ASSUME IndexInv, Crash PROVE IndexInv'
<1>1. /\ task' = [t \in Tasks |-> Idle] /\ contractsSet' = FALSE
      /\ UNCHANGED <<head, lastBlock, eventRows, givenUp>>
  BY DEF Crash, db
<1>2. Done' = Done /\ Numbers'
  BY <1>1 DEF Done, IndexInv, Numbers
<1>3. \A t \in Tasks : Walks(task'[t], Done', contractsSet')
  BY <1>1, IdleWalks
<1>4. QED
  BY <1>1, <1>2, <1>3 DEF IndexInv

LEMMA MineStep == ASSUME IndexInv, Mine PROVE IndexInv'
<1>1. head' \in Int /\ UNCHANGED <<lastBlock, eventRows, givenUp, contractsSet, running, task>>
  BY DEF Mine, db, process, IndexInv, Numbers
<1>2. Done' = Done
  BY <1>1 DEF Done
<1>3. QED
  BY <1>1, <1>2 DEF IndexInv, Numbers

LEMMA IndexStepHolds == IndexInv /\ [Next]_vars => IndexInv'
<1> SUFFICES ASSUME IndexInv, [Next]_vars PROVE IndexInv'
  OBVIOUS
<1>1. ASSUME NEW t \in Tasks, TaskStep(t) PROVE IndexInv'
  BY <1>1, GetStateStep, GetCurrentBlockStep, GetLogsStep, UpdateStateStep, SaveEventStep,
     HandleEventStep, FindActiveLoanStep, LogEndsElsewhere DEF TaskStep
<1>2. CASE UNCHANGED vars
  <2>1. Done' = Done
    BY <1>2 DEF vars, Done
  <2>2. QED
    BY <1>2, <2>1 DEF vars, IndexInv, Numbers
<1>3. QED
  BY <1>1, <1>2, StartStep, MineStep, CrashStep, SyncCheckStep, TaskFailsStep, LogEndsElsewhere
  DEF Next

LEMMA IndexInitHolds == Init => IndexInv
<1> SUFFICES ASSUME Init PROVE IndexInv
  OBVIOUS
<1>1. \A t \in Tasks : task[t] = Idle
  BY DEF Init
<1>2. Numbers
  <2>1. task = [t \in Tasks |-> task[t]]
    BY DEF Init
  <2>2. head = 0 /\ lastBlock = -1 /\ contractsSet = FALSE
    BY DEF Init, NoState
  <2>3. eventRows \in [LogIds -> Nat]
    BY DEF Init
  <2>4. head \in Int /\ lastBlock \in Int
    BY <2>2
  <2>5. contractsSet \in BOOLEAN
    BY <2>2
  <2>6. QED
    BY <2>1, <2>3, <2>4, <2>5 DEF Numbers
<1>3. Behind(lastBlock + 1, Done)
  BY LogFacts, ListenerConstants DEF Init, Behind, NoState
<1>4. QED
  BY <1>1, <1>2, <1>3, IdleWalks DEF IndexInv

(* Every log up to the stored block number has its event row, unless an    *)
(* error was swallowed on the way (event-listener.service.ts, processBatch *)
(* and updateState), for every chain, start block and batch size, and any  *)
(* number of runs under way, calls that fail and crashes.                  *)
THEOREM NoGapIsSilent == Spec => []NoSilentGap
  BY InvIsEnough, IndexInitHolds, IndexStepHolds, PTL DEF Spec

-----------------------------------------------------------------------------
(* Types.  TypeOK says of a task only what the other properties read; what *)
(* makes it true is how a task record is formed at each of its places: the *)
(* batch lies below the head that the task has read, and the logs in hand  *)
(* are logs of the contract and batch that it is on.                       *)
Typed(r) ==
  /\ {"pc", "from", "batchEnd", "to", "contract", "logs", "loan"} \subseteq DOMAIN r
  /\ r.pc \in PCs /\ {r.from, r.batchEnd, r.to, r.loan} \subseteq Nat
  /\ r.contract \in {1, 2, 3} /\ r.logs \subseteq LogIds
LoanRecord == [log : LogIds, status : {"active", "repaid"}]

(* Task record r, in a chain of h blocks and with n loan rows.             *)
Formed(r, h, n) ==
  /\ Typed(r) /\ r.to <= h
  /\ r.pc \in InBatch => r.from <= r.batchEnd /\ r.batchEnd <= r.to
  /\ r.pc \in {"fetch"} \cup OnLog => r.contract \in {1, 2}
  /\ r.pc \in OnLog =>
       r.logs # {} /\ r.logs \subseteq LogsOf(Contracts[r.contract], r.from, r.batchEnd)
  /\ r.pc = "mark" => r.loan \in 1..n

Stored ==
  /\ head \in 0..MaxBlock /\ lastBlock \in {NoState} \cup 0..head
  /\ isIndexing \in BOOLEAN /\ contractsSet \in BOOLEAN /\ running \in BOOLEAN
  /\ eventRows \in [LogIds -> Nat] /\ recordRows \in [LogIds -> Nat]
  /\ loans \in Seq(LoanRecord)
  /\ givenUp \subseteq LogIds /\ overlapped \in BOOLEAN
  /\ faults \in 0..MaxFaults /\ crashes \in 0..MaxCrashes

TypeInv ==
  /\ Stored
  /\ task = [t \in Tasks |-> task[t]]
  /\ \A t \in Tasks : Formed(task[t], head, Len(loans))

LEMMA TypeInvIsEnough == TypeInv => TypeOK
<1> SUFFICES ASSUME TypeInv PROVE TypeOK
  OBVIOUS
<1>1. loans \in Seq(LoanRecord) /\ DOMAIN loans = 1..Len(loans)
  BY LenProperties DEF TypeInv, Stored
<1>2. \A k \in DOMAIN loans : loans[k] \in LoanRecord
  BY <1>1, ElementOfSeq
<1>3. ASSUME NEW t \in Tasks
      PROVE  /\ task[t].pc \in PCs
             /\ task[t].pc \in OnLog => task[t].logs # {} /\ task[t].logs \subseteq LogIds
             /\ task[t].pc = "mark" => task[t].loan \in DOMAIN loans
  BY <1>1 DEF TypeInv, Formed, Typed
<1>4. QED
  BY <1>2, <1>3 DEF TypeInv, Stored, TypeOK, OnLog, LoanRecord

LEMMA FirstIsMember ==
  ASSUME NEW logs \in SUBSET LogIds, logs # {}
  PROVE  First(logs) \in logs
<1>1. IsFiniteSet(logs) /\ logs \subseteq Int
  BY ListenerConstants, FS_Subset DEF LogIds
<1>2. \E i \in logs : \A j \in logs : i <= j
  BY <1>1, LeastExists
<1>3. QED
  BY <1>2 DEF First

(* Where a task goes next, it is formed again.                             *)
LEMMA IdleFormed == ASSUME NEW h \in Nat, NEW n PROVE Formed(Idle, h, n)
  BY DEF Formed, Idle, Typed, PCs, InBatch, OnLog

LEMMA NextContractFormed ==
  ASSUME NEW r, NEW h, NEW n, Formed(r, h, n), r.pc \in {"fetch"} \cup OnLog
  PROVE  Formed(NextContract(r), h, n)
<1> DEFINE new == NextContract(r)
<1>1. /\ Typed(r) /\ r.to <= h /\ r.from <= r.batchEnd /\ r.batchEnd <= r.to
      /\ r.contract \in {1, 2}
  BY DEF Formed, InBatch
<1>2. /\ new.pc = (IF r.contract < 2 THEN "fetch" ELSE "store") /\ new.contract = r.contract + 1
      /\ new.from = r.from /\ new.batchEnd = r.batchEnd /\ new.to = r.to
      /\ Typed(new)
  BY <1>1 DEF NextContract, Contracts, Typed, PCs
<1> HIDE DEF new
<1>3. Formed(new, h, n)
  BY <1>1, <1>2 DEF Formed, InBatch, OnLog
<1>4. QED
  BY <1>3 DEF new

LEMMA NextLogFormed ==
  ASSUME NEW r, NEW h, NEW n, Formed(r, h, n), r.pc \in OnLog
  PROVE  Formed(NextLog(r), h, n)
<1> DEFINE rest == r.logs \ {First(r.logs)}
           new == [r EXCEPT !.pc = "save", !.logs = rest, !.loan = 0]
<1>1. CASE rest = {}
  BY <1>1, NextContractFormed DEF NextLog
<1>2. CASE rest # {}
  <2>1. /\ Typed(r) /\ r.to <= h /\ r.from <= r.batchEnd /\ r.batchEnd <= r.to
        /\ r.contract \in {1, 2}
        /\ r.logs \subseteq LogsOf(Contracts[r.contract], r.from, r.batchEnd)
    BY DEF Formed, InBatch
  <2> HIDE DEF rest
  <2>2. rest \subseteq r.logs
    BY DEF rest
  <2>3. /\ new.pc = "save" /\ new.contract = r.contract /\ new.logs = rest
        /\ new.from = r.from /\ new.batchEnd = r.batchEnd /\ new.to = r.to
        /\ Typed(new)
    BY <2>1, <2>2 DEF Typed, PCs
  <2>4. NextLog(r) = new
    BY <1>2 DEF NextLog, rest
  <2> HIDE DEF new
  <2>5. Formed(new, h, n)
    BY <1>2, <2>1, <2>2, <2>3 DEF Formed, InBatch, OnLog
  <2>6. QED
    BY <2>4, <2>5
<1>3. QED
  BY <1>1, <1>2

LEMMA NextBatchFormed ==
  ASSUME NEW t, NEW r, Typed(r), NEW h \in Nat, NEW n, r.to <= h, NEW from \in Nat
  PROVE  Formed(NextBatch(t, r, from), h, n)
<1>1. CASE from > r.to
  BY <1>1, IdleFormed DEF NextBatch
<1>2. CASE ~(from > r.to)
  <2> DEFINE end == BatchEnd(t, from, r.to)
             new == [r EXCEPT !.pc = FirstContract, !.from = from, !.contract = 1, !.batchEnd = end]
  <2>1. r.to \in Nat
    BY DEF Typed
  <2>2. end \in Nat /\ from <= end /\ end <= r.to
    BY <1>2, <2>1, ListenerConstants DEF BatchEnd, Lesser
  <2>3. NextBatch(t, r, from) = new
    BY <1>2 DEF NextBatch
  <2> HIDE DEF end
  <2>4. /\ new.pc \in {"fetch", "store"} /\ new.from = from /\ new.contract = 1
        /\ new.batchEnd = end /\ new.to = r.to /\ Typed(new)
    BY <2>2 DEF FirstContract, Typed, PCs
  <2> HIDE DEF new
  <2>5. Formed(new, h, n)
    BY <2>2, <2>4 DEF Formed, InBatch, OnLog
  <2>6. QED
    BY <2>3, <2>5
<1>3. QED
  BY <1>1, <1>2

LEMMA FormedOn ==
  ASSUME NEW r, NEW h \in Nat, NEW n \in Nat, Formed(r, h, n),
         NEW g \in Nat, NEW m \in Nat, h <= g, n <= m
  PROVE  Formed(r, g, m)
  BY DEF Formed, Typed

LEMMA OneTaskFormed ==
  ASSUME TypeInv, Stored', NEW t \in Tasks, NEW r, Goto(t, r),
         Formed(r, head', Len(loans')), head <= head', Len(loans) <= Len(loans')
  PROVE  TypeInv'
<1>1. /\ head \in Nat /\ head' \in Nat /\ Len(loans) \in Nat /\ Len(loans') \in Nat
      /\ task = [u \in Tasks |-> task[u]]
  BY ListenerConstants, LenProperties DEF TypeInv, Stored, Formed
<1>2. \A u \in Tasks : task'[u] = IF u = t THEN r ELSE task[u]
  BY <1>1 DEF Goto
<1>3. \A u \in Tasks : Formed(task[u], head', Len(loans'))
  BY <1>1, FormedOn DEF TypeInv
<1>4. task' = [u \in Tasks |-> task'[u]]
  BY <1>1 DEF Goto
<1>5. QED
  BY <1>2, <1>3, <1>4 DEF TypeInv

(* What the steps write is of its type.                                    *)
LEMMA FaultTyped == ASSUME Stored, Fault PROVE faults' \in 0..MaxFaults
  BY ListenerConstants DEF Stored, Fault

LEMMA RowAdded ==
  ASSUME NEW rows \in [LogIds -> Nat], NEW i \in LogIds
  PROVE  [rows EXCEPT ![i] = @ + 1] \in [LogIds -> Nat]
  OBVIOUS

LEMMA CurrentIsLog ==
  ASSUME TypeInv, NEW t \in Tasks, task[t].pc \in OnLog
  PROVE  /\ Current(t) \in LogIds /\ Current(t) \in task[t].logs
         /\ Formed(task[t], head, Len(loans))
  BY FirstIsMember DEF TypeInv, Formed, Typed, Current

(* The handlers: a row more, or a loan more.                               *)
LEMMA RecordsTyped ==
  ASSUME Stored, NEW t \in Tasks, NEW i \in LogIds, HandleEvent(t), i = Current(t)
  PROVE  /\ \/ recordRows' = recordRows /\ loans' = loans
            \/ recordRows' = [recordRows EXCEPT ![i] = @ + 1] /\ loans' = loans
            \/ recordRows' = recordRows
               /\ loans' = Append(loans, [log |-> i, status |-> "active"])
         /\ recordRows' \in [LogIds -> Nat] /\ loans' \in Seq(LoanRecord)
         /\ Len(loans) \in Nat /\ Len(loans) <= Len(loans')
         /\ givenUp' \in {givenUp, givenUp \cup {i}}
<1>1. /\ \/ recordRows' = recordRows /\ loans' = loans
         \/ recordRows' = [recordRows EXCEPT ![i] = @ + 1] /\ loans' = loans
         \/ recordRows' = recordRows
            /\ loans' = Append(loans, [log |-> i, status |-> "active"])
      /\ givenUp' \in {givenUp, givenUp \cup {i}}
  BY DEF HandleEvent, HandleDeposit, HandleBorrow, HandleRepay, HandleLiquidation, AddRecord
<1>2. recordRows \in [LogIds -> Nat] /\ loans \in Seq(LoanRecord) /\ Len(loans) \in Nat
  BY LenProperties DEF Stored
<1>3. [recordRows EXCEPT ![i] = @ + 1] \in [LogIds -> Nat]
  BY <1>2, RowAdded
<1>4. [log |-> i, status |-> "active"] \in LoanRecord
  BY DEF LoanRecord
<1>5. /\ Append(loans, [log |-> i, status |-> "active"]) \in Seq(LoanRecord)
      /\ Len(Append(loans, [log |-> i, status |-> "active"])) = Len(loans) + 1
  BY <1>2, <1>4, AppendProperties
<1>6. recordRows' \in [LogIds -> Nat] /\ loans' \in Seq(LoanRecord)
  BY <1>1, <1>2, <1>3, <1>5
<1>7. Len(loans) <= Len(loans')
  BY <1>1, <1>2, <1>5
<1>8. QED
  BY <1>1, <1>2, <1>6, <1>7

LEMMA LoanMarked ==
  ASSUME TypeInv, NEW t \in Tasks, UpdateLoan(t)
  PROVE  /\ task[t].loan \in 1..Len(loans)
         /\ loans' \in Seq(LoanRecord) /\ Len(loans') = Len(loans)
         /\ \A k \in 1..Len(loans) :
              loans'[k] = IF k = task[t].loan THEN [loans[k] EXCEPT !.status = "repaid"] ELSE loans[k]
<1> DEFINE k == task[t].loan
           marked == [loans[k] EXCEPT !.status = "repaid"]
<1>1. k \in 1..Len(loans)
  BY DEF UpdateLoan, TypeInv, Formed
<1>2. loans \in Seq(LoanRecord) /\ loans[k] \in LoanRecord
  BY <1>1, ElementOfSeq DEF TypeInv, Stored
<1>3. marked \in LoanRecord
  BY <1>2 DEF LoanRecord
<1>4. loans' = [loans EXCEPT ![k] = marked]
  BY DEF UpdateLoan, MarkRepaid
<1> HIDE DEF marked, k
<1>5. /\ loans' \in Seq(LoanRecord) /\ Len(loans') = Len(loans)
      /\ \A j \in 1..Len(loans) : loans'[j] = IF j = k THEN marked ELSE loans[j]
  BY <1>1, <1>2, <1>3, <1>4, ExceptSeq
<1>6. QED
  BY <1>1, <1>5 DEF marked, k

LEMMA HeadTyped ==
  ASSUME Stored
  PROVE  /\ head \in Nat /\ Len(loans) \in Nat /\ head <= head /\ Len(loans) <= Len(loans)
         /\ lastBlock \in Int /\ lastBlock >= -1 /\ lastBlock <= head
  BY ListenerConstants, LenProperties DEF Stored, NoState

LEMMA TypesKeptByStart == ASSUME TypeInv, Start PROVE TypeInv'
<1> DEFINE r == [Idle EXCEPT !.pc = "state"]
<1>1. /\ Goto(Startup, r) /\ Startup \in Tasks
      /\ UNCHANGED <<overlapped, head, lastBlock, eventRows, recordRows, loans, givenUp>>
      /\ UNCHANGED <<faults, crashes>>
      /\ running' \in BOOLEAN /\ isIndexing' \in BOOLEAN /\ contractsSet' \in BOOLEAN
  BY DEF Start, db, budget, Tasks
<1>2. faults' \in 0..MaxFaults /\ crashes' \in 0..MaxCrashes
  BY <1>1 DEF TypeInv, Stored
<1>3. Stored'
  BY <1>1, <1>2 DEF TypeInv, Stored
<1>4. Formed(r, head, Len(loans))
  BY HeadTyped DEF TypeInv, Formed, Typed, Idle, PCs, InBatch, OnLog
<1> HIDE DEF r
<1>5. QED
  BY <1>1, <1>3, <1>4, HeadTyped, OneTaskFormed DEF TypeInv

LEMMA TypesKeptBySyncCheck == ASSUME TypeInv, NEW t \in CronRuns, SyncCheck(t) PROVE TypeInv'
<1> DEFINE r == [Idle EXCEPT !.pc = "state"]
<1>1. /\ Goto(t, r) /\ t \in Tasks /\ overlapped' \in BOOLEAN
      /\ UNCHANGED <<head, isIndexing, contractsSet, running, lastBlock, eventRows, recordRows,
                     loans, givenUp, faults, crashes>>
  BY DEF SyncCheck, db, Tasks, process, budget, TypeInv, Stored
<1>2. Stored'
  BY <1>1 DEF TypeInv, Stored
<1>3. Formed(r, head, Len(loans))
  BY HeadTyped DEF TypeInv, Formed, Typed, Idle, PCs, InBatch, OnLog
<1> HIDE DEF r
<1>4. QED
  BY <1>1, <1>2, <1>3, HeadTyped, OneTaskFormed DEF TypeInv

(* A task moves on, and only faults may be counted besides, or the flag    *)
(* lowered, or logs given up.                                              *)
LEMMA TypesKeptByReading ==
  ASSUME TypeInv, NEW t \in Tasks, NEW r, Goto(t, r), Formed(r, head, Len(loans)),
         UNCHANGED <<overlapped, head, contractsSet, running, lastBlock, eventRows, recordRows,
                     loans, crashes>>,
         faults' = faults \/ Fault, isIndexing' \in BOOLEAN, givenUp' \subseteq LogIds
  PROVE  TypeInv'
<1>1. faults' \in 0..MaxFaults
  BY FaultTyped DEF TypeInv, Stored
<1>2. Stored'
  BY <1>1 DEF TypeInv, Stored
<1>3. QED
  BY <1>2, HeadTyped, OneTaskFormed DEF TypeInv

LEMMA TypesKeptByGetState == ASSUME TypeInv, NEW t \in Tasks, GetState(t) PROVE TypeInv'
<1>1. PICK from \in {FirstBlock(t, lastBlock), FirstBlock(t, NoState)} :
        Goto(t, [task[t] EXCEPT !.pc = "head", !.from = from])
  BY DEF GetState
<1> DEFINE r == [task[t] EXCEPT !.pc = "head", !.from = from]
<1>2. from \in Nat
  BY HeadTyped, ListenerConstants DEF TypeInv, FirstBlock, NoState
<1>3. Formed(task[t], head, Len(loans)) /\ givenUp \subseteq LogIds /\ isIndexing \in BOOLEAN
  BY DEF TypeInv, Stored
<1>4. Typed(r) /\ r.pc = "head" /\ r.to = task[t].to
  BY <1>2, <1>3 DEF Formed, Typed, PCs
<1>5. Formed(r, head, Len(loans))
  <2> HIDE DEF r
  <2> QED
    BY <1>3, <1>4 DEF Formed, InBatch, OnLog
<1>6. /\ UNCHANGED <<overlapped, head, isIndexing, contractsSet, running, lastBlock, eventRows,
                     recordRows, loans, crashes, givenUp>>
      /\ faults' = faults \/ Fault
  BY DEF GetState, process, db
<1>7. QED
  BY <1>1, <1>3, <1>5, <1>6, TypesKeptByReading

LEMMA TypesKeptByGetCurrentBlock ==
  ASSUME TypeInv, NEW t \in Tasks, GetCurrentBlock(t) PROVE TypeInv'
<1> DEFINE r == [task[t] EXCEPT !.to = head]
           new == NextBatch(t, r, task[t].from)
<1>1. /\ Goto(t, new)
      /\ UNCHANGED <<overlapped, head, isIndexing, contractsSet, running, lastBlock, eventRows,
                     recordRows, loans, crashes, givenUp, faults>>
  BY DEF GetCurrentBlock, process, db, budget
<1>2. /\ Typed(task[t]) /\ head \in Nat /\ head <= head
      /\ givenUp \subseteq LogIds /\ isIndexing \in BOOLEAN
  BY HeadTyped DEF TypeInv, Formed, Stored
<1>3. Typed(r) /\ r.to <= head /\ task[t].from \in Nat
  BY <1>2 DEF Typed
<1> HIDE DEF r
<1>4. Formed(new, head, Len(loans))
  BY <1>2, <1>3, NextBatchFormed
<1> HIDE DEF new
<1>5. QED
  BY <1>1, <1>2, <1>4, TypesKeptByReading

LEMMA TypesKeptByGetLogs == ASSUME TypeInv, NEW t \in Tasks, GetLogs(t) PROVE TypeInv'
<1> DEFINE r == task[t]
           found == LogsOf(Contracts[r.contract], r.from, r.batchEnd)
           fetched == [r EXCEPT !.pc = "save", !.logs = found]
           new == IF found = {} THEN NextContract(r) ELSE fetched
<1>1. /\ Goto(t, new) /\ r.pc = "fetch"
      /\ UNCHANGED <<overlapped, head, isIndexing, contractsSet, running, lastBlock, eventRows,
                     recordRows, loans, crashes, givenUp, faults>>
  BY DEF GetLogs, process, db, budget
<1>2. /\ Formed(r, head, Len(loans)) /\ Typed(r) /\ found \subseteq LogIds
      /\ givenUp \subseteq LogIds /\ isIndexing \in BOOLEAN
  BY DEF TypeInv, Formed, Stored, LogsOf
<1> HIDE DEF found
<1>3. CASE found = {}
  BY <1>1, <1>2, <1>3, NextContractFormed, TypesKeptByReading
<1>4. CASE found # {}
  <2>1. /\ Typed(fetched) /\ fetched.pc = "save" /\ fetched.logs = found
        /\ fetched.from = r.from /\ fetched.batchEnd = r.batchEnd
        /\ fetched.to = r.to /\ fetched.contract = r.contract
    BY <1>2 DEF Typed, PCs
  <2>2. new = fetched
    BY <1>4
  <2> HIDE DEF fetched, new
  <2>3. found = LogsOf(Contracts[r.contract], r.from, r.batchEnd)
    BY DEF found
  <2>4. Formed(fetched, head, Len(loans))
    BY <1>1, <1>2, <1>4, <2>1, <2>3 DEF Formed, InBatch, OnLog
  <2>5. QED
    BY <1>1, <1>2, <2>2, <2>4, TypesKeptByReading
<1>5. QED
  BY <1>3, <1>4

LEMMA TypesKeptByUpdateState == ASSUME TypeInv, NEW t \in Tasks, UpdateState(t) PROVE TypeInv'
<1> DEFINE r == task[t]
           new == NextBatch(t, r, r.batchEnd + 1)
<1>1. /\ Goto(t, new) /\ r.pc = "store" /\ lastBlock' = r.batchEnd
      /\ givenUp' \subseteq givenUp \cup LogIds
      /\ UNCHANGED <<overlapped, head, isIndexing, contractsSet, running, eventRows, recordRows,
                     loans, faults, crashes>>
  BY DEF UpdateState, ReadyToStore, process, budget
<1>2. /\ Typed(r) /\ r.to <= head /\ r.batchEnd <= r.to
      /\ r.batchEnd \in Nat /\ r.to \in Nat /\ head \in Nat
  BY <1>1, HeadTyped DEF TypeInv, Formed, Typed, InBatch
<1>3. r.batchEnd + 1 \in Nat /\ r.batchEnd \in 0..head
  BY <1>2
<1>4. Formed(new, head, Len(loans))
  BY <1>2, <1>3, NextBatchFormed
<1>5. Stored'
  BY <1>1, <1>3 DEF TypeInv, Stored
<1> HIDE DEF new
<1>6. QED
  BY <1>1, <1>4, <1>5, HeadTyped, OneTaskFormed DEF TypeInv

(* Within a log, after its row.                                            *)
LEMMA FormedWithinLog ==
  ASSUME NEW r, NEW h, NEW n, Formed(r, h, n), r.pc \in OnLog,
         NEW pc \in OnLog, NEW loan \in Nat, pc = "mark" => loan \in 1..n
  PROVE  /\ Formed([r EXCEPT !.pc = pc, !.loan = loan], h, n)
         /\ pc # "mark" => Formed([r EXCEPT !.pc = pc], h, n)
<1> DEFINE new == [r EXCEPT !.pc = pc, !.loan = loan]
           other == [r EXCEPT !.pc = pc]
<1>1. /\ Typed(new) /\ new.pc = pc /\ new.from = r.from /\ new.batchEnd = r.batchEnd
      /\ new.to = r.to /\ new.contract = r.contract /\ new.logs = r.logs /\ new.loan = loan
  BY DEF Formed, Typed, PCs, OnLog
<1>2. /\ Typed(other) /\ other.pc = pc /\ other.from = r.from /\ other.batchEnd = r.batchEnd
      /\ other.to = r.to /\ other.contract = r.contract /\ other.logs = r.logs
  BY DEF Formed, Typed, PCs, OnLog
<1> HIDE DEF new, other
<1>3. Formed(new, h, n)
  BY <1>1 DEF Formed, InBatch, OnLog
<1>4. pc # "mark" => Formed(other, h, n)
  BY <1>2 DEF Formed, InBatch, OnLog
<1>5. QED
  BY <1>3, <1>4 DEF new, other

LEMMA TypesKeptBySaveEvent == ASSUME TypeInv, NEW t \in Tasks, SaveEvent(t) PROVE TypeInv'
<1> DEFINE new == [task[t] EXCEPT !.pc = "handle"]
           i == Current(t)
<1>1. /\ Goto(t, new) /\ task[t].pc \in OnLog /\ eventRows' = [eventRows EXCEPT ![i] = @ + 1]
      /\ UNCHANGED <<overlapped, head, isIndexing, contractsSet, running, lastBlock, recordRows,
                     loans, givenUp, faults, crashes>>
  BY DEF SaveEvent, process, budget, OnLog
<1>2. i \in LogIds /\ Formed(task[t], head, Len(loans))
  BY <1>1, CurrentIsLog
<1> HIDE DEF i
<1>3. eventRows' \in [LogIds -> Nat]
  BY <1>1, <1>2, RowAdded DEF TypeInv, Stored
<1>4. Stored'
  BY <1>1, <1>3 DEF TypeInv, Stored
<1>5. Formed(new, head, Len(loans))
  <2>1. "handle" \in OnLog /\ "handle" # "mark" /\ 0 \in Nat
    BY DEF OnLog
  <2>2. QED
    BY <1>1, <1>2, <2>1, FormedWithinLog
<1> HIDE DEF new
<1>6. QED
  BY <1>1, <1>4, <1>5, HeadTyped, OneTaskFormed DEF TypeInv

LEMMA TypesKeptByHandleEvent == ASSUME TypeInv, NEW t \in Tasks, HandleEvent(t) PROVE TypeInv'
<1>1. /\ task[t].pc = "handle" /\ task[t].pc \in OnLog
      /\ UNCHANGED <<overlapped, head, isIndexing, contractsSet, running, lastBlock, eventRows,
                     faults, crashes>>
  BY DEF HandleEvent, process, budget, OnLog
<1>2. \/ Goto(t, NextLog(task[t]))
      \/ Goto(t, [task[t] EXCEPT !.pc = "find"])
  BY DEF HandleEvent, HandleDeposit, HandleBorrow, HandleRepay, HandleLiquidation, AddRecord
<1>3. Current(t) \in LogIds /\ Formed(task[t], head, Len(loans))
  BY <1>1, CurrentIsLog
<1>4. /\ recordRows' \in [LogIds -> Nat] /\ loans' \in Seq(LoanRecord)
      /\ Len(loans) \in Nat /\ Len(loans) <= Len(loans')
      /\ givenUp' \in {givenUp, givenUp \cup {Current(t)}}
  BY <1>3, RecordsTyped DEF TypeInv
<1>5. Stored' /\ head \in Nat /\ head <= head /\ Len(loans') \in Nat
  BY <1>1, <1>3, <1>4, HeadTyped, LenProperties DEF TypeInv, Stored
<1>6. Formed(NextLog(task[t]), head, Len(loans))
  BY <1>1, <1>3, NextLogFormed
<1>7. Formed([task[t] EXCEPT !.pc = "find"], head, Len(loans))
  <2>1. "find" \in OnLog /\ "find" # "mark" /\ 0 \in Nat
    BY DEF OnLog
  <2>2. QED
    BY <1>1, <1>3, <2>1, FormedWithinLog
<1>8. PICK r : Goto(t, r) /\ Formed(r, head, Len(loans))
  BY <1>2, <1>6, <1>7
<1>9. Formed(r, head', Len(loans'))
  BY <1>1, <1>4, <1>5, <1>8, FormedOn
<1>10. QED
  BY <1>1, <1>4, <1>5, <1>8, <1>9, OneTaskFormed

LEMMA TypesKeptByFindActiveLoan ==
  ASSUME TypeInv, NEW t \in Tasks, FindActiveLoan(t) PROVE TypeInv'
<1>1. /\ task[t].pc \in OnLog
      /\ UNCHANGED <<overlapped, head, isIndexing, contractsSet, running, lastBlock, eventRows,
                     recordRows, loans, givenUp, faults, crashes>>
  BY ZenonT(60) DEF FindActiveLoan, process, db, budget, OnLog
<1>2. \/ Goto(t, NextLog(task[t]))
      \/ \E k \in DOMAIN loans : Goto(t, [task[t] EXCEPT !.pc = "mark", !.loan = k])
  BY ZenonT(60) DEF FindActiveLoan, Latest, ActiveLoans
<1>3. /\ Formed(task[t], head, Len(loans)) /\ DOMAIN loans = 1..Len(loans)
      /\ givenUp \subseteq LogIds /\ isIndexing \in BOOLEAN
  BY LenProperties DEF TypeInv, Stored
<1>4. CASE Goto(t, NextLog(task[t]))
  BY <1>1, <1>3, <1>4, NextLogFormed, TypesKeptByReading
<1>5. ASSUME NEW k \in DOMAIN loans, Goto(t, [task[t] EXCEPT !.pc = "mark", !.loan = k])
      PROVE  TypeInv'
  <2>1. "mark" \in OnLog /\ k \in 1..Len(loans) /\ k \in Nat
    BY <1>3, HeadTyped DEF OnLog, TypeInv
  <2>2. Formed([task[t] EXCEPT !.pc = "mark", !.loan = k], head, Len(loans))
    BY <1>1, <1>3, <2>1, FormedWithinLog
  <2>3. QED
    BY <1>1, <1>3, <1>5, <2>2, TypesKeptByReading
<1>6. QED
  BY <1>2, <1>4, <1>5

LEMMA TypesKeptByUpdateLoan == ASSUME TypeInv, NEW t \in Tasks, UpdateLoan(t) PROVE TypeInv'
<1>1. /\ task[t].pc \in OnLog /\ Goto(t, NextLog(task[t]))
      /\ UNCHANGED <<overlapped, head, isIndexing, contractsSet, running, lastBlock, eventRows,
                     recordRows, givenUp, faults, crashes>>
  BY DEF UpdateLoan, process, budget, OnLog
<1>2. loans' \in Seq(LoanRecord) /\ Len(loans') = Len(loans)
  BY LoanMarked
<1>3. Stored'
  BY <1>1, <1>2 DEF TypeInv, Stored
<1>4. Formed(NextLog(task[t]), head', Len(loans'))
  BY <1>1, <1>2, NextLogFormed DEF TypeInv
<1>5. QED
  BY <1>1, <1>2, <1>3, <1>4, HeadTyped, OneTaskFormed DEF TypeInv

LEMMA TypesKeptByFailures ==
  ASSUME TypeInv, NEW t \in Tasks, TaskFails(t) \/ LogFails(t) PROVE TypeInv'
<1>1. /\ UNCHANGED <<overlapped, head, contractsSet, running, lastBlock, eventRows, recordRows,
                     loans, crashes>>
      /\ Fault /\ isIndexing' \in BOOLEAN
  BY DEF TaskFails, LogFails, process, db, TypeInv, Stored
<1>2. CASE TaskFails(t)
  <2>1. Goto(t, Idle) /\ givenUp' \subseteq LogIds
    BY <1>2 DEF TaskFails, TypeInv, Stored
  <2>2. Formed(Idle, head, Len(loans))
    BY HeadTyped, IdleFormed DEF TypeInv
  <2>3. QED
    BY <1>1, <2>1, <2>2, TypesKeptByReading
<1>3. CASE LogFails(t)
  <2>1. task[t].pc \in OnLog /\ Goto(t, NextLog(task[t])) /\ givenUp' = givenUp \cup {Current(t)}
    BY <1>3 DEF LogFails, AfterError, OnLog
  <2>2. givenUp' \subseteq LogIds /\ Formed(NextLog(task[t]), head, Len(loans))
    BY <2>1, CurrentIsLog, NextLogFormed DEF TypeInv, Stored
  <2>3. QED
    BY <1>1, <2>1, <2>2, TypesKeptByReading
<1>4. QED
  BY <1>2, <1>3

LEMMA TypesKeptByMine == ASSUME TypeInv, Mine PROVE TypeInv'
<1>1. /\ head < MaxBlock /\ head' = head + 1
      /\ UNCHANGED <<overlapped, isIndexing, contractsSet, running, task, lastBlock, eventRows,
                     recordRows, loans, givenUp, faults, crashes>>
  BY DEF Mine, db, process, budget
<1>2. head \in Nat /\ head' \in Nat /\ head <= head' /\ Len(loans) \in Nat /\ Len(loans) <= Len(loans)
  BY <1>1, HeadTyped DEF TypeInv
<1>3. Stored'
  <2>1. head' \in 0..MaxBlock /\ lastBlock \in {NoState} \cup 0..head'
    BY <1>1, <1>2, ListenerConstants DEF TypeInv, Stored
  <2>2. QED
    BY <1>1, <2>1 DEF TypeInv, Stored
<1>4. \A t \in Tasks : Formed(task[t], head', Len(loans))
  BY <1>2, FormedOn DEF TypeInv
<1>5. QED
  BY <1>1, <1>3, <1>4 DEF TypeInv

LEMMA TypesKeptByCrash == ASSUME TypeInv, Crash PROVE TypeInv'
<1>1. /\ task' = [t \in Tasks |-> Idle] /\ crashes < MaxCrashes /\ crashes' = crashes + 1
      /\ running' = FALSE /\ isIndexing' = FALSE /\ contractsSet' = FALSE
      /\ UNCHANGED <<overlapped, head, lastBlock, eventRows, recordRows, loans, givenUp, faults>>
  BY DEF Crash, db
<1>2. Stored'
  <2>1. crashes' \in 0..MaxCrashes
    BY <1>1, ListenerConstants DEF TypeInv, Stored
  <2>2. QED
    BY <1>1, <2>1 DEF TypeInv, Stored
<1>3. \A t \in Tasks : Formed(task'[t], head', Len(loans'))
  BY <1>1, HeadTyped, IdleFormed DEF TypeInv
<1>4. QED
  BY <1>1, <1>2, <1>3 DEF TypeInv

LEMMA TypesKept == TypeInv /\ [Next]_vars => TypeInv'
<1> SUFFICES ASSUME TypeInv, [Next]_vars PROVE TypeInv'
  OBVIOUS
<1>1. ASSUME NEW t \in Tasks, TaskStep(t) PROVE TypeInv'
  BY <1>1, TypesKeptByGetState, TypesKeptByGetCurrentBlock, TypesKeptByGetLogs,
     TypesKeptByUpdateState, TypesKeptBySaveEvent, TypesKeptByHandleEvent,
     TypesKeptByFindActiveLoan, TypesKeptByUpdateLoan DEF TaskStep
<1>2. CASE UNCHANGED vars
  BY <1>2 DEF vars, TypeInv, Stored
<1>3. QED
  BY <1>1, <1>2, TypesKeptByStart, TypesKeptBySyncCheck, TypesKeptByFailures, TypesKeptByMine,
     TypesKeptByCrash DEF Next

LEMMA TypesHoldAtFirst == Init => TypeInv
<1> SUFFICES ASSUME Init PROVE TypeInv
  OBVIOUS
<1>1. /\ head = 0 /\ lastBlock = NoState /\ loans = << >> /\ faults = 0 /\ crashes = 0
      /\ task = [t \in Tasks |-> Idle] /\ givenUp = {}
      /\ eventRows = [i \in LogIds |-> 0] /\ recordRows = [i \in LogIds |-> 0]
      /\ isIndexing = FALSE /\ contractsSet = FALSE /\ running = FALSE /\ overlapped = FALSE
  BY DEF Init
<1>2. /\ 0 \in 0..MaxBlock /\ 0 \in 0..MaxFaults /\ 0 \in 0..MaxCrashes
      /\ loans \in Seq(LoanRecord)
      /\ [i \in LogIds |-> 0] \in [LogIds -> Nat]
  BY <1>1, ListenerConstants
<1>3. Stored
  BY <1>1, <1>2 DEF Stored
<1>4. \A t \in Tasks : Formed(task[t], head, Len(loans))
  BY <1>1, IdleFormed, 0 \in Nat
<1>5. QED
  BY <1>1, <1>3, <1>4 DEF TypeInv

LEMMA TypeInvHolds == Spec => []TypeInv
  BY TypesHoldAtFirst, TypesKept, PTL DEF Spec

(* EventListener.TypeOK, for every chain and any number of runs under way: *)
(* among the rest, the loan that a repayment is to close is a row of the   *)
(* loans table, and no block beyond the chain's head is ever stored.       *)
THEOREM ListenerTypes == Spec => []TypeOK
  BY TypeInvHolds, TypeInvIsEnough, PTL

-----------------------------------------------------------------------------
(* Rows and records.  Between its event row and its record a log is in the *)
(* hands of a task; counting those tasks makes RecordsHaveEvents           *)
(* inductive.  So it is with the tasks between a repayment row and the     *)
(* loan that it closes, for ClosedByRepayments.                            *)
Handling(i) == {t \in Tasks : task[t].pc = "handle" /\ First(task[t].logs) = i}
LoansOf(i) == {k \in DOMAIN loans : loans[k].log = i}
RowsInv ==
  \A i \in LogIds :
    recordRows[i] + Cardinality(LoansOf(i)) + Cardinality(Handling(i)) <= eventRows[i]

Closing == {t \in Tasks : task[t].pc \in {"find", "mark"}}
RepaidLoans == {k \in DOMAIN loans : loans[k].status = "repaid"}
ClosedInv == Cardinality(RepaidLoans) + Cardinality(Closing) <= RepaymentRows

LEMMA CountedSets ==
  ASSUME TypeInv
  PROVE  /\ IsFiniteSet(Tasks) /\ IsFiniteSet(LogIds)
         /\ \A i \in LogIds : /\ IsFiniteSet(LoansOf(i)) /\ Cardinality(LoansOf(i)) \in Nat
                              /\ IsFiniteSet(Handling(i)) /\ Cardinality(Handling(i)) \in Nat
                              /\ recordRows[i] \in Nat /\ eventRows[i] \in Nat
         /\ IsFiniteSet(Closing) /\ Cardinality(Closing) \in Nat
         /\ IsFiniteSet(RepaidLoans) /\ Cardinality(RepaidLoans) \in Nat
<1>1. IsFiniteSet(Tasks) /\ IsFiniteSet(LogIds)
  <2>1. {Startup} \cup CronRuns = CronRuns \cup {Startup}
    OBVIOUS
  <2>2. QED
    BY <2>1, ListenerConstants, FS_AddElement DEF Tasks, LogIds
<1>2. DOMAIN loans = 1..Len(loans) /\ Len(loans) \in Nat
  BY LenProperties DEF TypeInv, Stored
<1>3. IsFiniteSet(DOMAIN loans)
  <2>1. 1 \in Int /\ Len(loans) \in Int
    BY <1>2
  <2>2. IsFiniteSet(1..Len(loans))
    BY <2>1, FS_Interval
  <2>3. QED
    BY <1>2, <2>2
<1>4. \A i \in LogIds : LoansOf(i) \in SUBSET DOMAIN loans /\ Handling(i) \in SUBSET Tasks
  BY DEF LoansOf, Handling
<1>5. Closing \in SUBSET Tasks /\ RepaidLoans \in SUBSET DOMAIN loans
  BY DEF Closing, RepaidLoans
<1>6. ASSUME NEW S, NEW T, IsFiniteSet(S), T \in SUBSET S
      PROVE  IsFiniteSet(T) /\ Cardinality(T) \in Nat
  BY <1>6, FS_Subset, FS_CardinalityType
<1>7. \A i \in LogIds : /\ IsFiniteSet(LoansOf(i)) /\ Cardinality(LoansOf(i)) \in Nat
                        /\ IsFiniteSet(Handling(i)) /\ Cardinality(Handling(i)) \in Nat
  BY <1>1, <1>3, <1>4, <1>6
<1>8. /\ IsFiniteSet(Closing) /\ Cardinality(Closing) \in Nat
      /\ IsFiniteSet(RepaidLoans) /\ Cardinality(RepaidLoans) \in Nat
  BY <1>1, <1>3, <1>5, <1>6
<1>9. \A i \in LogIds : recordRows[i] \in Nat /\ eventRows[i] \in Nat
  BY DEF TypeInv, Stored
<1>10. QED
  BY <1>1, <1>7, <1>8, <1>9

(* One task moves on. *)
LEMMA HandsMove ==
  ASSUME TypeInv, NEW t \in Tasks, NEW r, Goto(t, r)
  PROVE  /\ \A i \in LogIds :
              Handling(i)' = IF r.pc = "handle" /\ First(r.logs) = i
                             THEN Handling(i) \cup {t} ELSE Handling(i) \ {t}
         /\ Closing' = IF r.pc \in {"find", "mark"} THEN Closing \cup {t} ELSE Closing \ {t}
<1>1. \A u \in Tasks : task'[u] = IF u = t THEN r ELSE task[u]
  BY DEF TypeInv, Goto
<1>2. \A i \in LogIds :
        Handling(i)' = IF r.pc = "handle" /\ First(r.logs) = i
                       THEN Handling(i) \cup {t} ELSE Handling(i) \ {t}
  BY <1>1 DEF Handling
<1>3. Closing' = IF r.pc \in {"find", "mark"} THEN Closing \cup {t} ELSE Closing \ {t}
  BY <1>1 DEF Closing
<1>4. QED
  BY <1>2, <1>3

LEMMA LoanAppended ==
  ASSUME TypeInv, NEW j \in LogIds,
         loans' = Append(loans, [log |-> j, status |-> "active"])
  PROVE  /\ \A i \in LogIds :
              Cardinality(LoansOf(i))' = Cardinality(LoansOf(i)) + IF i = j THEN 1 ELSE 0
         /\ RepaidLoans' = RepaidLoans
<1> DEFINE n == Len(loans)
<1>1. loans \in Seq(LoanRecord) /\ DOMAIN loans = 1..n /\ n \in Nat
  BY LenProperties DEF TypeInv, Stored
<1>2. /\ DOMAIN loans' = (1..n) \cup {n + 1} /\ n + 1 \notin 1..n
      /\ loans'[n + 1] = [log |-> j, status |-> "active"]
      /\ \A k \in 1..n : loans'[k] = loans[k]
  <2>1. [log |-> j, status |-> "active"] \in LoanRecord
    BY DEF LoanRecord
  <2>2. QED
    BY <1>1, <2>1, AppendProperties
<1> HIDE DEF n
<1>3. ASSUME NEW i \in LogIds
      PROVE  Cardinality(LoansOf(i))' = Cardinality(LoansOf(i)) + IF i = j THEN 1 ELSE 0
  <2>1. LoansOf(i)' = IF i = j THEN LoansOf(i) \cup {n + 1} ELSE LoansOf(i)
    BY <1>1, <1>2 DEF LoansOf
  <2>2. n + 1 \notin LoansOf(i) /\ IsFiniteSet(LoansOf(i)) /\ Cardinality(LoansOf(i)) \in Nat
    BY <1>1, <1>2, CountedSets DEF LoansOf
  <2>3. Cardinality(LoansOf(i) \cup {n + 1}) = Cardinality(LoansOf(i)) + 1
    BY <2>2, SizeChanges
  <2>4. QED
    BY <2>1, <2>2, <2>3
<1>4. RepaidLoans' = RepaidLoans
  BY <1>1, <1>2 DEF RepaidLoans
<1>5. QED
  BY <1>3, <1>4

LEMMA LoanClosed ==
  ASSUME TypeInv, NEW t \in Tasks, UpdateLoan(t)
  PROVE  /\ \A i \in LogIds : LoansOf(i)' = LoansOf(i)
         /\ RepaidLoans' = RepaidLoans \cup {task[t].loan}
<1> DEFINE l == task[t].loan
<1>1. /\ l \in 1..Len(loans) /\ DOMAIN loans' = 1..Len(loans) /\ DOMAIN loans = 1..Len(loans)
      /\ \A k \in 1..Len(loans) :
           loans'[k] = IF k = l THEN [loans[k] EXCEPT !.status = "repaid"] ELSE loans[k]
      /\ \A k \in 1..Len(loans) : loans[k] \in LoanRecord
  BY LoanMarked, LenProperties, ElementOfSeq DEF TypeInv, Stored
<1> HIDE DEF l
<1>2. \A k \in 1..Len(loans) :
        /\ loans'[k].log = loans[k].log
        /\ loans'[k].status = IF k = l THEN "repaid" ELSE loans[k].status
  BY <1>1 DEF LoanRecord
<1>3. \A i \in LogIds : LoansOf(i)' = LoansOf(i)
  BY <1>1, <1>2 DEF LoansOf
<1>4. RepaidLoans' = RepaidLoans \cup {l}
  BY <1>1, <1>2 DEF RepaidLoans
<1>5. QED
  BY <1>3, <1>4 DEF l

(* After a log comes another, or a fetch, or the batch's end.              *)
LEMMA NextLogLeaves ==
  ASSUME NEW r, NEW h, NEW n, Formed(r, h, n), r.pc \in OnLog
  PROVE  NextLog(r).pc \in {"save", "fetch", "store"}
  BY DEF NextLog, NextContract, Formed, Typed

LEMMA NextBatchLeaves ==
  ASSUME NEW t, NEW r, Typed(r), NEW from
  PROVE  NextBatch(t, r, from).pc \in {"idle", "fetch", "store"}
  BY DEF NextBatch, FirstContract, Typed, Idle

(* A step that only moves a task, and to no handler.                       *)
LEMMA CountsKept ==
  ASSUME TypeInv, RowsInv, ClosedInv, NEW t \in Tasks, NEW r, Goto(t, r), r.pc # "handle",
         r.pc \in {"find", "mark"} => t \in Closing,
         UNCHANGED <<recordRows, eventRows, loans>>
  PROVE  RowsInv' /\ ClosedInv'
<1>1. /\ \A i \in LogIds : Handling(i)' = Handling(i) \ {t} /\ LoansOf(i)' = LoansOf(i)
      /\ RepaidLoans' = RepaidLoans /\ RepaymentRows' = RepaymentRows
  BY HandsMove DEF LoansOf, RepaidLoans, RepaymentRows
<1>2. Closing' = Closing \/ Closing' = Closing \ {t}
  BY HandsMove
<1>3. ASSUME NEW S, IsFiniteSet(S)
      PROVE  /\ Cardinality(S) \in Nat /\ Cardinality(S \ {t}) \in Nat
             /\ Cardinality(S \ {t}) <= Cardinality(S)
  <2>1. S \ {t} \in SUBSET S
    OBVIOUS
  <2>2. QED
    BY <1>3, <2>1, FS_Subset, FS_CardinalityType
<1>4. ASSUME NEW i \in LogIds
      PROVE  (recordRows[i] + Cardinality(LoansOf(i)) + Cardinality(Handling(i)) <= eventRows[i])'
  <2>1. /\ Cardinality(Handling(i) \ {t}) \in Nat
        /\ Cardinality(Handling(i) \ {t}) <= Cardinality(Handling(i))
    BY <1>3, CountedSets
  <2>2. recordRows[i] + Cardinality(LoansOf(i)) + Cardinality(Handling(i)) <= eventRows[i]
    BY DEF RowsInv
  <2>3. recordRows[i] + Cardinality(LoansOf(i)) + Cardinality(Handling(i) \ {t}) <= eventRows[i]
    BY <2>1, <2>2, CountedSets
  <2>4. QED
    BY <1>1, <2>3
<1>5. Cardinality(Closing') \in Nat /\ Cardinality(Closing') <= Cardinality(Closing)
  BY <1>2, <1>3, CountedSets
<1>6. ASSUME NEW a \in Nat, NEW b \in Nat, NEW c \in Nat, NEW d, a + b <= d, c <= b, d \in Int
      PROVE  a + c <= d
  BY <1>6
<1>7. RepaymentRows \in Int
  <2> DEFINE f == [i \in LogIds |-> IF Logs[i].kind = "Repaid" THEN recordRows[i] ELSE 0]
  <2>1. f \in [LogIds -> Int] /\ IsFiniteSet(LogIds)
    BY CountedSets
  <2> HIDE DEF f
  <2>2. SumFunction(f) \in Int
    BY <2>1, SumOfMapping
  <2>3. QED
    BY <2>2 DEF f, RepaymentRows
<1>8. Cardinality(RepaidLoans) + Cardinality(Closing') <= RepaymentRows
  BY <1>5, <1>6, <1>7, CountedSets DEF ClosedInv
<1>9. QED
  BY <1>1, <1>4, <1>8 DEF RowsInv, ClosedInv

LEMMA RepaymentsAdd ==
  ASSUME TypeInv, NEW i \in LogIds,
         recordRows' = recordRows \/ recordRows' = [recordRows EXCEPT ![i] = @ + 1]
  PROVE  /\ RepaymentRows \in Nat /\ RepaymentRows' \in Nat /\ RepaymentRows <= RepaymentRows'
         /\ Logs[i].kind = "Repaid" /\ recordRows' = [recordRows EXCEPT ![i] = @ + 1]
              => RepaymentRows' = RepaymentRows + 1
<1> DEFINE f == [j \in LogIds |-> IF Logs[j].kind = "Repaid" THEN recordRows[j] ELSE 0]
           g == [j \in LogIds |-> IF Logs[j].kind = "Repaid" THEN recordRows'[j] ELSE 0]
<1>1. recordRows \in [LogIds -> Nat] /\ recordRows' \in [LogIds -> Nat] /\ IsFiniteSet(LogIds)
  <2>1. recordRows \in [LogIds -> Nat]
    BY DEF TypeInv, Stored
  <2>2. IsFiniteSet(LogIds)
    BY ListenerConstants DEF LogIds
  <2>3. recordRows' \in [LogIds -> Nat]
    BY <2>1
  <2>4. QED
    BY <2>1, <2>2, <2>3
<1>2. \A j \in LogIds : /\ recordRows[j] \in Nat /\ recordRows'[j] \in Nat
                        /\ recordRows[j] <= recordRows'[j]
  BY <1>1
<1>3. f \in [LogIds -> Nat] /\ g \in [LogIds -> Nat] /\ \A j \in LogIds : f[j] <= g[j]
  BY <1>2
<1>4. f \in [LogIds -> Int] /\ g \in [LogIds -> Int]
  BY <1>2
<1>5. ASSUME Logs[i].kind = "Repaid", recordRows' = [recordRows EXCEPT ![i] = @ + 1]
      PROVE  (\A j \in LogIds : j # i => g[j] = f[j]) /\ g[i] = f[i] + 1 /\ f[i] \in Nat
  BY <1>1, <1>2, <1>5
<1>6. RepaymentRows = SumFunction(f) /\ RepaymentRows' = SumFunction(g)
  BY DEF RepaymentRows
<1> HIDE DEF f, g
<1>7. /\ SumFunction(f) \in Nat /\ SumFunction(g) \in Nat
      /\ SumFunction(f) <= SumFunction(g)
  BY <1>1, <1>3, <1>4, SumOfMapping, SumMonotone
<1>8. ASSUME Logs[i].kind = "Repaid", recordRows' = [recordRows EXCEPT ![i] = @ + 1]
      PROVE  SumFunction(g) = SumFunction(f) + 1
  <2>1. SumFunction(g) = SumFunction(f) - f[i] + g[i]
    BY <1>1, <1>4, <1>5, <1>8, SumChanges
  <2>2. QED
    BY <1>5, <1>7, <1>8, <2>1
<1>9. QED
  BY <1>6, <1>7, <1>8

LEMMA CountsKeptBySaveEvent ==
  ASSUME TypeInv, RowsInv, ClosedInv, NEW t \in Tasks, SaveEvent(t) PROVE RowsInv' /\ ClosedInv'
<1> DEFINE s == Current(t)
           new == [task[t] EXCEPT !.pc = "handle"]
<1>1. /\ Goto(t, new) /\ task[t].pc = "save" /\ task[t].pc \in OnLog
      /\ eventRows' = [eventRows EXCEPT ![s] = @ + 1]
      /\ UNCHANGED <<recordRows, loans>>
  BY DEF SaveEvent, OnLog
<1>2. s \in LogIds /\ Typed(task[t])
  BY <1>1, CurrentIsLog DEF Formed
<1>3. new.pc = "handle" /\ First(new.logs) = s
  BY <1>2 DEF Typed, Current
<1> HIDE DEF s, new
<1>4. /\ \A i \in LogIds : /\ Handling(i)' = IF i = s THEN Handling(i) \cup {t} ELSE Handling(i) \ {t}
                           /\ LoansOf(i)' = LoansOf(i)
      /\ Closing' = Closing \ {t} /\ t \notin Closing
      /\ RepaidLoans' = RepaidLoans /\ RepaymentRows' = RepaymentRows
  BY <1>1, <1>3, HandsMove DEF LoansOf, RepaidLoans, RepaymentRows, Closing
<1>5. ClosedInv'
  BY <1>4 DEF ClosedInv
<1>6. \A i \in LogIds : eventRows'[i] = eventRows[i] + IF i = s THEN 1 ELSE 0
  BY <1>1, CountedSets DEF TypeInv, Stored
<1>7. ASSUME NEW i \in LogIds
      PROVE  (recordRows[i] + Cardinality(LoansOf(i)) + Cardinality(Handling(i)) <= eventRows[i])'
  <2>1. /\ Cardinality(Handling(i)') \in Nat
        /\ Cardinality(Handling(i)') <= Cardinality(Handling(i)) + IF i = s THEN 1 ELSE 0
    <3>1. CASE i = s
      BY <1>4, <3>1, CountedSets, SizeChanges
    <3>2. CASE i # s
      <4>1. Handling(i)' \in SUBSET Handling(i) /\ IsFiniteSet(Handling(i))
            /\ Cardinality(Handling(i)) \in Nat
        BY <1>4, <3>2, CountedSets
      <4>2. QED
        BY <3>2, <4>1, FS_Subset, FS_CardinalityType
    <3>3. QED
      BY <3>1, <3>2
  <2>2. recordRows[i] + Cardinality(LoansOf(i)) + Cardinality(Handling(i)) <= eventRows[i]
    BY DEF RowsInv
  <2>3. recordRows[i] + Cardinality(LoansOf(i)) + Cardinality(Handling(i)') <= eventRows'[i]
    BY <1>6, <2>1, <2>2, CountedSets
  <2>4. QED
    BY <1>1, <1>4, <2>3
<1>8. QED
  BY <1>5, <1>7 DEF RowsInv

(* The handlers: the task lets go of the log, and at most one record of it *)
(* is new.                                                                 *)
LEMMA CountsKeptByHandleEvent ==
  ASSUME TypeInv, RowsInv, ClosedInv, NEW t \in Tasks, HandleEvent(t) PROVE RowsInv' /\ ClosedInv'
<1> DEFINE s == Current(t)
<1>1. /\ task[t].pc = "handle" /\ task[t].pc \in OnLog /\ eventRows' = eventRows
      /\ \/ Goto(t, NextLog(task[t]))
         \/ /\ Goto(t, [task[t] EXCEPT !.pc = "find"]) /\ loans' = loans
            /\ Logs[s].kind = "Repaid" /\ recordRows' = [recordRows EXCEPT ![s] = @ + 1]
  BY DEF HandleEvent, HandleDeposit, HandleBorrow, HandleRepay, HandleLiquidation, AddRecord, OnLog
<1>2. s \in LogIds /\ Formed(task[t], head, Len(loans)) /\ Typed(task[t])
  BY <1>1, CurrentIsLog DEF Formed
<1>3. /\ \/ recordRows' = recordRows /\ loans' = loans
         \/ recordRows' = [recordRows EXCEPT ![s] = @ + 1] /\ loans' = loans
         \/ recordRows' = recordRows
            /\ loans' = Append(loans, [log |-> s, status |-> "active"])
  BY <1>2, RecordsTyped DEF TypeInv
<1>4. t \in Handling(s)
  BY <1>1 DEF Handling, Current
<1> HIDE DEF s
<1>5. \A i \in LogIds : Handling(i)' = Handling(i) \ {t}
  <2>1. NextLog(task[t]).pc # "handle"
    BY <1>1, <1>2, NextLogLeaves
  <2>2. [task[t] EXCEPT !.pc = "find"].pc # "handle"
    BY <1>2 DEF Typed
  <2>3. QED
    BY <1>1, <2>1, <2>2, HandsMove
<1>6. ASSUME NEW i \in LogIds
      PROVE  /\ recordRows'[i] \in Nat /\ Cardinality(LoansOf(i))' \in Nat
             /\ recordRows'[i] + Cardinality(LoansOf(i))'
                  <= recordRows[i] + Cardinality(LoansOf(i)) + IF i = s THEN 1 ELSE 0
  <2>1. recordRows[i] \in Nat /\ Cardinality(LoansOf(i)) \in Nat
    BY CountedSets
  <2>2. CASE recordRows' = recordRows /\ loans' = loans
    BY <2>1, <2>2 DEF LoansOf
  <2>3. CASE recordRows' = [recordRows EXCEPT ![s] = @ + 1] /\ loans' = loans
    <3>1. recordRows'[i] = recordRows[i] + IF i = s THEN 1 ELSE 0
      BY <2>1, <2>3 DEF TypeInv, Stored
    <3>2. QED
      BY <2>1, <2>3, <3>1 DEF LoansOf
  <2>4. CASE recordRows' = recordRows /\ loans' = Append(loans, [log |-> s, status |-> "active"])
    BY <1>2, <2>1, <2>4, LoanAppended
  <2>5. QED
    BY <1>3, <2>2, <2>3, <2>4
<1>7. ASSUME NEW i \in LogIds
      PROVE  (recordRows[i] + Cardinality(LoansOf(i)) + Cardinality(Handling(i)) <= eventRows[i])'
  <2>1. /\ Cardinality(Handling(i)') \in Nat
        /\ Cardinality(Handling(i)') <= Cardinality(Handling(i)) - IF i = s THEN 1 ELSE 0
    <3>1. CASE i = s
      <4>1. /\ IsFiniteSet(Handling(i)) /\ t \in Handling(i) /\ Handling(i)' = Handling(i) \ {t}
            /\ Cardinality(Handling(i)) \in Nat
        BY <1>4, <1>5, <3>1, CountedSets
      <4>2. /\ Cardinality(Handling(i) \ {t}) = Cardinality(Handling(i)) - 1
            /\ Cardinality(Handling(i) \ {t}) \in Nat
        BY <4>1, SizeChanges
      <4>3. QED
        BY <3>1, <4>1, <4>2
    <3>2. CASE i # s
      <4>1. Handling(i)' \in SUBSET Handling(i) /\ IsFiniteSet(Handling(i))
            /\ Cardinality(Handling(i)) \in Nat
        BY <1>5, <3>2, CountedSets
      <4>2. QED
        BY <3>2, <4>1, FS_Subset, FS_CardinalityType
    <3>3. QED
      BY <3>1, <3>2
  <2>2. recordRows[i] + Cardinality(LoansOf(i)) + Cardinality(Handling(i)) <= eventRows[i]
    BY DEF RowsInv
  <2>3. recordRows'[i] + Cardinality(LoansOf(i))' + Cardinality(Handling(i)') <= eventRows[i]
    BY <1>6, <2>1, <2>2, CountedSets
  <2>4. QED
    BY <1>1, <2>3
<1>8. RepaidLoans' = RepaidLoans
  BY <1>2, <1>3, LoanAppended DEF RepaidLoans
<1>9. RepaymentRows \in Nat /\ RepaymentRows' \in Nat /\ RepaymentRows <= RepaymentRows'
  BY <1>2, <1>3, RepaymentsAdd
<1>10. t \notin Closing /\ IsFiniteSet(Closing) /\ Cardinality(Closing) \in Nat
       /\ Cardinality(RepaidLoans) \in Nat
  BY <1>1, CountedSets DEF Closing
<1>11. ClosedInv'
  <2>1. CASE Goto(t, NextLog(task[t]))
    <3>1. Closing' = Closing
      <4>1. NextLog(task[t]).pc \notin {"find", "mark"}
        BY <1>1, <1>2, NextLogLeaves
      <4>2. Closing' = Closing \ {t}
        BY <2>1, <4>1, HandsMove
      <4>3. QED
        BY <1>10, <4>2
    <3>2. QED
      BY <1>8, <1>9, <1>10, <3>1 DEF ClosedInv
  <2>2. CASE ~Goto(t, NextLog(task[t]))
    <3>1. [task[t] EXCEPT !.pc = "find"].pc = "find"
      BY <1>2 DEF Typed
    <3>2. Closing' = Closing \cup {t}
      BY <1>1, <2>2, <3>1, HandsMove
    <3>3. Cardinality(Closing') = Cardinality(Closing) + 1
      BY <1>10, <3>2, SizeChanges
    <3>4. RepaymentRows' = RepaymentRows + 1
      BY <1>1, <1>2, <1>3, <2>2, RepaymentsAdd
    <3>5. QED
      BY <1>8, <1>9, <1>10, <3>3, <3>4 DEF ClosedInv
  <2>3. QED
    BY <2>1, <2>2
<1>12. QED
  BY <1>7, <1>11 DEF RowsInv

LEMMA CountsKeptByUpdateLoan ==
  ASSUME TypeInv, RowsInv, ClosedInv, NEW t \in Tasks, UpdateLoan(t) PROVE RowsInv' /\ ClosedInv'
<1>1. /\ Goto(t, NextLog(task[t])) /\ task[t].pc = "mark" /\ task[t].pc \in OnLog
      /\ UNCHANGED <<recordRows, eventRows>> /\ t \in Closing
  BY DEF UpdateLoan, OnLog, Closing
<1>2. Formed(task[t], head, Len(loans))
  BY DEF TypeInv
<1>3. NextLog(task[t]).pc \in {"save", "fetch", "store"}
  BY <1>1, <1>2, NextLogLeaves
<1>4. /\ \A i \in LogIds : Handling(i)' = Handling(i) \ {t} /\ LoansOf(i)' = LoansOf(i)
      /\ Closing' = Closing \ {t} /\ RepaidLoans' = RepaidLoans \cup {task[t].loan}
      /\ RepaymentRows' = RepaymentRows
  BY <1>1, <1>3, HandsMove, LoanClosed DEF RepaymentRows
<1>5. \A i \in LogIds : Handling(i)' = Handling(i)
  BY <1>1, <1>4 DEF Handling
<1>6. RowsInv'
  BY <1>1, <1>4, <1>5 DEF RowsInv
<1>7. /\ Cardinality(Closing') = Cardinality(Closing) - 1 /\ Cardinality(Closing) \in Nat
      /\ Cardinality(RepaidLoans') <= Cardinality(RepaidLoans) + 1
      /\ Cardinality(RepaidLoans') \in Nat /\ Cardinality(RepaidLoans) \in Nat
  BY <1>1, <1>4, CountedSets, SizeChanges
<1>8. RepaymentRows \in Int
  <2>1. \A i \in LogIds : RepaymentRows \in Nat
    BY <1>1, RepaymentsAdd
  <2>2. Current(t) \in LogIds
    BY <1>1, CurrentIsLog
  <2>3. QED
    BY <2>1, <2>2
<1>9. ClosedInv'
  BY <1>4, <1>7, <1>8 DEF ClosedInv
<1>10. QED
  BY <1>6, <1>9

LEMMA CountsKeptByCrash ==
  ASSUME TypeInv, RowsInv, ClosedInv, Crash PROVE RowsInv' /\ ClosedInv'
<1>1. task' = [t \in Tasks |-> Idle] /\ UNCHANGED <<recordRows, eventRows, loans>>
  BY DEF Crash, db
<1>2. /\ \A i \in LogIds : Handling(i)' = {} /\ LoansOf(i)' = LoansOf(i)
      /\ Closing' = {} /\ RepaidLoans' = RepaidLoans /\ RepaymentRows' = RepaymentRows
  BY <1>1 DEF Handling, Closing, LoansOf, RepaidLoans, RepaymentRows, Idle
<1>3. Cardinality({}) = 0
  BY FS_EmptySet
<1>4. RowsInv'
  <2>1. ASSUME NEW i \in LogIds
        PROVE  (recordRows[i] + Cardinality(LoansOf(i)) + Cardinality(Handling(i)) <= eventRows[i])'
    <3>1. recordRows[i] + Cardinality(LoansOf(i)) + Cardinality(Handling(i)) <= eventRows[i]
      BY DEF RowsInv
    <3>2. recordRows[i] + Cardinality(LoansOf(i)) + 0 <= eventRows[i]
      BY <3>1, CountedSets
    <3>3. QED
      BY <1>1, <1>2, <1>3, <3>2
  <2>2. QED
    BY <2>1 DEF RowsInv
<1>5. RepaymentRows \in Int
  <2> DEFINE f == [i \in LogIds |-> IF Logs[i].kind = "Repaid" THEN recordRows[i] ELSE 0]
  <2>1. f \in [LogIds -> Int] /\ IsFiniteSet(LogIds)
    BY CountedSets
  <2> HIDE DEF f
  <2>2. SumFunction(f) \in Int
    BY <2>1, SumOfMapping
  <2>3. QED
    BY <2>2 DEF f, RepaymentRows
<1>6. ClosedInv'
  BY <1>2, <1>3, <1>5, CountedSets DEF ClosedInv
<1>7. QED
  BY <1>4, <1>6

LEMMA CountsKeptElsewhere ==
  ASSUME TypeInv, RowsInv, ClosedInv, NEW t \in Tasks, t \in CronRuns \/ t = Startup,
         \/ GetState(t) \/ GetCurrentBlock(t) \/ GetLogs(t) \/ UpdateState(t) \/ FindActiveLoan(t)
         \/ TaskFails(t) \/ LogFails(t) \/ (t = Startup /\ Start) \/ (t \in CronRuns /\ SyncCheck(t))
  PROVE  RowsInv' /\ ClosedInv'
<1>1. UNCHANGED <<recordRows, eventRows, loans>>
  BY DEF GetState, GetCurrentBlock, GetLogs, UpdateState, FindActiveLoan, TaskFails, LogFails,
         Start, SyncCheck, db
<1>2. Formed(task[t], head, Len(loans)) /\ Typed(task[t])
  BY DEF TypeInv, Formed
<1> DEFINE Quits(r) == r.pc \notin {"handle", "find", "mark"}
<1>3. ASSUME NEW r, Goto(t, r), Quits(r) PROVE RowsInv' /\ ClosedInv'
  BY <1>1, <1>3, CountsKept
<1>4. Quits(Idle) /\ Quits([Idle EXCEPT !.pc = "state"])
  BY DEF Idle
<1>5. CASE (t = Startup /\ Start) \/ (t \in CronRuns /\ SyncCheck(t)) \/ TaskFails(t)
  BY <1>3, <1>4, <1>5 DEF Start, SyncCheck, TaskFails
<1>6. CASE GetState(t)
  <2>1. PICK from : Goto(t, [task[t] EXCEPT !.pc = "head", !.from = from])
    BY <1>6 DEF GetState
  <2>2. Quits([task[t] EXCEPT !.pc = "head", !.from = from])
    BY <1>2 DEF Typed
  <2>3. QED
    BY <1>3, <2>1, <2>2
<1>7. CASE GetCurrentBlock(t) \/ UpdateState(t)
  <2> DEFINE r == [task[t] EXCEPT !.to = head]
  <2>1. \/ Goto(t, NextBatch(t, r, task[t].from))
        \/ Goto(t, NextBatch(t, task[t], task[t].batchEnd + 1))
    BY <1>7 DEF GetCurrentBlock, UpdateState
  <2>2. Typed(r)
    BY <1>2, HeadTyped DEF Typed, TypeInv
  <2> HIDE DEF r
  <2>3. /\ Quits(NextBatch(t, r, task[t].from))
        /\ Quits(NextBatch(t, task[t], task[t].batchEnd + 1))
    BY <1>2, <2>2, NextBatchLeaves
  <2>4. QED
    BY <1>3, <2>1, <2>3
<1>8. CASE GetLogs(t)
  <2>1. \/ Goto(t, NextContract(task[t]))
        \/ \E found : Goto(t, [task[t] EXCEPT !.pc = "save", !.logs = found])
    BY <1>8 DEF GetLogs
  <2>2. /\ Quits(NextContract(task[t]))
        /\ \A found : Quits([task[t] EXCEPT !.pc = "save", !.logs = found])
    BY <1>2 DEF NextContract, Typed
  <2>3. QED
    BY <1>3, <2>1, <2>2
<1>9. CASE LogFails(t)
  <2>1. task[t].pc \in OnLog /\ Goto(t, NextLog(task[t]))
    BY <1>9 DEF LogFails, AfterError, OnLog
  <2>2. Quits(NextLog(task[t]))
    BY <1>2, <2>1, NextLogLeaves
  <2>3. QED
    BY <1>3, <2>1, <2>2
<1>10. CASE FindActiveLoan(t)
  <2>1. /\ task[t].pc \in OnLog /\ t \in Closing
        /\ \/ Goto(t, NextLog(task[t]))
           \/ \E k : Goto(t, [task[t] EXCEPT !.pc = "mark", !.loan = k])
    BY <1>10 DEF FindActiveLoan, OnLog, Closing
  <2>2. Quits(NextLog(task[t]))
    BY <1>2, <2>1, NextLogLeaves
  <2>3. \A k : [task[t] EXCEPT !.pc = "mark", !.loan = k].pc # "handle"
    BY <1>2 DEF Typed
  <2>4. QED
    BY <1>1, <1>3, <2>1, <2>2, <2>3, CountsKept
<1>11. QED
  BY <1>5, <1>6, <1>7, <1>8, <1>9, <1>10, SMTT(60)

LEMMA CountsHold == Spec => [](RowsInv /\ ClosedInv)
<1>1. ASSUME Init PROVE RowsInv /\ ClosedInv
  <2>1. /\ loans = << >> /\ task = [t \in Tasks |-> Idle]
        /\ eventRows = [i \in LogIds |-> 0] /\ recordRows = [i \in LogIds |-> 0]
    BY <1>1 DEF Init
  <2>2. /\ \A i \in LogIds : LoansOf(i) = {} /\ Handling(i) = {}
        /\ Closing = {} /\ RepaidLoans = {}
    BY <2>1 DEF LoansOf, Handling, Closing, RepaidLoans, Idle
  <2>3. Cardinality({}) = 0
    BY FS_EmptySet
  <2>4. RowsInv
    <3>1. ASSUME NEW i \in LogIds
          PROVE  recordRows[i] + Cardinality(LoansOf(i)) + Cardinality(Handling(i)) <= eventRows[i]
      <4>1. recordRows[i] = 0 /\ eventRows[i] = 0
        BY <2>1
      <4>2. Cardinality(LoansOf(i)) = 0 /\ Cardinality(Handling(i)) = 0
        BY <2>2, <2>3
      <4>3. QED
        BY ONLY <4>1, <4>2
    <3>2. QED
      BY <3>1 DEF RowsInv
  <2> DEFINE f == [i \in LogIds |-> IF Logs[i].kind = "Repaid" THEN recordRows[i] ELSE 0]
  <2>5. f \in [LogIds -> Int] /\ f \in [LogIds -> Nat] /\ IsFiniteSet(LogIds)
    BY <2>1, ListenerConstants DEF LogIds
  <2> HIDE DEF f
  <2>6. SumFunction(f) \in Nat
    BY <2>5, SumOfMapping
  <2>7. ClosedInv
    BY <2>2, <2>3, <2>6 DEF f, ClosedInv, RepaymentRows
  <2>8. QED
    BY <2>4, <2>7
<1>2. ASSUME TypeInv, RowsInv, ClosedInv, [Next]_vars PROVE RowsInv' /\ ClosedInv'
  <2>1. ASSUME NEW t \in Tasks, TaskStep(t) PROVE RowsInv' /\ ClosedInv'
    BY <1>2, <2>1, CountsKeptBySaveEvent, CountsKeptByHandleEvent, CountsKeptByUpdateLoan,
       CountsKeptElsewhere DEF TaskStep, Tasks
  <2>2. ASSUME NEW t \in Tasks, TaskFails(t) \/ LogFails(t) PROVE RowsInv' /\ ClosedInv'
    BY <1>2, <2>2, CountsKeptElsewhere DEF Tasks
  <2>3. ASSUME NEW t \in CronRuns, SyncCheck(t) PROVE RowsInv' /\ ClosedInv'
    BY <1>2, <2>3, CountsKeptElsewhere DEF Tasks
  <2>4. CASE Start
    BY <1>2, <2>4, CountsKeptElsewhere DEF Tasks
  <2>5. CASE Mine \/ UNCHANGED vars
    <3>1. UNCHANGED <<task, loans, recordRows, eventRows>>
      BY <2>5 DEF Mine, vars, db
    <3>2. QED
      BY <1>2, <3>1 DEF RowsInv, ClosedInv, LoansOf, Handling, Closing, RepaidLoans, RepaymentRows
  <2>6. QED
    BY <1>2, <2>1, <2>2, <2>3, <2>4, <2>5, CountsKeptByCrash DEF Next
<1>3. QED
  BY <1>1, <1>2, TypeInvHolds, PTL DEF Spec

(* A deposit, withdrawal, repayment or loan row never stands without its   *)
(* raw event row (event-listener.service.ts, processEvent), whatever runs  *)
(* overlap, fail or are killed.                                            *)
THEOREM NoRecordWithoutEvent == Spec => []RecordsHaveEvents
<1>1. ASSUME TypeInv, RowsInv, NEW i \in LogIds PROVE recordRows[i] + LoanRows(i) <= eventRows[i]
  <2>1. LoanRows(i) = Cardinality(LoansOf(i))
    BY DEF LoanRows, LoansOf
  <2>2. recordRows[i] + Cardinality(LoansOf(i)) + Cardinality(Handling(i)) <= eventRows[i]
    BY <1>1 DEF RowsInv
  <2>3. QED
    BY <1>1, <2>1, <2>2, CountedSets
<1>2. TypeInv /\ RowsInv => RecordsHaveEvents
  BY <1>1 DEF RecordsHaveEvents
<1>3. QED
  BY <1>2, TypeInvHolds, CountsHold, PTL

(* One repayment closes one loan at most (loans.service.ts, handleRepay),  *)
(* also where two runs handle the same log between each other's lookup and *)
(* update: every loan closed has a repayment row of its own.               *)
THEOREM EveryClosingIsRepaid == Spec => []ClosedByRepayments
<1>1. ASSUME TypeInv, ClosedInv PROVE ClosedByRepayments
  <2>1. /\ Cardinality(RepaidLoans) + Cardinality(Closing) <= RepaymentRows
        /\ Cardinality(RepaidLoans) \in Nat /\ Cardinality(Closing) \in Nat
    BY <1>1, CountedSets DEF ClosedInv
  <2> DEFINE f == [i \in LogIds |-> IF Logs[i].kind = "Repaid" THEN recordRows[i] ELSE 0]
  <2>2. f \in [LogIds -> Int] /\ IsFiniteSet(LogIds)
    BY <1>1, CountedSets
  <2> HIDE DEF f
  <2>3. SumFunction(f) \in Int
    BY <2>2, SumOfMapping
  <2>4. RepaymentRows \in Int
    BY <2>3 DEF f, RepaymentRows
  <2>5. Cardinality(RepaidLoans) <= RepaymentRows
    BY <2>1, <2>4
  <2>6. QED
    BY <2>5 DEF ClosedByRepayments, RepaidLoans
<1>2. QED
  BY <1>1, TypeInvHolds, CountsHold, PTL

-----------------------------------------------------------------------------
(* While no two runs were under way together, at most one task is busy.  A *)
(* log that has been written as often as failed calls and kills account    *)
(* for is past that task, or stored where none is busy: it is not written  *)
(* again before the next failure or kill.                                  *)
Due == 1 + faults + crashes

Passed(r, i) == r.pc \in InBatch /\ Logs[i].block <= r.batchEnd /\ ~Ahead(r, i)

(* Log i will not be saved on the way that task record r is on.            *)
Past(r, i, last) ==
  /\ r.pc \in {"idle", "state", "head"} => Logs[i].block <= last
  /\ r.pc = "head" => Logs[i].block < r.from
  /\ r.pc \in InBatch => Logs[i].block < r.from \/ Passed(r, i)

AllIdle == \A t \in Tasks : task[t].pc = "idle"
RowsDue(rows, r, last, due) ==
  \A i \in LogIds : rows[i] <= due /\ (rows[i] = due => Past(r, i, last))

RepeatInv ==
  /\ ~running => AllIdle
  /\ \A t, u \in Tasks : task[t].pc # "idle" /\ task[u].pc # "idle" => t = u
  /\ AllIdle => RowsDue(eventRows, Idle, lastBlock, Due)
  /\ \A t \in Tasks : task[t].pc # "idle" => RowsDue(eventRows, task[t], lastBlock, Due)

LEMMA IdlePast == \A i \in LogIds : \A last : Past(Idle, i, last) <=> Logs[i].block <= last
  BY DEF Past, Idle, InBatch, OnLog

LEMMA BusyTask ==
  ASSUME RepeatInv, NEW t \in Tasks, task[t].pc # "idle"
  PROVE  /\ running
         /\ \A u \in Tasks : u # t => task[u].pc = "idle"
         /\ RowsDue(eventRows, task[t], lastBlock, Due)
  BY DEF RepeatInv, AllIdle

(* The busy task moves on. *)
LEMMA BusyTaskMoves ==
  ASSUME TypeInv, RepeatInv, NEW t \in Tasks, task[t].pc # "idle", NEW r, Goto(t, r),
         UNCHANGED running, RowsDue(eventRows', r, lastBlock', Due')
  PROVE  RepeatInv'
<1>1. \A u \in Tasks : task'[u] = IF u = t THEN r ELSE task[u]
  BY DEF TypeInv, Goto
<1>2. running /\ \A u \in Tasks : u # t => task'[u].pc = "idle"
  BY <1>1, BusyTask
<1>3. task'[t] = r
  BY <1>1
<1>4. r.pc = "idle" => RowsDue(eventRows', Idle, lastBlock', Due')
  BY IdlePast DEF RowsDue, Past
<1>5. (AllIdle => RowsDue(eventRows, Idle, lastBlock, Due))'
  BY <1>3, <1>4 DEF AllIdle
<1>6. (\A u \in Tasks : task[u].pc # "idle" => RowsDue(eventRows, task[u], lastBlock, Due))'
  BY <1>2, <1>3
<1>7. QED
  BY <1>2, <1>5, <1>6 DEF RepeatInv

(* With every failure or kill one more row is due, wherever the tasks are. *)
Disturbs ==
  \/ faults' = faults + 1 /\ crashes' = crashes
  \/ faults' = faults /\ crashes' = crashes + 1

LEMMA MoreIsDue ==
  ASSUME TypeInv, RepeatInv, Disturbs, UNCHANGED eventRows, NEW r, NEW last
  PROVE  RowsDue(eventRows', r, last, Due')
<1>1. /\ faults \in Int /\ crashes \in Int
      /\ \A i \in LogIds : eventRows[i] \in Int
  BY ListenerConstants DEF TypeInv, Stored
<1>2. \A i \in LogIds : eventRows[i] <= Due
  BY DEF RepeatInv, RowsDue, AllIdle
<1>3. Due' = Due + 1 /\ Due \in Int
  BY <1>1 DEF Due, Disturbs
<1>4. QED
  BY <1>1, <1>2, <1>3 DEF RowsDue

(* A log that is passed stays passed.                                      *)
LEMMA PassedByNextContract ==
  ASSUME NEW r, NEW h, NEW n, Formed(r, h, n), NEW i \in LogIds, Passed(r, i),
         r.pc \in {"fetch"} \cup OnLog
  PROVE  Passed(NextContract(r), i)
<1> DEFINE new == NextContract(r)
<1>1. Typed(r) /\ r.contract \in {1, 2} /\ Position(i) \in {1, 2}
  BY LogFacts DEF Formed
<1>2. /\ new.pc = (IF r.contract < 2 THEN "fetch" ELSE "store") /\ new.contract = r.contract + 1
      /\ new.batchEnd = r.batchEnd
  BY <1>1 DEF NextContract, Contracts, Typed
<1>3. Position(i) <= r.contract
  BY <1>1 DEF Passed, Ahead
<1> HIDE DEF new
<1>4. ~Ahead(new, i)
  BY <1>1, <1>2, <1>3 DEF Ahead, OnLog
<1>5. Passed(new, i)
  BY <1>2, <1>4 DEF Passed, InBatch
<1>6. QED
  BY <1>5 DEF new

LEMMA PassedByNextLog ==
  ASSUME NEW r, NEW h, NEW n, Formed(r, h, n), NEW i \in LogIds, Passed(r, i),
         r.pc \in OnLog, r.pc # "save"
  PROVE  Passed(NextLog(r), i)
<1> DEFINE rest == r.logs \ {First(r.logs)}
           new == [r EXCEPT !.pc = "save", !.logs = rest, !.loan = 0]
<1>1. CASE rest = {}
  BY <1>1, PassedByNextContract DEF NextLog
<1>2. CASE rest # {}
  <2>1. Typed(r) /\ i \notin rest /\ ~(Position(i) > r.contract) /\ Logs[i].block <= r.batchEnd
    BY DEF Formed, Passed, Ahead, ToSave
  <2> HIDE DEF rest
  <2>2. /\ new.pc = "save" /\ new.logs = rest
        /\ new.contract = r.contract /\ new.batchEnd = r.batchEnd
    BY <2>1 DEF Typed
  <2>3. NextLog(r) = new
    BY <1>2 DEF NextLog, rest
  <2> HIDE DEF new
  <2>4. Passed(new, i)
    BY <2>1, <2>2 DEF Passed, Ahead, ToSave, InBatch, OnLog
  <2>5. QED
    BY <2>3, <2>4
<1>3. QED
  BY <1>1, <1>2

(* The next log, contract or batch lies no lower.                          *)
LEMMA NextLogFrom ==
  ASSUME NEW r, NEW h, NEW n, Formed(r, h, n), r.pc \in {"fetch"} \cup OnLog
  PROVE  NextContract(r).from = r.from /\ NextLog(r).from = r.from
  BY DEF NextLog, NextContract, Formed, Typed

LEMMA NextBatchFrom ==
  ASSUME NEW t, NEW r, Typed(r), NEW from
  PROVE  NextBatch(t, r, from).pc \in InBatch => NextBatch(t, r, from).from = from
  BY DEF NextBatch, Typed, Idle, InBatch, OnLog

(* Along a batch, what is past stays past.                                 *)
LEMMA StaysPast ==
  ASSUME NEW r, NEW new, r.pc \in InBatch, new.pc \in InBatch, new.from = r.from,
         NEW rows, NEW last, NEW due, RowsDue(rows, r, last, due),
         \A i \in LogIds : Passed(r, i) => Passed(new, i)
  PROVE  RowsDue(rows, new, last, due)
<1>1. ~(r.pc \in {"idle", "state", "head"}) /\ ~(new.pc \in {"idle", "state", "head"})
  BY DEF InBatch, OnLog
<1>2. \A i \in LogIds : Past(r, i, last) => Past(new, i, last)
  BY <1>1 DEF Past
<1>3. QED
  BY <1>2 DEF RowsDue

LEMMA PastAfterLog ==
  ASSUME TypeInv, RepeatInv, NEW t \in Tasks, task[t].pc \in OnLog, task[t].pc # "save",
         Goto(t, NextLog(task[t])), UNCHANGED <<running, lastBlock, eventRows, faults, crashes>>
  PROVE  RepeatInv'
<1> DEFINE r == task[t]
           new == NextLog(r)
<1>1. Formed(r, head, Len(loans)) /\ r.pc # "idle" /\ r.pc \in InBatch
  BY DEF TypeInv, InBatch, OnLog
<1>2. RowsDue(eventRows, r, lastBlock, Due)
  BY <1>1, BusyTask
<1>3. new.pc \in InBatch /\ new.from = r.from
  BY <1>1, NextLogLeaves, NextLogFrom DEF InBatch, OnLog
<1>4. \A i \in LogIds : Passed(r, i) => Passed(new, i)
  BY <1>1, PassedByNextLog
<1>5. Goto(t, new) /\ Due' = Due
  BY DEF Due
<1> HIDE DEF new
<1>6. RowsDue(eventRows, new, lastBlock, Due)
  BY <1>1, <1>2, <1>3, <1>4, StaysPast
<1>7. RowsDue(eventRows', new, lastBlock', Due')
  BY <1>5, <1>6
<1>8. QED
  BY <1>1, <1>5, <1>7, BusyTaskMoves

(* From one place within the handling of a log to another.                 *)
LEMMA PastWithinLog ==
  ASSUME TypeInv, RepeatInv, NEW t \in Tasks, task[t].pc \in OnLog, task[t].pc # "save",
         NEW r, Typed(r), r.pc \in {"find", "mark"}, r.from = task[t].from, r.logs = task[t].logs,
         r.batchEnd = task[t].batchEnd, r.contract = task[t].contract,
         Goto(t, r), UNCHANGED <<running, lastBlock, eventRows, faults, crashes>>
  PROVE  RepeatInv'
<1>1. task[t].pc # "idle" /\ task[t].pc \in InBatch /\ r.pc \in OnLog /\ r.pc # "save"
      /\ r.pc \in InBatch
  BY DEF InBatch, OnLog
<1>2. RowsDue(eventRows, task[t], lastBlock, Due) /\ Due' = Due
  BY <1>1, BusyTask DEF Due
<1>3. \A i \in LogIds : Passed(task[t], i) => Passed(r, i)
  BY <1>1 DEF Passed, Ahead, ToSave, InBatch, OnLog
<1>4. RowsDue(eventRows, r, lastBlock, Due)
  BY <1>1, <1>2, <1>3, StaysPast
<1>5. RowsDue(eventRows', r, lastBlock', Due')
  BY <1>2, <1>4
<1>6. QED
  BY <1>1, <1>5, BusyTaskMoves

LEMMA RepeatKeptByStart == ASSUME TypeInv, RepeatInv, Start PROVE RepeatInv'
<1> DEFINE r == [Idle EXCEPT !.pc = "state"]
<1>1. /\ ~running /\ running' /\ Goto(Startup, r)
      /\ UNCHANGED <<lastBlock, eventRows, faults, crashes>>
  BY DEF Start, db, budget
<1>2. /\ \A t \in Tasks : task'[t] = IF t = Startup THEN r ELSE task[t]
      /\ r.pc = "state" /\ Startup \in Tasks
  BY <1>1 DEF TypeInv, Goto, Tasks, Idle
<1> HIDE DEF r
<1>3. \A t \in Tasks : t # Startup => task'[t].pc = "idle"
  BY <1>1, <1>2 DEF RepeatInv, AllIdle
<1>4. RowsDue(eventRows, Idle, lastBlock, Due) /\ Due' = Due
  BY <1>1 DEF RepeatInv, Due
<1>5. RowsDue(eventRows', r, lastBlock', Due')
  BY <1>1, <1>2, <1>4, IdlePast DEF RowsDue, Past, InBatch, OnLog
<1>6. (\A t \in Tasks : task[t].pc # "idle" => RowsDue(eventRows, task[t], lastBlock, Due))'
  BY <1>2, <1>3, <1>5
<1>7. ~AllIdle'
  BY <1>2 DEF AllIdle
<1>8. QED
  BY <1>1, <1>3, <1>6, <1>7 DEF RepeatInv

LEMMA RepeatKeptBySyncCheck ==
  ASSUME TypeInv, RepeatInv, NEW t \in CronRuns, SyncCheck(t), ~overlapped' PROVE RepeatInv'
<1> DEFINE r == [Idle EXCEPT !.pc = "state"]
<1>1. /\ running /\ task[Startup].pc = "idle" /\ Goto(t, r) /\ t \in Tasks
      /\ \A c \in CronRuns : task[c].pc = "idle"
      /\ UNCHANGED <<running, lastBlock, eventRows, faults, crashes>>
  BY DEF SyncCheck, process, db, budget, Tasks
<1>2. \A u \in Tasks : task'[u] = IF u = t THEN r ELSE task[u]
  BY <1>1 DEF TypeInv, Goto
<1>3. r.pc = "state"
  BY DEF Idle
<1> HIDE DEF r
<1>4. AllIdle
  BY <1>1 DEF Tasks, AllIdle
<1>5. \A u \in Tasks : u # t => task'[u].pc = "idle"
  BY <1>2, <1>4 DEF AllIdle
<1>6. RowsDue(eventRows, Idle, lastBlock, Due) /\ Due' = Due
  BY <1>1, <1>4 DEF RepeatInv, Due
<1>7. RowsDue(eventRows', r, lastBlock', Due')
  BY <1>1, <1>3, <1>6, IdlePast DEF RowsDue, Past, InBatch, OnLog
<1>8. (\A u \in Tasks : task[u].pc # "idle" => RowsDue(eventRows, task[u], lastBlock, Due))'
  BY <1>1, <1>2, <1>5, <1>7
<1>9. ~AllIdle'
  BY <1>1, <1>2, <1>3 DEF AllIdle
<1>10. QED
  BY <1>1, <1>5, <1>8, <1>9 DEF RepeatInv

(* A task starts beyond the stored block; so does the startup task where   *)
(* it takes block 0 for no state, since no log is in block 0.  A failed    *)
(* read sends it back, and is accounted for.                               *)
LEMMA RepeatKeptByGetState ==
  ASSUME TypeInv, RepeatInv, NEW t \in Tasks, GetState(t) PROVE RepeatInv'
<1> DEFINE from == FirstBlock(t, lastBlock)
           r == [task[t] EXCEPT !.pc = "head", !.from = from]
           again == [task[t] EXCEPT !.pc = "head", !.from = FirstBlock(t, NoState)]
<1>1. /\ task[t].pc = "state" /\ task[t].pc # "idle"
      /\ UNCHANGED <<running, lastBlock, eventRows, crashes>>
      /\ \/ Goto(t, r) /\ faults' = faults
         \/ Goto(t, again) /\ faults' = faults + 1
  BY DEF GetState, Fault, process, db
<1>2. CASE Goto(t, r) /\ faults' = faults
  <2>1. \A i \in LogIds : Logs[i].block <= lastBlock => Logs[i].block < from
    <3>1. /\ START_BLOCK \in Nat /\ lastBlock \in Int
          /\ \A i \in LogIds : Logs[i].block \in Int /\ Logs[i].block >= 1
      BY ListenerConstants DEF TypeInv, Stored, NoState, LogIds
    <3>2. QED
      BY <3>1 DEF FirstBlock, NoState
  <2>2. r.pc = "head" /\ r.from = from
    BY DEF TypeInv, Formed, Typed
  <2> HIDE DEF from, r
  <2>3. RowsDue(eventRows, task[t], lastBlock, Due) /\ Due' = Due
    BY <1>1, <1>2, BusyTask DEF Due
  <2>4. RowsDue(eventRows', r, lastBlock', Due')
    BY <1>1, <2>1, <2>2, <2>3 DEF RowsDue, Past, InBatch, OnLog
  <2>5. QED
    BY <1>1, <1>2, <2>4, BusyTaskMoves
<1>3. CASE Goto(t, again) /\ faults' = faults + 1
  <2> HIDE DEF again
  <2>1. RowsDue(eventRows', again, lastBlock', Due')
    BY <1>1, <1>3, MoreIsDue DEF Disturbs
  <2>2. QED
    BY <1>1, <1>3, <2>1, BusyTaskMoves
<1>4. QED
  BY <1>1, <1>2, <1>3

LEMMA RepeatKeptByGetCurrentBlock ==
  ASSUME TypeInv, RepeatInv, NEW t \in Tasks, GetCurrentBlock(t) PROVE RepeatInv'
<1> DEFINE r == [task[t] EXCEPT !.to = head]
           new == NextBatch(t, r, task[t].from)
<1>1. /\ task[t].pc = "head" /\ task[t].pc # "idle" /\ Goto(t, new)
      /\ UNCHANGED <<running, lastBlock, eventRows, faults, crashes>>
  BY DEF GetCurrentBlock, process, db, budget
<1>2. Typed(r)
  BY HeadTyped DEF TypeInv, Formed, Typed
<1> HIDE DEF r
<1>3. new.pc \in {"idle", "fetch", "store"} /\ (new.pc \in InBatch => new.from = task[t].from)
  BY <1>2, NextBatchLeaves, NextBatchFrom
<1> HIDE DEF new
<1>4. RowsDue(eventRows, task[t], lastBlock, Due) /\ Due' = Due
  BY <1>1, BusyTask DEF Due
<1>5. \A i \in LogIds : Past(task[t], i, lastBlock) => Past(new, i, lastBlock)
  BY <1>1, <1>3 DEF Past, InBatch, OnLog
<1>6. RowsDue(eventRows', new, lastBlock', Due')
  BY <1>1, <1>4, <1>5 DEF RowsDue
<1>7. QED
  BY <1>1, <1>6, BusyTaskMoves

LEMMA RepeatKeptByGetLogs ==
  ASSUME TypeInv, RepeatInv, NEW t \in Tasks, GetLogs(t) PROVE RepeatInv'
<1> DEFINE r == task[t]
           found == LogsOf(Contracts[r.contract], r.from, r.batchEnd)
           fetched == [r EXCEPT !.pc = "save", !.logs = found]
<1>1. /\ r.pc = "fetch" /\ r.pc # "idle" /\ r.pc \in InBatch
      /\ Goto(t, IF found = {} THEN NextContract(r) ELSE fetched)
      /\ UNCHANGED <<running, lastBlock, eventRows, faults, crashes>>
  BY DEF GetLogs, process, db, budget, InBatch
<1>2. Formed(r, head, Len(loans)) /\ Typed(r) /\ r.contract \in {1, 2}
  BY <1>1 DEF TypeInv, Formed
<1>3. RowsDue(eventRows, r, lastBlock, Due) /\ Due' = Due
  BY <1>1, BusyTask DEF Due
<1>4. \A i \in found : Position(i) = r.contract
  BY <1>2, LogFacts DEF LogsOf, Contracts
<1> HIDE DEF found
<1>5. CASE found = {}
  <2> DEFINE new == NextContract(r)
  <2>1. new.pc \in InBatch /\ new.from = r.from
    BY <1>1, <1>2, NextLogFrom DEF NextContract, Typed, InBatch, OnLog
  <2>2. \A i \in LogIds : Passed(r, i) => Passed(new, i)
    BY <1>1, <1>2, PassedByNextContract
  <2>3. Goto(t, new)
    BY <1>1, <1>5
  <2> HIDE DEF new
  <2>4. RowsDue(eventRows, new, lastBlock, Due)
    BY <1>1, <1>3, <2>1, <2>2, StaysPast
  <2>5. RowsDue(eventRows', new, lastBlock', Due')
    BY <1>1, <1>3, <2>4
  <2>6. QED
    BY <1>1, <2>3, <2>5, BusyTaskMoves
<1>6. CASE found # {}
  <2>1. /\ fetched.pc = "save" /\ fetched.logs = found /\ fetched.from = r.from
        /\ fetched.batchEnd = r.batchEnd /\ fetched.contract = r.contract
    BY <1>2 DEF Typed
  <2>2. Goto(t, fetched)
    BY <1>1, <1>6
  <2> HIDE DEF fetched
  <2>3. ASSUME NEW i \in LogIds, Passed(r, i) PROVE Passed(fetched, i)
    <3>1. Position(i) \in {1, 2} /\ ~(Position(i) >= r.contract) /\ Logs[i].block <= r.batchEnd
      BY <1>1, <2>3, LogFacts DEF Passed, Ahead
    <3>2. i \notin found /\ ~(Position(i) > r.contract)
      BY <1>2, <1>4, <3>1
    <3>3. QED
      BY <2>1, <3>1, <3>2 DEF Passed, Ahead, ToSave, InBatch, OnLog
  <2>4. fetched.pc \in InBatch
    BY <2>1 DEF InBatch, OnLog
  <2>5. RowsDue(eventRows, fetched, lastBlock, Due)
    BY <1>1, <1>3, <2>1, <2>3, <2>4, StaysPast
  <2>6. RowsDue(eventRows', fetched, lastBlock', Due')
    BY <1>1, <1>3, <2>5
  <2>7. QED
    BY <1>1, <2>2, <2>6, BusyTaskMoves
<1>7. QED
  BY <1>5, <1>6

(* What was passed is now below the stored block.                          *)
LEMMA RepeatKeptByUpdateState ==
  ASSUME TypeInv, RepeatInv, NEW t \in Tasks, UpdateState(t) PROVE RepeatInv'
<1> DEFINE r == task[t]
           new == NextBatch(t, r, r.batchEnd + 1)
<1>1. /\ r.pc = "store" /\ r.pc # "idle" /\ r.pc \in InBatch /\ Goto(t, new)
      /\ lastBlock' = r.batchEnd
      /\ UNCHANGED <<running, eventRows, faults, crashes>>
  BY DEF UpdateState, ReadyToStore, process, budget, InBatch
<1>2. RowsDue(eventRows, r, lastBlock, Due) /\ Due' = Due
  BY <1>1, BusyTask DEF Due
<1>3. Typed(r) /\ r.from \in Int /\ r.batchEnd \in Int /\ r.from <= r.batchEnd
  BY <1>1 DEF TypeInv, Formed, Typed
<1>4. new.pc \in {"idle", "fetch", "store"} /\ (new.pc \in InBatch => new.from = r.batchEnd + 1)
  BY <1>3, NextBatchLeaves, NextBatchFrom
<1> HIDE DEF new
<1>5. ASSUME NEW i \in LogIds, Past(r, i, lastBlock) PROVE Past(new, i, r.batchEnd)
  <2>1. Logs[i].block \in Int
    BY LogFacts
  <2>2. Logs[i].block < r.from \/ Logs[i].block <= r.batchEnd
    BY <1>1, <1>5 DEF Past, Passed
  <2>3. Logs[i].block <= r.batchEnd /\ Logs[i].block < r.batchEnd + 1
    BY <1>3, <2>1, <2>2
  <2>4. QED
    BY <1>4, <2>3 DEF Past, InBatch, OnLog
<1>6. RowsDue(eventRows', new, lastBlock', Due')
  BY <1>1, <1>2, <1>5 DEF RowsDue
<1>7. QED
  BY <1>1, <1>6, BusyTaskMoves

(* The log whose event is saved is still due a row: it is in the task's    *)
(* batch, and the task, the only one, has not passed it.                   *)
LEMMA RepeatKeptBySaveEvent ==
  ASSUME TypeInv, RepeatInv, NEW t \in Tasks, SaveEvent(t) PROVE RepeatInv'
<1> DEFINE r == task[t]
           s == First(r.logs)
           new == [r EXCEPT !.pc = "handle"]
<1>1. /\ r.pc = "save" /\ r.pc # "idle" /\ r.pc \in InBatch /\ r.pc \in OnLog /\ Goto(t, new)
      /\ eventRows' = [eventRows EXCEPT ![s] = @ + 1]
      /\ UNCHANGED <<running, lastBlock, faults, crashes>>
  BY DEF SaveEvent, process, budget, InBatch, OnLog, Current
<1>2. Formed(r, head, Len(loans)) /\ Typed(r) /\ r.contract \in {1, 2} /\ r.from \in Int
  BY <1>1 DEF TypeInv, Formed, Typed
<1>3. s \in r.logs /\ s \in LogIds
  BY <1>1, <1>2, FirstIsMember DEF Formed, Typed
<1>4. RowsDue(eventRows, r, lastBlock, Due) /\ Due' = Due
  BY <1>1, BusyTask DEF Due
<1>5. /\ Logs[s].block \in r.from..r.batchEnd /\ Position(s) = r.contract
      /\ Logs[s].block \in Int /\ r.batchEnd \in Int
  BY <1>1, <1>2, <1>3, LogFacts DEF Formed, Typed, LogsOf, Contracts
<1>6. new.pc = "handle" /\ new.logs = r.logs /\ new.from = r.from
      /\ new.batchEnd = r.batchEnd /\ new.contract = r.contract
  BY <1>2 DEF Typed
<1> HIDE DEF new
<1>7. ~Past(r, s, lastBlock)
  <2>1. ~Passed(r, s)
    BY <1>1, <1>3 DEF Passed, Ahead, ToSave
  <2>2. QED
    BY <1>1, <1>2, <1>5, <2>1 DEF Past
<1>8. eventRows \in [LogIds -> Nat] /\ Due \in Int
  BY ListenerConstants DEF TypeInv, Stored, Due
<1>9. eventRows[s] <= Due /\ eventRows[s] # Due
  BY <1>3, <1>4, <1>7 DEF RowsDue
<1>10. Passed(new, s)
  <2>1. s \notin ToSave(new) /\ ~(Position(s) > new.contract)
    BY <1>2, <1>5, <1>6 DEF ToSave
  <2>2. QED
    BY <1>5, <1>6, <2>1 DEF Passed, Ahead, InBatch, OnLog
<1>11. \A i \in LogIds : Passed(r, i) => Passed(new, i)
  BY <1>1, <1>6 DEF Passed, Ahead, ToSave, InBatch, OnLog
<1>12. new.pc \in InBatch
  BY <1>6 DEF InBatch, OnLog
<1>13. RowsDue(eventRows, new, lastBlock, Due)
  BY <1>1, <1>4, <1>6, <1>11, <1>12, StaysPast
<1>14. Past(new, s, lastBlock)
  BY <1>6, <1>10 DEF Past
<1> HIDE DEF s
<1>15. /\ eventRows'[s] <= Due
       /\ \A i \in LogIds : i # s => eventRows'[i] = eventRows[i]
  BY <1>1, <1>3, <1>8, <1>9
<1>16. RowsDue(eventRows', new, lastBlock', Due')
  BY <1>1, <1>4, <1>13, <1>14, <1>15 DEF RowsDue
<1>17. QED
  BY <1>1, <1>16, BusyTaskMoves

LEMMA RepeatKeptOnLog ==
  ASSUME TypeInv, RepeatInv, NEW t \in Tasks, HandleEvent(t) \/ FindActiveLoan(t) \/ UpdateLoan(t)
  PROVE  RepeatInv'
<1> DEFINE r == [task[t] EXCEPT !.pc = "find"]
           found(k) == [task[t] EXCEPT !.pc = "mark", !.loan = k]
<1>1. /\ task[t].pc \in OnLog /\ task[t].pc # "save"
      /\ UNCHANGED <<running, lastBlock, eventRows, faults, crashes>>
  BY DEF HandleEvent, FindActiveLoan, UpdateLoan, process, db, budget, OnLog
<1>2. \/ Goto(t, NextLog(task[t])) \/ Goto(t, r)
      \/ \E k \in Latest(ActiveLoans(Logs[Current(t)].user)) : Goto(t, found(k))
  BY DEF HandleEvent, HandleDeposit, HandleBorrow, HandleRepay, HandleLiquidation, AddRecord,
         FindActiveLoan, UpdateLoan
<1>3. Typed(task[t])
  BY DEF TypeInv, Formed
<1>4. CASE Goto(t, NextLog(task[t]))
  BY <1>1, <1>4, PastAfterLog
<1>5. CASE Goto(t, r)
  <2>1. /\ r.pc = "find" /\ r.from = task[t].from /\ r.logs = task[t].logs
        /\ r.batchEnd = task[t].batchEnd /\ r.contract = task[t].contract /\ Typed(r)
    BY <1>3 DEF Typed, PCs
  <2> HIDE DEF r
  <2>2. QED
    BY <1>1, <1>5, <2>1, PastWithinLog
<1>6. ASSUME NEW k \in Latest(ActiveLoans(Logs[Current(t)].user)), Goto(t, found(k))
      PROVE  RepeatInv'
  <2> DEFINE new == found(k)
  <2>1. k \in Nat
    BY LenProperties DEF TypeInv, Stored, Latest, ActiveLoans
  <2>2. /\ new.pc = "mark" /\ new.from = task[t].from /\ new.logs = task[t].logs
        /\ new.batchEnd = task[t].batchEnd /\ new.contract = task[t].contract /\ Typed(new)
    BY <1>3, <2>1 DEF Typed, PCs
  <2>3. Goto(t, new)
    BY <1>6
  <2> HIDE DEF new
  <2>4. QED
    BY <1>1, <2>2, <2>3, PastWithinLog
<1>7. QED
  BY <1>2, <1>4, <1>5, <1>6

(* A failed call or a kill makes one more row of every log due.            *)
LEMMA RepeatKeptByFailures ==
  ASSUME TypeInv, RepeatInv, NEW t \in Tasks, TaskFails(t) \/ LogFails(t) PROVE RepeatInv'
<1>1. /\ task[t].pc # "idle" /\ faults' = faults + 1
      /\ UNCHANGED <<running, eventRows, crashes>>
      /\ Goto(t, Idle) \/ Goto(t, AfterError(t))
  BY DEF TaskFails, LogFails, Fault, db, process
<1>2. \A r : RowsDue(eventRows', r, lastBlock', Due')
  BY <1>1, MoreIsDue DEF Disturbs
<1>3. QED
  BY <1>1, <1>2, BusyTaskMoves

LEMMA RepeatKeptByCrash == ASSUME TypeInv, RepeatInv, Crash PROVE RepeatInv'
<1>1. /\ task' = [t \in Tasks |-> Idle] /\ faults' = faults /\ crashes' = crashes + 1
      /\ UNCHANGED eventRows
  BY DEF Crash, db
<1>2. RowsDue(eventRows', Idle, lastBlock', Due')
  BY <1>1, MoreIsDue DEF Disturbs
<1>3. AllIdle'
  BY <1>1 DEF AllIdle, Idle
<1>4. QED
  BY <1>2, <1>3 DEF RepeatInv, AllIdle

(* Runs that have overlapped are remembered.                               *)
LEMMA OverlapRemembered == ASSUME [Next]_vars, ~overlapped' PROVE ~overlapped
<1>1. ASSUME NEW t \in Tasks, TaskStep(t) PROVE UNCHANGED overlapped
  BY <1>1 DEF TaskStep, GetState, GetCurrentBlock, GetLogs, UpdateState, SaveEvent,
             HandleEvent, FindActiveLoan, UpdateLoan
<1>2. ASSUME NEW t \in Tasks, TaskFails(t) \/ LogFails(t) PROVE UNCHANGED overlapped
  BY <1>2 DEF TaskFails, LogFails
<1>3. ASSUME NEW t \in CronRuns, SyncCheck(t) PROVE ~overlapped
  BY <1>3, Zenon DEF SyncCheck
<1>4. CASE Start \/ Mine \/ Crash \/ UNCHANGED vars
  BY <1>4 DEF Start, Mine, Crash, vars
<1>5. QED
  BY <1>1, <1>2, <1>3, <1>4 DEF Next

LEMMA RepeatsHold == Spec => [](~overlapped => RepeatInv)
<1>1. ASSUME Init PROVE RepeatInv
  <2>1. /\ task = [t \in Tasks |-> Idle] /\ eventRows = [i \in LogIds |-> 0]
        /\ faults = 0 /\ crashes = 0
    BY <1>1 DEF Init
  <2>2. AllIdle
    BY <2>1 DEF AllIdle, Idle
  <2>3. Due = 1 /\ \A i \in LogIds : eventRows[i] = 0
    BY <2>1 DEF Due
  <2>4. RowsDue(eventRows, Idle, lastBlock, Due)
    BY <2>3 DEF RowsDue
  <2>5. QED
    BY <2>2, <2>4 DEF RepeatInv, AllIdle
<1>2. ASSUME TypeInv, ~overlapped => RepeatInv, [Next]_vars, ~overlapped' PROVE RepeatInv'
  <2>1. RepeatInv
    BY <1>2, OverlapRemembered
  <2>2. ASSUME NEW t \in Tasks, TaskStep(t) PROVE RepeatInv'
    BY <1>2, <2>1, <2>2, RepeatKeptByGetState, RepeatKeptByGetCurrentBlock, RepeatKeptByGetLogs,
       RepeatKeptByUpdateState, RepeatKeptBySaveEvent, RepeatKeptOnLog DEF TaskStep
  <2>3. ASSUME NEW t \in Tasks, TaskFails(t) \/ LogFails(t) PROVE RepeatInv'
    BY <1>2, <2>1, <2>3, RepeatKeptByFailures
  <2>4. CASE Mine \/ UNCHANGED vars
    <3>1. UNCHANGED <<running, task, lastBlock, eventRows, faults, crashes>>
      BY <2>4 DEF Mine, vars, db, process, budget
    <3>2. QED
      BY <2>1, <3>1 DEF RepeatInv, AllIdle, Due
  <2>5. CASE Start
    BY <1>2, <2>1, <2>5, RepeatKeptByStart
  <2>6. CASE Crash
    BY <1>2, <2>1, <2>6, RepeatKeptByCrash
  <2>7. ASSUME NEW t \in CronRuns, SyncCheck(t) PROVE RepeatInv'
    BY <1>2, <2>1, <2>7, RepeatKeptBySyncCheck
  <2>8. QED
    BY <1>2, <2>2, <2>3, <2>4, <2>5, <2>6, <2>7 DEF Next
<1>3. QED
  BY <1>1, <1>2, TypeInvHolds, PTL DEF Spec

(* As long as no two runs were under way together, a log has one event row *)
(* and one more at most for every call that has failed and every kill:     *)
(* startup task and cron hand on to each other without a block taken       *)
(* twice, and each failure sends the walk back once                        *)
(* (event-listener.service.ts, startIndexing, syncCheck and processBatch). *)
THEOREM IndexedOnce == Spec => []EventsOnce
<1>1. ASSUME ~overlapped => RepeatInv PROVE EventsOnce
  BY <1>1 DEF EventsOnce, RepeatInv, RowsDue, AllIdle, Due
<1>2. QED
  BY <1>1, RepeatsHold, PTL

-----------------------------------------------------------------------------
(* The index that is promised (EventIndex), step by step.  A row is added  *)
(* by SaveEvent, a record by a handler, whose log has more event rows than *)
(* records since its task is counted between them; a loan is closed on the *)
(* credit of a repayment row, as its task is counted there; a number is    *)
(* stored with nothing missing below it.  Where the contracts are not set, *)
(* the logs that nobody looks for are lost to that.                        *)
indexVars == <<head, lastBlock, eventRows, Records, RepaymentRows - ClosedLoans, givenUp, faults,
               contractsSet>>

(* What is seen of the tables.                                             *)
LEMMA TablesSeen ==
  /\ \A i : /\ LoanRows(i) = Cardinality(LoansOf(i))
            /\ LoanRows(i)' = Cardinality(LoansOf(i)')
  /\ ClosedLoans = Cardinality(RepaidLoans) /\ ClosedLoans' = Cardinality(RepaidLoans')
  BY DEF LoanRows, LoansOf, ClosedLoans, RepaidLoans

LEMMA TablesKept ==
  ASSUME UNCHANGED <<recordRows, loans>>
  PROVE  Records' = Records /\ (RepaymentRows - ClosedLoans)' = RepaymentRows - ClosedLoans
  BY DEF Records, LoanRows, RepaymentRows, ClosedLoans

LEMMA LoggedOnChain ==
  ASSUME TypeInv, NEW t \in Tasks, task[t].pc \in OnLog
  PROVE  Current(t) \in Index!LogsUpTo(head) /\ Current(t) \in LogIds
<1>1. /\ Current(t) \in LogIds /\ Current(t) \in task[t].logs
      /\ Formed(task[t], head, Len(loans))
  BY CurrentIsLog
<1>2. /\ Logs[Current(t)].block \in task[t].from..task[t].batchEnd
      /\ task[t].batchEnd \in Nat /\ task[t].to \in Nat
      /\ task[t].batchEnd <= task[t].to /\ task[t].to <= head /\ head \in Nat
  BY <1>1, HeadTyped DEF TypeInv, Formed, Typed, LogsOf, InBatch, OnLog
<1>3. QED
  BY <1>1, <1>2, LogFacts DEF Index!LogsUpTo, LogIds

(* A task with a log in hand: its event row is not spoken for.             *)
LEMMA RowInHand ==
  ASSUME TypeInv, RowsInv, NEW t \in Tasks, task[t].pc = "handle"
  PROVE  /\ Records[Current(t)] \in Nat /\ eventRows[Current(t)] \in Nat
         /\ Records[Current(t)] < eventRows[Current(t)]
<1> DEFINE i == Current(t)
<1>1. i \in LogIds
  BY CurrentIsLog DEF OnLog
<1>2. t \in Handling(i)
  BY DEF Handling, Current
<1> HIDE DEF i
<1>3. /\ recordRows[i] + Cardinality(LoansOf(i)) + Cardinality(Handling(i)) <= eventRows[i]
      /\ IsFiniteSet(Handling(i)) /\ Cardinality(Handling(i)) \in Nat
      /\ Cardinality(LoansOf(i)) \in Nat /\ recordRows[i] \in Nat /\ eventRows[i] \in Nat
  BY <1>1, CountedSets DEF RowsInv
<1>4. Cardinality(Handling(i)) # 0
  BY <1>2, <1>3, FS_EmptySet
<1>5. Records[i] = recordRows[i] + Cardinality(LoansOf(i))
  BY <1>1, TablesSeen DEF Records
<1>6. Records[i] \in Nat /\ eventRows[i] \in Nat /\ Records[i] < eventRows[i]
  BY <1>3, <1>4, <1>5
<1>7. QED
  BY <1>6 DEF i

(* The steps.                                                              *)
LEMMA RecordAdded ==
  ASSUME TypeInv, NEW i \in LogIds,
         \/ recordRows' = [recordRows EXCEPT ![i] = @ + 1] /\ loans' = loans
         \/ /\ recordRows' = recordRows
            /\ loans' = Append(loans, [log |-> i, status |-> "active"])
  PROVE  Records' = [Records EXCEPT ![i] = @ + 1] /\ ClosedLoans' = ClosedLoans
<1>1. \A j \in LogIds : recordRows[j] \in Nat /\ Cardinality(LoansOf(j)) \in Nat
  BY CountedSets
<1>2. ASSUME NEW j \in LogIds
      PROVE  recordRows'[j] + Cardinality(LoansOf(j))'
               = recordRows[j] + Cardinality(LoansOf(j)) + IF j = i THEN 1 ELSE 0
  <2>1. CASE recordRows' = [recordRows EXCEPT ![i] = @ + 1] /\ loans' = loans
    <3>1. recordRows'[j] = recordRows[j] + IF j = i THEN 1 ELSE 0
      BY <1>1, <2>1 DEF TypeInv, Stored
    <3>2. LoansOf(j)' = LoansOf(j)
      BY <2>1 DEF LoansOf
    <3>3. QED
      BY <1>1, <3>1, <3>2
  <2>2. CASE recordRows' = recordRows /\ loans' = Append(loans, [log |-> i, status |-> "active"])
    <3>1. Cardinality(LoansOf(j))' = Cardinality(LoansOf(j)) + IF j = i THEN 1 ELSE 0
      BY <2>2, LoanAppended
    <3>2. recordRows'[j] = recordRows[j]
      BY <2>2
    <3>3. QED
      BY <1>1, <3>1, <3>2
  <2>3. QED
    BY <2>1, <2>2
<1>3. \A j \in LogIds : Records'[j] = Records[j] + IF j = i THEN 1 ELSE 0
  BY <1>1, <1>2, TablesSeen DEF Records
<1>4. \A j \in LogIds : Records[j] \in Nat
  BY <1>1, TablesSeen DEF Records
<1>5. DOMAIN Records = LogIds /\ DOMAIN Records' = LogIds
  BY DEF Records
<1>6. Records' = [Records EXCEPT ![i] = @ + 1]
  <2>1. Records = [j \in LogIds |-> Records[j]] /\ Records' = [j \in LogIds |-> Records'[j]]
    BY DEF Records
  <2>2. QED
    BY <1>3, <1>4, <2>1
<1>7. RepaidLoans' = RepaidLoans
  BY LoanAppended DEF RepaidLoans
<1>8. QED
  BY <1>6, <1>7, TablesSeen

LEMMA RepaymentsStay ==
  ASSUME TypeInv, NEW i \in LogIds, Logs[i].kind # "Repaid",
         recordRows' = recordRows \/ recordRows' = [recordRows EXCEPT ![i] = @ + 1]
  PROVE  RepaymentRows' = RepaymentRows
<1>1. \A j \in LogIds : j # i => recordRows'[j] = recordRows[j]
  BY DEF TypeInv, Stored
<1>2. [j \in LogIds |-> IF Logs[j].kind = "Repaid" THEN recordRows'[j] ELSE 0]
        = [j \in LogIds |-> IF Logs[j].kind = "Repaid" THEN recordRows[j] ELSE 0]
  BY <1>1
<1>3. QED
  BY <1>2 DEF RepaymentRows

LEMMA HandlerRecords ==
  ASSUME TypeInv, RowsInv, NEW t \in Tasks, HandleEvent(t)
  PROVE  \/ UNCHANGED indexVars
         \/ Index!Record(Current(t))
         \/ Index!GiveUp(Current(t))
<1> DEFINE i == Current(t)
<1>1. /\ task[t].pc = "handle" /\ task[t].pc \in OnLog
      /\ UNCHANGED <<head, lastBlock, eventRows, faults, contractsSet>>
  BY DEF HandleEvent, OnLog, budget, process
<1>2. /\ i \in LogIds /\ Records[i] \in Nat /\ eventRows[i] \in Nat
      /\ Records[i] < eventRows[i]
  BY <1>1, CurrentIsLog, RowInHand
<1>3. \/ /\ UNCHANGED <<recordRows, loans, givenUp>>
      \/ /\ UNCHANGED <<recordRows, loans>> /\ givenUp' = givenUp \cup {i}
         /\ \/ Logs[i].kind = "Liquidated"
            \/ Logs[i].kind = "Deposited" /\ IsRecorded(Logs[i].tx, Logs[i].user)
      \/ /\ recordRows' = [recordRows EXCEPT ![i] = @ + 1] /\ UNCHANGED <<loans, givenUp>>
      \/ /\ UNCHANGED <<recordRows, givenUp>> /\ Logs[i].kind # "Repaid"
         /\ loans' = Append(loans, [log |-> i, status |-> "active"])
  BY DEF HandleEvent, HandleDeposit, HandleBorrow, HandleRepay, HandleLiquidation, AddRecord
<1> HIDE DEF i
<1>4. CASE UNCHANGED <<recordRows, loans, givenUp>>
  BY <1>1, <1>4, TablesKept DEF indexVars
<1>5. CASE /\ UNCHANGED <<recordRows, loans>> /\ givenUp' = givenUp \cup {i}
           /\ \/ Logs[i].kind = "Liquidated"
              \/ Logs[i].kind = "Deposited" /\ IsRecorded(Logs[i].tx, Logs[i].user)
  <2>1. \A j \in LogIds : recordRows[j] > 0 => Records[j] > 0
    BY CountedSets, TablesSeen DEF Records
  <2>2. Index!Refused(i)
    BY <1>5, <2>1 DEF Index!Refused, IsRecorded, LogIds
  <2>3. Index!GiveUp(i)
    BY <1>1, <1>2, <1>5, <2>2, TablesKept DEF Index!GiveUp
  <2>4. QED
    BY <2>3 DEF i
<1>6. CASE \/ /\ recordRows' = [recordRows EXCEPT ![i] = @ + 1] /\ UNCHANGED <<loans, givenUp>>
           \/ /\ UNCHANGED <<recordRows, givenUp>> /\ Logs[i].kind # "Repaid"
              /\ loans' = Append(loans, [log |-> i, status |-> "active"])
  <2>1. Records' = [Records EXCEPT ![i] = @ + 1] /\ ClosedLoans' = ClosedLoans
    BY <1>2, <1>6, RecordAdded
  <2>2. RepaymentRows' = IF Logs[i].kind = "Repaid" THEN RepaymentRows + 1 ELSE RepaymentRows
    BY <1>2, <1>6, RepaymentsAdd, RepaymentsStay
  <2>3. RepaymentRows \in Nat /\ ClosedLoans \in Nat
    BY <1>2, <1>6, RepaymentsAdd, CountedSets, TablesSeen
  <2>4. (RepaymentRows - ClosedLoans)'
          = IF Logs[i].kind = "Repaid" THEN (RepaymentRows - ClosedLoans) + 1
                                       ELSE RepaymentRows - ClosedLoans
    BY <2>1, <2>2, <2>3
  <2>5. Index!Record(i)
    BY <1>1, <1>2, <1>6, <2>1, <2>4 DEF Index!Record
  <2>6. QED
    BY <2>5 DEF i
<1>7. QED
  BY <1>3, <1>4, <1>5, <1>6

LEMMA ClosingUsesCredit ==
  ASSUME TypeInv, ClosedInv, NEW t \in Tasks, UpdateLoan(t)
  PROVE  UNCHANGED indexVars \/ Index!CloseLoan
<1> DEFINE l == task[t].loan
<1>1. /\ task[t].pc = "mark" /\ task[t].pc \in OnLog /\ t \in Closing
      /\ UNCHANGED <<head, lastBlock, eventRows, recordRows, givenUp, faults, contractsSet>>
  BY DEF UpdateLoan, budget, process, Closing, OnLog
<1>2. (\A i \in LogIds : LoansOf(i)' = LoansOf(i)) /\ RepaidLoans' = RepaidLoans \cup {l}
  BY LoanClosed
<1>3. Records' = Records
  BY <1>1, <1>2, TablesSeen DEF Records
<1>4. RepaymentRows' = RepaymentRows /\ RepaymentRows \in Nat
  BY <1>1, CurrentIsLog, RepaymentsAdd DEF RepaymentRows
<1>5. /\ IsFiniteSet(RepaidLoans) /\ Cardinality(RepaidLoans) \in Nat
      /\ IsFiniteSet(Closing) /\ Cardinality(Closing) \in Nat /\ Cardinality(Closing) # 0
  BY <1>1, CountedSets, FS_EmptySet
<1>6. Cardinality(RepaidLoans) + Cardinality(Closing) <= RepaymentRows
  BY DEF ClosedInv
<1> HIDE DEF l
<1>7. CASE l \in RepaidLoans
  <2>1. RepaidLoans' = RepaidLoans
    BY <1>2, <1>7
  <2>2. QED
    BY <1>1, <1>3, <1>4, <2>1, TablesSeen DEF indexVars
<1>8. CASE l \notin RepaidLoans
  <2>1. Cardinality(RepaidLoans') = Cardinality(RepaidLoans) + 1
    BY <1>2, <1>5, <1>8, SizeChanges
  <2>2. ClosedLoans' = ClosedLoans + 1 /\ ClosedLoans \in Nat /\ ClosedLoans < RepaymentRows
    BY <1>4, <1>5, <1>6, <2>1, TablesSeen
  <2>3. /\ RepaymentRows - ClosedLoans > 0
        /\ (RepaymentRows - ClosedLoans)' = (RepaymentRows - ClosedLoans) - 1
    BY <1>4, <2>2
  <2>4. QED
    BY <1>1, <1>3, <2>3 DEF Index!CloseLoan
<1>9. QED
  BY <1>7, <1>8

LEMMA StoringClaims ==
  ASSUME TypeInv, IndexInv, IndexInv', NEW t \in Tasks, UpdateState(t)
  PROVE  \E block \in 0..head : Index!Claim(block)
<1> DEFINE block == task[t].batchEnd
<1>1. /\ task[t].pc = "store" /\ lastBlock' = block
      /\ givenUp' = IF contractsSet THEN givenUp
                    ELSE givenUp \cup {i \in LogIds : Logs[i].block \in task[t].from..block}
      /\ UNCHANGED <<head, eventRows, recordRows, loans, faults, contractsSet>>
  BY DEF UpdateState, ReadyToStore, budget, process
<1>2. /\ block \in Nat /\ task[t].to \in Nat /\ head \in Nat /\ task[t].from \in Nat
      /\ block <= task[t].to /\ task[t].to <= head
  BY <1>1, HeadTyped DEF TypeInv, Formed, Typed, InBatch
<1> HIDE DEF block
<1>3. {i \in LogIds : Logs[i].block \in task[t].from..block} \subseteq Index!LogsUpTo(block)
  BY <1>2, LogFacts DEF Index!LogsUpTo, LogIds
<1>4. \/ givenUp' = givenUp
      \/ /\ ~contractsSet /\ givenUp \subseteq givenUp'
         /\ givenUp' \ givenUp \subseteq Index!LogsUpTo(block)
  BY <1>1, <1>3
<1>5. \A i \in Index!LogsUpTo(block) :
        Logs[i].block >= START_BLOCK => eventRows[i] > 0 \/ i \in givenUp'
  <2>1. Behind(block + 1, Done')
    BY <1>1 DEF IndexInv
  <2>2. \A i \in LogIds : Logs[i].block \in START_BLOCK..block => i \in Done'
    BY <1>2, <2>1, LogFacts, ListenerConstants DEF Behind
  <2>3. QED
    BY <1>1, <1>2, <2>2, LogFacts, ListenerConstants DEF Index!LogsUpTo, LogIds, Done
<1>6. Index!Claim(block)
  BY <1>1, <1>4, <1>5, TablesKept DEF Index!Claim
<1>7. QED
  BY <1>2, <1>6

LEMMA ErrorsAreSeen ==
  ASSUME TypeInv, NEW t \in Tasks, TaskFails(t) \/ LogFails(t) PROVE Index!Fail
<1>1. /\ faults' = faults + 1
      /\ UNCHANGED <<head, lastBlock, eventRows, recordRows, loans, contractsSet>>
  BY DEF TaskFails, LogFails, Fault, db, process
<1>2. \/ givenUp' = givenUp
      \/ task[t].pc \in OnLog /\ givenUp' = givenUp \cup {Current(t)}
  BY DEF TaskFails, LogFails, OnLog
<1>3. QED
  BY <1>1, <1>2, LoggedOnChain, TablesKept DEF Index!Fail

LEMMA SavingAddsEvent ==
  ASSUME TypeInv, NEW t \in Tasks, SaveEvent(t) PROVE Index!AddEvent(Current(t))
<1>1. /\ eventRows' = [eventRows EXCEPT ![Current(t)] = @ + 1]
      /\ UNCHANGED <<head, lastBlock, recordRows, loans, givenUp, faults, contractsSet>>
  BY DEF SaveEvent, budget, process
<1>2. QED
  BY <1>1, TablesKept DEF Index!AddEvent

LEMMA OthersAreUnseen ==
  ASSUME \/ UNCHANGED vars \/ \E t \in CronRuns : SyncCheck(t)
         \/ \E t \in Tasks : GetState(t) \/ GetCurrentBlock(t) \/ GetLogs(t) \/ FindActiveLoan(t)
  PROVE  UNCHANGED indexVars \/ Index!Fail
<1>1. /\ UNCHANGED <<head, lastBlock, eventRows, recordRows, loans, givenUp, contractsSet>>
      /\ faults' = faults \/ faults' = faults + 1
  BY Zenon
  DEF vars, SyncCheck, GetState, GetCurrentBlock, GetLogs, FindActiveLoan, db, budget, process,
      Fault
<1>2. Records' = Records /\ (RepaymentRows - ClosedLoans)' = RepaymentRows - ClosedLoans
  BY <1>1, TablesKept
<1>3. faults' = faults => UNCHANGED indexVars
  BY <1>1, <1>2 DEF indexVars
<1>4. faults' = faults + 1 => Index!Fail
  BY <1>1, <1>2 DEF Index!Fail
<1>5. QED
  BY ONLY <1>1, <1>3, <1>4

LEMMA RestartsAreSeen ==
  ASSUME TypeInv, Start \/ Crash PROVE Index!Restart
<1>1. /\ UNCHANGED <<head, lastBlock, eventRows, recordRows, loans, givenUp, faults>>
      /\ contractsSet' \in BOOLEAN
  BY DEF Start, Crash, db, budget
<1>2. QED
  BY <1>1, TablesKept DEF Index!Restart

LEMMA StepKeepsIndex ==
  ASSUME TypeInv, RowsInv, ClosedInv, IndexInv, [Next]_vars
  PROVE  [Index!INext]_indexVars
<1>1. ASSUME NEW t \in Tasks, TaskStep(t) PROVE [Index!INext]_indexVars
  <2>1. CASE SaveEvent(t)
    <3>1. Current(t) \in Index!LogsUpTo(head)
      BY <2>1, LoggedOnChain DEF SaveEvent, OnLog
    <3>2. QED
      BY <2>1, <3>1, SavingAddsEvent DEF Index!INext
  <2>2. CASE HandleEvent(t)
    <3>1. Current(t) \in Index!LogsUpTo(head)
      BY <2>2, LoggedOnChain DEF HandleEvent, OnLog
    <3>2. QED
      BY <2>2, <3>1, HandlerRecords DEF Index!INext
  <2>3. CASE UpdateLoan(t)
    BY <2>3, ClosingUsesCredit DEF Index!INext
  <2>4. CASE UpdateState(t)
    BY <2>4, IndexStepHolds, StoringClaims DEF Index!INext
  <2>5. CASE GetState(t) \/ GetCurrentBlock(t) \/ GetLogs(t) \/ FindActiveLoan(t)
    BY <2>5, OthersAreUnseen DEF Index!INext
  <2>6. QED
    BY <1>1, <2>1, <2>2, <2>3, <2>4, <2>5 DEF TaskStep
<1>2. ASSUME NEW t \in Tasks, TaskFails(t) \/ LogFails(t) PROVE [Index!INext]_indexVars
  BY <1>2, ErrorsAreSeen DEF Index!INext
<1>3. CASE Mine
  <2>1. /\ head' = head + 1
        /\ UNCHANGED <<lastBlock, eventRows, recordRows, loans, givenUp, faults, contractsSet>>
    BY <1>3 DEF Mine, db, budget, process
  <2>2. QED
    BY <2>1, TablesKept DEF Index!Grow, Index!INext
<1>4. CASE UNCHANGED vars \/ \E t \in CronRuns : SyncCheck(t)
  BY <1>4, OthersAreUnseen DEF Index!INext
<1>5. CASE Start \/ Crash
  BY <1>5, RestartsAreSeen DEF Index!INext
<1>6. QED
  BY <1>1, <1>2, <1>3, <1>4, <1>5 DEF Next

LEMMA IndexAtFirst == Init => Index!IInit
<1> SUFFICES ASSUME Init PROVE Index!IInit
  OBVIOUS
<1>1. /\ head = 0 /\ lastBlock = -1 /\ loans = << >> /\ givenUp = {} /\ faults = 0
      /\ eventRows = [i \in LogIds |-> 0] /\ recordRows = [i \in LogIds |-> 0]
      /\ contractsSet = FALSE
  BY DEF Init, NoState
<1>2. Cardinality({}) = 0
  BY FS_EmptySet
<1>3. (\A i \in LogIds : LoanRows(i) = 0) /\ ClosedLoans = 0
  BY <1>1, <1>2 DEF LoanRows, ClosedLoans
<1>4. Records = [i \in LogIds |-> 0]
  BY <1>1, <1>3 DEF Records
<1> DEFINE f == [i \in LogIds |-> IF Logs[i].kind = "Repaid" THEN recordRows[i] ELSE 0]
<1>5. f \in [LogIds -> Int] /\ IsFiniteSet(LogIds) /\ \A i \in LogIds : f[i] = 0
  BY <1>1, ListenerConstants DEF LogIds
<1> HIDE DEF f
<1>6. SumFunction(f) = 0
  BY <1>5, SumOfMapping
<1>7. RepaymentRows - ClosedLoans = 0
  BY <1>3, <1>6 DEF RepaymentRows, f
<1>8. QED
  BY <1>1, <1>4, <1>7 DEF Index!IInit, LogIds

(* The indexer implements EventIndex, for every chain, batch size, number  *)
(* of runs under way, failures and crashes: with the tables and the block  *)
(* number that it keeps, every step adds a row, records what has a row to  *)
(* spare, closes a loan on a repayment's credit, loses a log to an error   *)
(* or where its row is refused, stores a block with nothing missing below  *)
(* it or, in a process without contracts, logs lost to that, starts or     *)
(* ends a process, or is not seen at all (event-listener.service.ts,       *)
(* initializeContracts, processBatch and processEvent; loans.service.ts,   *)
(* handleRepay; state.service.ts).                                         *)
THEOREM IndexerKeepsIndex == Spec => KeepsIndex
<1>1. Spec => []IndexInv
  BY IndexInitHolds, IndexStepHolds, PTL DEF Spec
<1>2. QED
  BY <1>1, IndexAtFirst, StepKeepsIndex, TypeInvHolds, CountsHold, PTL
  DEF Spec, KeepsIndex, Index!ISpec, Index!ivars, indexVars
=============================================================================
