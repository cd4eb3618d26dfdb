-------------------------- MODULE MCRequestPipeline --------------------------
(* Small instances of RequestPipeline for TLC.                             *)
EXTENDS RequestPipeline, TLC

Address(name, spelling) == [name |-> name, spelling |-> spelling]
Alice == Address("alice", "mixed")
Bob == Address("bob", "mixed")
Garbled == Address("garbled", "malformed")

Row(table, owner, time) ==
  [table |-> table, user |-> ToLowerCase(owner), time |-> time]

(* Two accounts, a loan of each: one has been closed, and the repayment to *)
(* come will close the other; rows of the same time.                       *)
ClosedLoans == {Row("loans", Bob, 2)}
FirstRows == ClosedLoans \cup
  {Row("deposits", Alice, 1), Row("deposits", Alice, 3), Row("loans", Alice, 2),
   Row("withdrawals", Alice, 3), Row("liquidations", Bob, 3)}
NewRows == {Row("repayments", Alice, 4)}

Request(route, value, limit) == [route |-> route, value |-> value, limit |-> limit]

(* Requests that are made together: those of the history, of whose lists   *)
(* all but one are held; two that run at the same time.                    *)
HeldLists == {QueryFn(key, Alice) : key \in {"deposits", "withdrawals", "loans"}}
Pairs ==
  {HistoryQueries(Alice),
   {Request("eventsByTransaction", 3, NoLimit), QueryFn("activeLoans", Alice)}}

(* One request of every other route; what the API is asked for and refuses.*)
Singles ==
  {{r} : r \in {QueryFn(key, Alice) : key \in {"totalDeposited", "totalBorrowed"}} \cup
              {Request("totalWithdrawn", Alice, NoLimit), Request("repayments", Alice, 1),
               Request("withdrawals", Alice, NoLimit), Request("deposits", Bob, MaxLimit + 1),
               Request("loans", Alice, 0),
               Request("deposits", Garbled, NoLimit), Request("events", None, 1),
               Request("eventsByType", "deposits", 1), Request("eventsByType", "Transfer", NoLimit),
               Request("eventsByBlock", 2, NoLimit), Request("liquidations", Bob, NoLimit)}}

(* The hosts of the local and of the deployed configurations.              *)
Situation(requests, host, keysAgree, filterInContext) ==
  [scene |-> requests,
   setting |-> [host |-> host, port |-> "3003", keysAgree |-> keysAgree,
                filterInContext |-> filterInContext]]
SomeSituations ==
  {Situation(pair, "localhost", TRUE, TRUE) : pair \in Pairs} \cup
  {Situation(single, "public name", TRUE, FALSE) : single \in Singles} \cup
  {Situation(single, "localhost", FALSE, TRUE) : single \in Singles}
=============================================================================
