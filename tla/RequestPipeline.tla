---------------------------- MODULE RequestPipeline ----------------------------
(***************************************************************************)
(* A page's read requests on their way through the gateway to the indexer  *)
(* and back: both servers run the pipeline of apps/bootstrap.ts (logging   *)
(* interceptor, validation pipe, exception filter), the gateway asks the   *)
(* indexer through AxiosService, which repeats attempts that failed, and   *)
(* the indexer checks the gateway's key.  Requests run concurrently in     *)
(* both processes; each has its AsyncLocalStorage context.                 *)
(***************************************************************************)
EXTENDS ReadRoutes, Sequences

CONSTANTS
  Situations,             \* requests that may be made together, and the settings meanwhile
  Held,                   \* requests whose answers React Query still holds
  InitialRows, LaterRows, \* rows in the indexer's database, and rows to come
  InitialClosed,          \* the loans in it that are not active
  Retries                 \* 3 in AxiosService's constructor

ASSUME PipelineConstants ==
  /\ Retries \in Nat
  /\ \A s \in Situations :
       s.setting \in [host: STRING, port: STRING, keysAgree: BOOLEAN, filterInContext: BOOLEAN]
  /\ \A r \in Held \cup UNION {s.scene : s \in Situations} : r.route \in Routes /\ r.limit \in Int
  /\ \A r \in Held : AcceptedByGateway(r) /\ AcceptedByIndexer(Forwarded(r))
  /\ IsFiniteSet(InitialRows)
  /\ InitialClosed \subseteq {row \in InitialRows : row.table = "loans"}
  /\ \A row \in InitialRows \cup LaterRows : row.table \in Tables /\ row.time \in Nat

VARIABLES
  scene,      \* the requests of this behaviour, each made at most once
  setting,    \* host, port: kind of host name and port of INDEXER.URL; keysAgree: is the
              \* gateway's INDEXER.X_API_KEY the indexer's; filterInContext: does the exception
              \* filter still run in the request's context (the framework decides)
  up,         \* is the indexer running
  rows,
  closed,     \* the loans among the rows that are not active
  jobs,       \* <<request, 0>>: at the gateway; <<request, n>>: n-th attempt at the indexer
  context,    \* job -> its RequestContext: a trace, or NoTrace
  log,        \* the interceptor's lines, each with the trace of its context
  reports,    \* job -> traces of its reports to Sentry
  counted     \* job -> status labels under which http_requests_total counted it

told == <<log, reports, counted>>
vars == <<scene, setting, up, rows, closed, jobs, context, told>>

AtGateway(request) == <<request, 0>>
Jobs == scene \X (0..Retries + 1)
OnIndexer(job) == job[2] > 0
Attempts(request) == {n \in 1..Retries + 1 : jobs[<<request, n>>].stage # None}
Last(request) == <<request, Cardinality(Attempts(request))>>

NoTrace == <<>>

(* The answers an indexer with these rows may give to the gateway.         *)
AnswersTo(request, current, done) ==
  LET asked == Forwarded(request)
      query == PrivateController(asked.url, asked.path).query
  IN Found(query, asked.value, asked.limit, current, done)

(* known and settled are kept for the properties: the rows there were and  *)
(* the loans that had been closed when the request arrived.                *)
NoJob == [stage |-> None, carried |-> NoTrace, status |-> 0, found |-> {},
          known |-> {}, settled |-> {}]
AnsweredEarlier(request) ==
  [stage |-> "answered", carried |-> NoTrace, status |-> 200,
   found |-> CHOOSE found \in AnswersTo(request, InitialRows, InitialClosed) : TRUE,
   known |-> InitialRows, settled |-> InitialClosed]

Init ==
  /\ \E s \in Situations : scene = s.scene /\ setting = s.setting
  /\ up = TRUE
  /\ rows = InitialRows /\ closed = InitialClosed
  /\ jobs = [j \in Jobs |-> IF j[2] = 0 /\ j[1] \in Held THEN AnsweredEarlier(j[1]) ELSE NoJob]
  /\ context = [j \in Jobs |-> NoTrace]
  /\ log = {}
  /\ reports = [j \in Jobs |-> <<>>]
  /\ counted = [j \in Jobs |-> <<>>]

-----------------------------------------------------------------------------
(* The pipeline of a server.                                               *)
Running(job) == OnIndexer(job) => up

Line(job, msg, trace) == [job |-> job, msg |-> msg, trace |-> trace]

(* RequestContext.enter: the store of this request's asynchronous chain.   *)
SharedContextEntered(job, trace) == [j \in Jobs |-> trace]
ContextEntered(job, trace) == [context EXCEPT ![job] = trace]

(* SentryService.error tags a report with the trace of the context that    *)
(* the exception filter runs in.                                           *)
ReportTrace(job) == IF setting.filterInContext THEN context[job] ELSE NoTrace

(* HttpExceptionFilter.catch: server errors are reported.                  *)
ReportsAfter(job, status) ==
  IF status < 500 THEN reports ELSE [reports EXCEPT ![job] = Append(@, ReportTrace(job))]

Answered(job, status, found) ==
  /\ jobs' = [jobs EXCEPT ![job].stage = "answered", ![job].status = status,
                          ![job].found = found]
  /\ reports' = ReportsAfter(job, status)

(* HttpMetricsInterceptor: an error is counted before the filter has given *)
(* the response its status, so under the one it is created with, 200.      *)
RecordMetrics(job) == [counted EXCEPT ![job] = Append(@, 200)]

(* The end of intercept: HTTP OK or HTTP ERROR.                            *)
Answer(job, status, found) ==
  /\ Answered(job, status, found)
  /\ log' = log \cup {Line(job, IF status = 200 THEN "OK" ELSE "ERROR", context[job])}
  /\ counted' = RecordMetrics(job)
  /\ UNCHANGED context

(* ApiKeyGuard runs before the interceptors: no context and no log line.   *)
ApiKeyGuard(job) ==
  /\ Running(job) /\ jobs[job].stage = "arrived"
  /\ OnIndexer(job) /\ ~setting.keysAgree
  /\ Answered(job, 401, {})
  /\ UNCHANGED <<scene, setting, up, rows, closed, context, log, counted>>

(* The beginning of intercept: the trace of the header, or a fresh one     *)
(* (the job stands for it).                                                *)
Intercept(job) ==
  /\ Running(job) /\ jobs[job].stage = "arrived"
  /\ OnIndexer(job) => setting.keysAgree
  /\ LET trace == IF jobs[job].carried = NoTrace THEN job ELSE jobs[job].carried IN
       /\ context' = ContextEntered(job, trace)
       /\ log' = log \cup {Line(job, "REQUEST", trace)}
  /\ jobs' = [jobs EXCEPT ![job].stage = "entered"]
  /\ UNCHANGED <<scene, setting, up, rows, closed, reports, counted>>

Accepted(job) ==
  IF OnIndexer(job) THEN AcceptedByIndexer(Forwarded(job[1])) ELSE AcceptedByGateway(job[1])

(* ClassValidationPipe.transform, which awaits the validation.             *)
Transform(job) ==
  /\ Running(job) /\ jobs[job].stage = "entered"
  /\ IF Accepted(job)
     THEN jobs' = [jobs EXCEPT ![job].stage = "handling"] /\ UNCHANGED <<context, told>>
     ELSE Answer(job, 400, {})
  /\ UNCHANGED <<scene, setting, up, rows, closed>>

(* The indexer's handler: one query, or a database error (status 500).     *)
Query(job) ==
  /\ Running(job) /\ jobs[job].stage = "handling" /\ OnIndexer(job)
  /\ \/ \E found \in AnswersTo(job[1], rows, closed) : Answer(job, 200, found)
     \/ Answer(job, 500, {})
  /\ UNCHANGED <<scene, setting, up, rows, closed>>

-----------------------------------------------------------------------------
(* The gateway's side.                                                     *)
Arrive(request) ==
  /\ jobs[AtGateway(request)].stage = None
  /\ jobs' = [jobs EXCEPT ![AtGateway(request)] =
                [NoJob EXCEPT !.stage = "arrived", !.known = rows, !.settled = closed]]
  /\ UNCHANGED <<scene, setting, up, rows, closed, context, told>>

(* isInternalTarget, on kinds of host names: one of the list, localhost or *)
(* a loopback, a single label, a cluster's suffix, a private address, or a *)
(* public name.                                                            *)
INTERNAL_SERVICE_HOSTS == {"listed"}
DEFAULT_ALLOWED_HOSTS == {"localhost", "single label", "cluster", "private address"}
IsInternalTarget ==
  \/ setting.host \in INTERNAL_SERVICE_HOSTS \cup DEFAULT_ALLOWED_HOSTS
  \/ setting.port = "8080" /\ setting.host \in {"single label", "private address"}

(* The request interceptor of createInstance; a connection may be refused. *)
TraceHeader(request) == IF IsInternalTarget THEN context[AtGateway(request)] ELSE NoTrace

Attempt(request) ==
  /\ jobs[AtGateway(request)].stage = "handling"
  /\ jobs' = [jobs EXCEPT
                ![AtGateway(request)].stage = "waiting",
                ![<<request, Cardinality(Attempts(request)) + 1>>] =
                  [NoJob EXCEPT !.stage = IF up THEN "arrived" ELSE "lost",
                                !.carried = TraceHeader(request)]]
  /\ UNCHANGED <<scene, setting, up, rows, closed, context, told>>

(* setupRetry: a network error, a timeout and a server error are repeated. *)
NetworkErrors(attempt) == attempt.stage # "answered"
WithoutTimeout(attempt) ==
  attempt.stage = "lost" \/ (attempt.stage = "answered" /\ attempt.status >= 500)
RetryCondition(attempt) == attempt.stage # "answered" \/ attempt.status >= 500

(* handleError: the client errors it knows, 500 for everything else.       *)
HandleError(status) == IF status \in {400, 401, 403, 404, 406, 409, 422, 429} THEN status ELSE 500

Waiting(request) == jobs[AtGateway(request)].stage = "waiting"

Deliver(request) ==
  LET attempt == jobs[Last(request)] IN
  /\ Waiting(request) /\ attempt.stage = "answered" /\ ~RetryCondition(attempt)
  /\ Answer(AtGateway(request),
            IF attempt.status = 200 THEN 200 ELSE HandleError(attempt.status), attempt.found)
  /\ UNCHANGED <<scene, setting, up, rows, closed>>

(* An attempt that has not been answered may still be in progress: it has  *)
(* timed out, and the indexer goes on with it.                             *)
Retry(request) ==
  /\ Waiting(request) /\ RetryCondition(jobs[Last(request)])
  /\ Cardinality(Attempts(request)) <= Retries
  /\ jobs' = [jobs EXCEPT ![AtGateway(request)].stage = "handling"]
  /\ UNCHANGED <<scene, setting, up, rows, closed, context, told>>

GiveUp(request) ==
  /\ Waiting(request) /\ RetryCondition(jobs[Last(request)])
  /\ Cardinality(Attempts(request)) > Retries
  /\ Answer(AtGateway(request), HandleError(500), {})
  /\ UNCHANGED <<scene, setting, up, rows, closed>>

-----------------------------------------------------------------------------
(* The indexer: new rows come in any order (catching up fills in older     *)
(* blocks), and the process may stop and be started again.                 *)
Index ==
  /\ up
  /\ \E row \in LaterRows \ rows : rows' = rows \cup {row}
  /\ UNCHANGED <<scene, setting, up, closed, jobs, context, told>>

(* The second half of handleRepay, after an await of its own: an active    *)
(* loan of the account whose repayment has been stored is given another    *)
(* status.  Which of them it is, and how the lookup races another run, is  *)
(* EventListener's; here it may be any.  (handleLiquidation would do the   *)
(* same, but it fails at args.amount before it.)                           *)
UpdateLoan ==
  /\ up
  /\ \E loan \in rows \ closed, repayment \in rows :
       /\ loan.table = "loans" /\ repayment.table = "repayments"
       /\ loan.user = repayment.user
       /\ closed' = closed \cup {loan}
  /\ UNCHANGED <<scene, setting, up, rows, jobs, context, told>>

InProgress(job) == OnIndexer(job) /\ jobs[job].stage \in {"arrived", "entered", "handling"}

Crash ==
  /\ up
  /\ up' = FALSE
  /\ jobs' = [j \in Jobs |-> IF InProgress(j) THEN [jobs[j] EXCEPT !.stage = "lost"] ELSE jobs[j]]
  /\ UNCHANGED <<scene, setting, rows, closed, context, told>>

Restart ==
  /\ ~up
  /\ up' = TRUE
  /\ UNCHANGED <<scene, setting, rows, closed, jobs, context, told>>

GatewayStep(request) ==
  \/ Intercept(AtGateway(request)) \/ Transform(AtGateway(request))
  \/ Attempt(request) \/ Deliver(request) \/ Retry(request) \/ GiveUp(request)

IndexerStep(job) == ApiKeyGuard(job) \/ Intercept(job) \/ Transform(job) \/ Query(job)

Next ==
  \/ \E r \in scene : Arrive(r) \/ GatewayStep(r)
  \/ \E r \in scene, n \in 1..Retries + 1 : IndexerStep(<<r, n>>)
  \/ Index \/ UpdateLoan \/ Crash \/ Restart

(* The gateway keeps running, and axios times every attempt out (30 s), so *)
(* a waiting gateway job always has a step.  Nothing is asked of the       *)
(* indexer.                                                                *)
Spec == Init /\ [][Next]_vars /\ WF_vars(\E r \in scene : GatewayStep(r))

-----------------------------------------------------------------------------
(* What the page makes of the answers: a failed list is shown as empty     *)
(* (APIClient.fetch throws for an error status).                           *)
Received(request) ==
  LET job == jobs[AtGateway(request)] IN IF job.status = 200 THEN job.found ELSE {}

Loading(requests) == \E r \in requests : jobs[AtGateway(r)].stage # "answered"

HistoryKeys == {"deposits", "withdrawals", "loans", "repayments"}
HistoryQueries(address) == {QueryFn(key, address) : key \in HistoryKeys}

(* TransactionHistory: the lists put together, sorted, and cut.            *)
HistoryUnsorted(requests) ==
  {some \in SUBSET UNION {Received(r) : r \in requests} :
     Cardinality(some) = Min({ShownRows, Cardinality(UNION {Received(r) : r \in requests})})}
History(requests) == NewestOf(UNION {Received(r) : r \in requests}, ShownRows)

(* The transaction page: an answer without events, and one that failed.    *)
TransactionShown(request) ==
  IF Loading({request}) THEN "loading"
  ELSE IF Received(request) = {} THEN "not found" ELSE "confirmed"

-----------------------------------------------------------------------------
(* Properties.                                                             *)
Done(request, status) ==
  jobs[AtGateway(request)].stage = "answered" /\ jobs[AtGateway(request)].status = status

(* What a route is asked for, said without the tables of the layers.       *)
TablesOf(route) ==
  CASE route \in {"deposits", "totalDeposited"} -> {"deposits"}
    [] route \in {"withdrawals", "totalWithdrawn"} -> {"withdrawals"}
    [] route \in {"loans", "activeLoans", "totalBorrowed"} -> {"loans"}
    [] route \in {"repayments", "liquidations"} -> {route}
    [] OTHER -> Tables

Wanted(request, row) ==
  /\ row.table \in TablesOf(request.route)
  /\ CASE request.route \in {"eventsByBlock", "eventsByTransaction"} -> row.time = request.value
       [] request.route = "eventsByType" -> row.table = request.value
       [] request.route = "events" -> TRUE
       [] OTHER -> row.user = ToLowerCase(request.value)

(* Only active loans are wanted of activeLoans.                            *)
StillWanted(request, row, done) == request.route = "activeLoans" => row \notin done

(* Some of the rows, no more than n if there is a limit, leave out old     *)
(* ones alone: a row left out is known too late or older than n others.    *)
Latest(some, known, n) ==
  \A row \in known \ some :
    n # NoLimit /\ Cardinality(some) = n /\ \A other \in some : row.time <= other.time

LimitAsked(request) ==
  LET limit == Controller(request.route).limit
  IN IF limit = None THEN NoLimit
     ELSE IF limit = "default" \/ request.limit = NoLimit THEN DefaultLimit
     ELSE request.limit

(* An answer, whatever attempts, other requests and writes of the indexer  *)
(* it ran across, holds rows of what was asked for, no more than the       *)
(* limit, and misses none that was there when the request arrived but for  *)
(* newer ones: every layer names the next one's operation and parameter.   *)
(* Active loans are closed meanwhile: the answer has none that had been    *)
(* closed when the request arrived, and misses none that is active still.  *)
AnswersAreCurrent ==
  \A r \in scene : Done(r, 200) =>
    LET job == jobs[AtGateway(r)]
        n == LimitAsked(r)
        due == {row \in job.known : Wanted(r, row) /\ StillWanted(r, row, closed)}
    IN /\ \A row \in job.found :
            row \in rows /\ Wanted(r, row) /\ StillWanted(r, row, job.settled)
       /\ n # NoLimit => Cardinality(job.found) <= n
       /\ Latest(job.found, due, n)

(* TransactionHistory shows the account's latest rows of its four lists,   *)
(* once they have all been answered: each list's limit is taken before     *)
(* the lists are put together and cut.                                     *)
HistoryIsLatest ==
  \A q \in {q \in scene : q.route = "deposits"} :
    LET lists == HistoryQueries(q.value)
        known == UNION {{row \in jobs[AtGateway(r)].known : Wanted(r, row)} : r \in lists}
    IN (lists \subseteq scene /\ \A r \in lists : Done(r, 200)) =>
         \A shown \in History(lists) :
           /\ Cardinality(shown) <= ShownRows
           /\ \A row \in shown : row.user = ToLowerCase(q.value)
           /\ Latest(shown, known, ShownRows)

(* "Transaction not found", when no request failed, means that it had no   *)
(* event when it was asked for.                                            *)
TransactionFound ==
  \A r \in {q \in scene : q.route = "eventsByTransaction"} :
    (Done(r, 200) /\ TransactionShown(r) = "not found") =>
      \A row \in jobs[AtGateway(r)].known : row.time # r.value

PagesShowTheLatest == HistoryIsLatest /\ TransactionFound

(* A request that the gateway accepts is refused by the indexer for one    *)
(* route only, for which it always is: the liquidations' parameter is      *)
(* borrowerAddress in the path of the indexer's route, userAddress in the  *)
(* DTO of its handler (private-loans.controller.ts:101), so that route has *)
(* no answer but errors.  A 401 means that the keys differ, a server       *)
(* error comes after every attempt has been made, and Sentry hears of a    *)
(* server error once in each process that answers with it, of others not;  *)
(* the metrics count every request once that is answered in its context.   *)
ErrorsExplained ==
  /\ \A r \in scene :
       /\ Done(r, 400) /\ AcceptedByGateway(r) => r.route = "liquidations"
       /\ Done(r, 200) => r.route # "liquidations"
       /\ Done(r, 401) => ~setting.keysAgree
       /\ Done(r, 500) => Cardinality(Attempts(r)) = Retries + 1
  /\ \A j \in Jobs :
       /\ Len(reports[j]) = IF jobs[j].status >= 500 THEN 1 ELSE 0
       /\ Len(counted[j]) =
            IF jobs[j].stage = "answered" /\ context[j] # NoTrace THEN 1 ELSE 0

(* The trace a line or a report belongs to: the request's own, through     *)
(* both processes if the indexer's host counts as internal.                *)
TraceOf(job) == IF IsInternalTarget THEN AtGateway(job[1]) ELSE job

(* No line and no report carries another request's trace, however the      *)
(* requests interleave in a process and whatever is retried.               *)
TraceKept ==
  /\ \A line \in log : line.trace = TraceOf(line.job)
  /\ \A j \in Jobs : \A i \in 1..Len(reports[j]) : reports[j][i] \in {TraceOf(j), NoTrace}

(* Every request is answered, with the indexer up or down: each is made    *)
(* once, so it is enough that none is left in progress again and again.    *)
EveryRequestAnswered ==
  []<>(\A r \in scene : jobs[AtGateway(r)].stage \in {None, "answered"})
=============================================================================
