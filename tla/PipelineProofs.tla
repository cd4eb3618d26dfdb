---------------------------- MODULE PipelineProofs ----------------------------
(***************************************************************************)
(* Proofs about the request pipeline, whatever runs concurrently, is       *)
(* repeated, times out or crashes.  No line and no report carries another  *)
(* request's trace: TraceInv says of every job what its context holds at   *)
(* each stage, and what an attempt carries until it is read.  Answers are  *)
(* current, pages show the latest rows and errors have their reasons:      *)
(* FlowInv says that an answer is one the indexer may give with some of    *)
(* its rows, and the tables of the layers that its query is the one asked. *)
(*                                                                         *)
(* And proofs about what is logged of payloads, whatever they hold and     *)
(* however deeply: lines fit their presets, and redaction is exact.        *)
(***************************************************************************)
EXTENDS RequestPipeline, LogPayloads, Arithmetic, FiniteSetTheorems, TLAPS

(* A job has the six fields; what they hold does not matter.               *)
Shaped(job) == {"stage", "carried", "status", "found", "known", "settled"} \subseteq DOMAIN job

Carries(j) == IF OnIndexer(j) /\ IsInternalTarget THEN AtGateway(j[1]) ELSE NoTrace

InContext == {"entered", "handling", "waiting"}

Fits(j, job, trace) ==
  /\ Shaped(job)
  /\ trace \in {NoTrace, TraceOf(j)}
  /\ job.stage \in InContext => trace = TraceOf(j)
  /\ job.stage = "arrived" => job.carried = Carries(j)

Mapped == jobs = [j \in Jobs |-> jobs[j]] /\ context = [j \in Jobs |-> context[j]]
JobsFit == \A j \in Jobs : Fits(j, jobs[j], context[j])
LogFits == \A line \in log : line.trace = TraceOf(line.job)
ReportsFit == reports \in [Jobs -> UNION {Seq({TraceOf(j), NoTrace}) : j \in Jobs}]
              /\ \A j \in Jobs : reports[j] \in Seq({TraceOf(j), NoTrace})

TraceInv == Mapped /\ JobsFit /\ LogFits /\ ReportsFit

LEMMA InvIsEnough == TraceInv => TraceKept
<1> SUFFICES ASSUME TraceInv, NEW j \in DOMAIN reports, NEW i \in 1..Len(reports[j]), j \in Jobs
             PROVE  reports[j][i] \in {TraceOf(j), NoTrace}
  BY DEF TraceInv, LogFits, ReportsFit, TraceKept
<1>1. reports[j] \in Seq({TraceOf(j), NoTrace})
  BY DEF TraceInv, ReportsFit
<1>2. QED
  BY <1>1

LEMMA JobsAreNumbered ==
  \A j \in Jobs : j = <<j[1], j[2]>> /\ j[1] \in scene /\ j[2] \in Nat
  BY PipelineConstants DEF Jobs

LEMMA TracesDiffer == \A j \in Jobs : TraceOf(j) # NoTrace /\ AtGateway(j[1]) # NoTrace
  BY JobsAreNumbered DEF TraceOf, AtGateway, NoTrace

(* In the gateway's own jobs the trace is the job's.                       *)
LEMMA GatewayTrace ==
  \A r \in scene : /\ AtGateway(r) \in Jobs /\ ~OnIndexer(AtGateway(r))
                   /\ TraceOf(AtGateway(r)) = AtGateway(r) /\ AtGateway(r)[1] = r
                   /\ Carries(AtGateway(r)) = NoTrace
  BY PipelineConstants DEF Jobs, AtGateway, OnIndexer, TraceOf, Carries

-----------------------------------------------------------------------------
(* What a step may do: the settings stay, each job fits afterwards, and    *)
(* what is written down carries the trace of the context it is written in. *)
SettingsStay == UNCHANGED <<scene, setting>>

LEMMA SettingsKeepMeaning ==
  ASSUME SettingsStay
  PROVE  /\ Jobs' = Jobs /\ IsInternalTarget' = IsInternalTarget
         /\ \A j : TraceOf(j)' = TraceOf(j) /\ Carries(j)' = Carries(j)
         /\ \A j, job, trace : Fits(j, job, trace)' = Fits(j, job, trace)
  BY DEF SettingsStay, Jobs, IsInternalTarget, TraceOf, Carries, Fits, Shaped, AtGateway, OnIndexer

LEMMA NothingWritten ==
  ASSUME TraceInv, SettingsStay, UNCHANGED <<log, reports>>
  PROVE  LogFits' /\ ReportsFit'
<1>1. LogFits'
  BY SettingsKeepMeaning DEF TraceInv, LogFits
<1>2. ReportsFit'
  BY SettingsKeepMeaning DEF TraceInv, ReportsFit
<1>3. QED
  BY <1>1, <1>2

LEMMA ReportFits ==
  ASSUME TraceInv, SettingsStay, NEW job \in Jobs, NEW status, reports' = ReportsAfter(job, status)
  PROVE  ReportsFit'
<1>1. reports[job] \in Seq({TraceOf(job), NoTrace}) /\ ReportTrace(job) \in {TraceOf(job), NoTrace}
  BY DEF TraceInv, ReportsFit, JobsFit, Fits, ReportTrace
<1> DEFINE longer == Append(reports[job], ReportTrace(job))
<1>2. longer \in Seq({TraceOf(job), NoTrace})
  BY <1>1
<1>3. \A j \in Jobs : reports'[j] \in Seq({TraceOf(j), NoTrace})
  BY <1>2 DEF ReportsAfter, TraceInv, ReportsFit
<1>4. DOMAIN reports' = Jobs /\ reports' = [j \in Jobs |-> reports'[j]]
  BY ZenonT(60) DEF ReportsAfter, TraceInv, ReportsFit
<1>5. QED
  BY <1>3, <1>4, SettingsKeepMeaning, ZenonT(60) DEF ReportsFit

(* One job goes on to another stage; its context may have been entered.    *)
LEMMA OneJobMoves ==
  ASSUME TraceInv, SettingsStay, NEW job \in Jobs, NEW new, NEW trace,
         jobs' = [jobs EXCEPT ![job] = new], context' = [context EXCEPT ![job] = trace],
         Fits(job, new, trace)
  PROVE  Mapped' /\ JobsFit'
<1>1. Mapped'
  BY SettingsKeepMeaning DEF TraceInv, Mapped
<1>2. \A j \in Jobs : /\ jobs'[j] = IF j = job THEN new ELSE jobs[j]
                      /\ context'[j] = IF j = job THEN trace ELSE context[j]
  BY DEF TraceInv, Mapped
<1>3. \A j \in Jobs : Fits(j, jobs'[j], context'[j])
  BY <1>2 DEF TraceInv, JobsFit
<1>4. JobsFit'
  BY <1>3, SettingsKeepMeaning DEF JobsFit
<1>5. QED
  BY <1>1, <1>4

LEMMA SameContext ==
  ASSUME TraceInv, NEW job \in Jobs, UNCHANGED context
  PROVE  context' = [context EXCEPT ![job] = context[job]]
  BY DEF TraceInv, Mapped

LEMMA AnsweredFits ==
  ASSUME TraceInv, SettingsStay, UNCHANGED context,
         NEW job \in Jobs, NEW status, NEW found, Answered(job, status, found)
  PROVE  Mapped' /\ JobsFit' /\ ReportsFit'
<1> DEFINE new == [jobs[job] EXCEPT !.stage = "answered", !.status = status, !.found = found]
<1>1. Fits(job, jobs[job], context[job])
  BY DEF TraceInv, JobsFit
<1>2. Fits(job, new, context[job])
  <2>1. Shaped(new) /\ new.stage = "answered"
    BY <1>1 DEF Fits, Shaped
  <2> HIDE DEF new
  <2>2. QED
    BY <1>1, <2>1 DEF Fits, InContext
<1>3. jobs' = [jobs EXCEPT ![job] = new]
  BY <1>1 DEF Answered, TraceInv, Mapped
<1> HIDE DEF new
<1>4. Mapped' /\ JobsFit'
  BY <1>2, <1>3, OneJobMoves, SameContext
<1>5. ReportsFit'
  BY ReportFits DEF Answered
<1>6. QED
  BY <1>4, <1>5

(* The line at the end is written in the context the job is in.            *)
LEMMA AnswerFits ==
  ASSUME TraceInv, SettingsStay, NEW job \in Jobs, NEW status, NEW found,
         jobs[job].stage \in InContext, Answer(job, status, found)
  PROVE  TraceInv'
<1>1. context[job] = TraceOf(job)
  BY DEF TraceInv, JobsFit, Fits
<1>2. LogFits'
  BY <1>1, SettingsKeepMeaning DEF Answer, TraceInv, LogFits, Line
<1>3. QED
  BY <1>2, AnsweredFits DEF Answer, TraceInv

-----------------------------------------------------------------------------
LEMMA GuardStep ==
  ASSUME TraceInv, NEW job \in Jobs, ApiKeyGuard(job)
  PROVE  TraceInv'
<1>1. SettingsStay /\ UNCHANGED <<context, log>> /\ Answered(job, 401, {})
  BY DEF ApiKeyGuard, SettingsStay
<1>2. LogFits'
  BY <1>1, SettingsKeepMeaning DEF TraceInv, LogFits
<1>3. QED
  BY <1>1, <1>2, AnsweredFits DEF TraceInv

(* The trace of the header, or one's own: the job's in either case.        *)
LEMMA InterceptStep ==
  ASSUME TraceInv, NEW job \in Jobs, Intercept(job)
  PROVE  TraceInv'
<1> DEFINE trace == IF jobs[job].carried = NoTrace THEN job ELSE jobs[job].carried
           new == [jobs[job] EXCEPT !.stage = "entered"]
<1>1. SettingsStay /\ UNCHANGED reports
  BY DEF Intercept, SettingsStay
<1>2. Fits(job, jobs[job], context[job]) /\ jobs[job].stage = "arrived"
  BY DEF TraceInv, JobsFit, Intercept
<1>3. job = <<job[1], job[2]>> /\ job[2] \in Nat /\ AtGateway(job[1]) # NoTrace
  BY JobsAreNumbered, TracesDiffer
<1>4. trace = TraceOf(job)
  <2>1. CASE OnIndexer(job)
    BY <1>2, <1>3, <2>1 DEF Fits, Carries, TraceOf
  <2>2. CASE ~OnIndexer(job)
    BY <1>2, <1>3, <2>2 DEF Fits, Carries, TraceOf, OnIndexer, AtGateway
  <2>3. QED
    BY <2>1, <2>2
<1>5. Fits(job, new, trace)
  <2> HIDE DEF trace
  <2>1. QED
    BY <1>2, <1>4 DEF Fits, Shaped
<1>6. /\ jobs' = [jobs EXCEPT ![job] = new]
      /\ context' = [context EXCEPT ![job] = trace]
      /\ log' = log \cup {Line(job, "REQUEST", trace)}
  BY DEF Intercept, ContextEntered
<1> HIDE DEF new, trace
<1>7. Mapped' /\ JobsFit'
  BY <1>1, <1>5, <1>6, OneJobMoves
<1>8. LogFits'
  BY <1>1, <1>4, <1>6, SettingsKeepMeaning DEF TraceInv, LogFits, Line
<1>9. ReportsFit'
  BY <1>1, SettingsKeepMeaning DEF TraceInv, ReportsFit
<1>10. QED
  BY <1>7, <1>8, <1>9 DEF TraceInv

(* A job that goes on in its context, to another stage within it.          *)
LEMMA StageMoves ==
  ASSUME TraceInv, SettingsStay, UNCHANGED <<context, log, reports>>,
         NEW job \in Jobs, NEW stage \in InContext, jobs[job].stage \in InContext,
         jobs' = [jobs EXCEPT ![job].stage = stage]
  PROVE  TraceInv'
<1> DEFINE new == [jobs[job] EXCEPT !.stage = stage]
<1>1. Fits(job, jobs[job], context[job])
  BY DEF TraceInv, JobsFit
<1>2. stage # "arrived"
  BY DEF InContext
<1>3. Fits(job, new, context[job])
  BY <1>1, <1>2 DEF Fits, Shaped
<1>4. jobs' = [jobs EXCEPT ![job] = new]
  OBVIOUS
<1> HIDE DEF new
<1>5. Mapped' /\ JobsFit'
  BY <1>3, <1>4, OneJobMoves, SameContext
<1>6. QED
  BY <1>5, NothingWritten DEF TraceInv

LEMMA TransformStep ==
  ASSUME TraceInv, NEW job \in Jobs, Transform(job)
  PROVE  TraceInv'
<1>1. SettingsStay /\ jobs[job].stage \in InContext /\ "handling" \in InContext
  BY DEF Transform, SettingsStay, InContext
<1>2. CASE Accepted(job)
  BY <1>1, <1>2, StageMoves DEF Transform, told
<1>3. CASE ~Accepted(job)
  BY <1>1, <1>3, AnswerFits DEF Transform
<1>4. QED
  BY <1>2, <1>3

LEMMA QueryStep ==
  ASSUME TraceInv, NEW job \in Jobs, Query(job)
  PROVE  TraceInv'
<1>1. SettingsStay /\ jobs[job].stage \in InContext
  BY DEF Query, SettingsStay, InContext
<1>2. QED
  BY <1>1, AnswerFits DEF Query

-----------------------------------------------------------------------------
LEMMA ArriveStep ==
  ASSUME TraceInv, NEW r \in scene, Arrive(r)
  PROVE  TraceInv'
<1> DEFINE job == AtGateway(r)
           new == [NoJob EXCEPT !.stage = "arrived", !.known = rows, !.settled = closed]
<1>1. SettingsStay /\ UNCHANGED <<context, log, reports>> /\ jobs' = [jobs EXCEPT ![job] = new]
  BY DEF Arrive, SettingsStay, told
<1>2. job \in Jobs /\ Carries(job) = NoTrace
  BY GatewayTrace
<1>3. Fits(job, jobs[job], context[job])
  BY <1>2 DEF TraceInv, JobsFit
<1>4. Fits(job, new, context[job])
  <2>1. Shaped(new) /\ new.stage = "arrived" /\ new.carried = NoTrace
    BY DEF NoJob, Shaped
  <2> HIDE DEF new, job
  <2>2. QED
    BY <1>2, <1>3, <2>1 DEF Fits, InContext
<1> HIDE DEF new, job
<1>5. Mapped' /\ JobsFit'
  BY <1>1, <1>2, <1>4, OneJobMoves, SameContext
<1>6. QED
  BY <1>1, <1>5, NothingWritten DEF TraceInv

LEMMA AttemptsAreFinite ==
  \A r : Cardinality(Attempts(r)) \in Nat
<1>1. TAKE r
<1>2. IsFiniteSet(1..Retries + 1)
  BY FS_Interval, PipelineConstants
<1>3. Attempts(r) \subseteq 1..Retries + 1
  BY DEF Attempts
<1>4. QED
  BY <1>2, <1>3, FS_Subset, FS_CardinalityType

(* The attempt carries the trace of the gateway's context, when the target *)
(* counts as internal; the gateway's job waits on in its context.          *)
LEMMA AttemptStep ==
  ASSUME TraceInv, NEW r \in scene, Attempt(r)
  PROVE  TraceInv'
<1> DEFINE job == AtGateway(r)
           n == Cardinality(Attempts(r)) + 1
           attempt == <<r, n>>
           waiting == [jobs[job] EXCEPT !.stage = "waiting"]
           new == [NoJob EXCEPT !.stage = IF up THEN "arrived" ELSE "lost",
                                !.carried = TraceHeader(r)]
<1>1. SettingsStay /\ UNCHANGED <<context, log, reports>>
  BY DEF Attempt, SettingsStay, told
<1>2. job \in Jobs /\ TraceOf(job) = job
  BY GatewayTrace
<1>3. n \in Nat \ {0}
  BY AttemptsAreFinite
<1>4. Fits(job, jobs[job], context[job]) /\ jobs[job].stage = "handling"
  BY <1>2 DEF TraceInv, JobsFit, Attempt
<1>5. context[job] = job
  BY <1>2, <1>4 DEF Fits, InContext
<1>6. attempt # job /\ OnIndexer(attempt) /\ attempt[1] = r
  BY <1>3 DEF AtGateway, OnIndexer
<1>7. TraceHeader(r) = Carries(attempt)
  BY <1>5, <1>6 DEF TraceHeader, Carries
<1>8. Fits(job, waiting, context[job])
  BY <1>4 DEF Fits, Shaped, InContext
<1>9. \A trace \in {NoTrace, TraceOf(attempt)} : Fits(attempt, new, trace)
  <2>1. /\ Shaped(new) /\ new.stage \in {"arrived", "lost"}
        /\ new.carried = Carries(attempt)
    BY <1>7 DEF NoJob, Shaped
  <2> HIDE DEF new, attempt
  <2>2. QED
    BY <2>1 DEF Fits, InContext
<1>10. jobs' = [jobs EXCEPT ![job] = waiting, ![attempt] = new]
  BY DEF Attempt
<1> HIDE DEF new, waiting, attempt, job, n
<1>11. Mapped'
  BY <1>1, <1>10, SettingsKeepMeaning DEF TraceInv, Mapped
<1>12. \A j \in Jobs : jobs'[j] = IF j = attempt THEN new ELSE IF j = job THEN waiting ELSE jobs[j]
  BY <1>6, <1>10 DEF TraceInv, Mapped
<1>13. \A j \in Jobs : Fits(j, jobs'[j], context[j])
  <2>1. TAKE j \in Jobs
  <2>2. Fits(j, jobs[j], context[j])
    BY DEF TraceInv, JobsFit
  <2>3. CASE j = attempt
    BY <1>9, <1>12, <2>2, <2>3 DEF Fits
  <2>4. CASE j # attempt
    BY <1>8, <1>12, <2>2, <2>4
  <2>5. QED
    BY <2>3, <2>4
<1>14. JobsFit'
  BY <1>1, <1>13, SettingsKeepMeaning DEF JobsFit
<1>15. QED
  BY <1>1, <1>11, <1>14, NothingWritten DEF TraceInv

LEMMA GatewayStepHolds ==
  ASSUME TraceInv, NEW r \in scene, GatewayStep(r)
  PROVE  TraceInv'
<1>1. AtGateway(r) \in Jobs
  BY GatewayTrace
<1>2. ASSUME Deliver(r) PROVE TraceInv'
  <2>1. SettingsStay /\ jobs[AtGateway(r)].stage \in InContext
    BY <1>2 DEF Deliver, Waiting, SettingsStay, InContext
  <2>2. QED
    BY <1>1, <1>2, <2>1, AnswerFits DEF Deliver
<1>3. ASSUME GiveUp(r) PROVE TraceInv'
  <2>1. SettingsStay /\ jobs[AtGateway(r)].stage \in InContext
    BY <1>3 DEF GiveUp, Waiting, SettingsStay, InContext
  <2>2. QED
    BY <1>1, <1>3, <2>1, AnswerFits DEF GiveUp
<1>4. ASSUME Retry(r) PROVE TraceInv'
  <2>1. SettingsStay /\ jobs[AtGateway(r)].stage \in InContext /\ "handling" \in InContext
    BY <1>4 DEF Retry, Waiting, SettingsStay, InContext
  <2>2. QED
    BY <1>1, <1>4, <2>1, StageMoves DEF Retry, told
<1>5. QED
  BY <1>1, <1>2, <1>3, <1>4, AttemptStep, InterceptStep, TransformStep DEF GatewayStep

(* What is in progress when the indexer stops is lost, without a word.     *)
LEMMA CrashStep ==
  ASSUME TraceInv, Crash
  PROVE  TraceInv'
<1>1. SettingsStay /\ UNCHANGED <<context, log, reports>>
  BY DEF Crash, SettingsStay, told
<1>2. jobs' = [j \in Jobs |-> IF InProgress(j) THEN [jobs[j] EXCEPT !.stage = "lost"] ELSE jobs[j]]
  BY DEF Crash
<1>3. Mapped'
  BY <1>1, <1>2, SettingsKeepMeaning DEF TraceInv, Mapped
<1>4. \A j \in Jobs : Fits(j, jobs'[j], context[j])
  <2>1. TAKE j \in Jobs
  <2>2. Fits(j, jobs[j], context[j])
    BY DEF TraceInv, JobsFit
  <2>3. Fits(j, [jobs[j] EXCEPT !.stage = "lost"], context[j])
    BY <2>2 DEF Fits, Shaped, InContext
  <2>4. QED
    BY <1>2, <2>2, <2>3
<1>5. JobsFit'
  BY <1>1, <1>4, SettingsKeepMeaning DEF JobsFit
<1>6. QED
  BY <1>1, <1>3, <1>5, NothingWritten DEF TraceInv

LEMMA NoJobMoves ==
  ASSUME TraceInv, UNCHANGED <<scene, setting, jobs, context, log, reports>>
  PROVE  TraceInv'
<1>1. SettingsStay
  BY DEF SettingsStay
<1>2. Mapped' /\ JobsFit'
  BY <1>1, SettingsKeepMeaning DEF TraceInv, Mapped, JobsFit
<1>3. QED
  BY <1>1, <1>2, NothingWritten DEF TraceInv

LEMMA TraceStepHolds == TraceInv /\ [Next]_vars => TraceInv'
<1> SUFFICES ASSUME TraceInv, [Next]_vars PROVE TraceInv'
  OBVIOUS
<1>1. ASSUME NEW r \in scene, Arrive(r) \/ GatewayStep(r) PROVE TraceInv'
  BY <1>1, ArriveStep, GatewayStepHolds
<1>2. ASSUME NEW r \in scene, NEW n \in 1..Retries + 1, IndexerStep(<<r, n>>) PROVE TraceInv'
  <2>1. <<r, n>> \in Jobs
    BY PipelineConstants DEF Jobs
  <2>2. QED
    BY <1>2, <2>1, GuardStep, InterceptStep, TransformStep, QueryStep DEF IndexerStep
<1>3. ASSUME Index \/ UpdateLoan \/ Restart PROVE TraceInv'
  BY <1>3, NoJobMoves DEF Index, UpdateLoan, Restart, told
<1>4. CASE UNCHANGED vars
  BY <1>4, NoJobMoves DEF vars, told
<1>5. QED
  BY <1>1, <1>2, <1>3, <1>4, CrashStep DEF Next

LEMMA TraceInitHolds == Init => TraceInv
<1> SUFFICES ASSUME Init PROVE TraceInv
  OBVIOUS
<1>1. Mapped /\ LogFits
  BY DEF Init, Mapped, LogFits
<1>2. \A j \in Jobs : Fits(j, jobs[j], context[j])
  <2>1. TAKE j \in Jobs
  <2>2. context[j] = NoTrace
    BY DEF Init
  <2>3. jobs[j] = NoJob \/ jobs[j] = AnsweredEarlier(j[1])
    BY DEF Init
  <2>4. CASE jobs[j] = NoJob
    BY <2>2, <2>4 DEF Fits, Shaped, NoJob, InContext, None
  <2>5. CASE jobs[j] = AnsweredEarlier(j[1])
    BY <2>2, <2>5 DEF Fits, Shaped, AnsweredEarlier, InContext
  <2>6. QED
    BY <2>3, <2>4, <2>5
<1>3. \A j \in Jobs : reports[j] = <<>> /\ <<>> \in Seq({TraceOf(j), NoTrace})
  BY DEF Init
<1>4. ReportsFit
  BY <1>3 DEF Init, ReportsFit
<1>5. QED
  BY <1>1, <1>2, <1>4 DEF TraceInv, JobsFit

(* No line and no report carries another request's trace (RequestContext,  *)
(* LoggingInterceptor.intercept, AxiosService's request interceptor, the   *)
(* exception filter), for any number of requests and retries, whatever the *)
(* host of the indexer.                                                    *)
THEOREM TracesAreKept == Spec => []TraceKept
  BY InvIsEnough, TraceInitHolds, TraceStepHolds, PTL DEF Spec

-----------------------------------------------------------------------------
(* Answers.  The answer to a request is one that the indexer may give to   *)
(* it with some set of rows between those known when it arrived and those  *)
(* of now, some of the loans that are closed now but all that were closed  *)
(* then, whichever attempt it came from; an error has its reason; and the  *)
(* attempts of a request are numbered without gaps, so that each is made   *)
(* in a place of its own.                                                  *)
Takes(r) == AcceptedByIndexer(Forwarded(r))

(* before and now: the rows, and those of them that are closed.            *)
AnsweredFrom(r, found, before, now) ==
  /\ Takes(r)
  /\ \E some \in SUBSET now[1], done \in SUBSET now[2] :
       before[1] \subseteq some /\ before[2] \subseteq done /\ found \in AnswersTo(r, some, done)

Refused(j) == ~Takes(j[1]) \/ (~OnIndexer(j) /\ ~AcceptedByGateway(j[1]))

Explained(j, job, before, now) ==
  /\ OnIndexer(j) /\ job.stage = "handling" => Takes(j[1])
  /\ job.stage = "answered" =>
       \/ job.status = 200 /\ AnsweredFrom(j[1], job.found, before, now)
       \/ job.status = 400 /\ Refused(j)
       \/ job.status = 401 /\ ~setting.keysAgree
       \/ job.status = 500

(* What is written down about a job, at each of its stages.                *)
Written(job, trace, reported, labels) ==
  /\ job.stage # "answered" => job.status = 0
  /\ job.stage \in {None, "arrived"} => trace = NoTrace
  /\ Len(reported) = IF job.status >= 500 THEN 1 ELSE 0
  /\ Len(labels) = IF job.stage = "answered" /\ trace # NoTrace THEN 1 ELSE 0

Known(r) == jobs[AtGateway(r)].known
Settled(r) == jobs[AtGateway(r)].settled
Before(r) == <<Known(r), Settled(r)>>
Slots == 1..Retries + 1
Made(r, n) == jobs[<<r, n>>].stage # None
Exhausted(r) == \A n \in Slots : Made(r, n)

RequestFits(r) ==
  /\ Known(r) \subseteq rows /\ Settled(r) \subseteq closed
  /\ \E k \in 0..Retries + 1 : \A n \in Slots : Made(r, n) <=> n <= k
  /\ jobs[AtGateway(r)].stage = None => \A n \in Slots : ~Made(r, n)
  /\ jobs[AtGateway(r)].status = 500 => Exhausted(r)

Counting == counted = [j \in Jobs |-> counted[j]] /\ \A j \in Jobs : counted[j] \in Seq({200})
Stocked == rows \subseteq InitialRows \cup LaterRows /\ IsFiniteSet(rows)
SceneFits == \E s \in Situations : scene = s.scene

FlowInv ==
  /\ SceneFits /\ Stocked /\ Counting
  /\ \A j \in Jobs : /\ Explained(j, jobs[j], Before(j[1]), <<rows, closed>>)
                     /\ Written(jobs[j], context[j], reports[j], counted[j])
  /\ \A r \in scene : RequestFits(r)

LEMMA JobsOfRequest ==
  ASSUME NEW r \in scene
  PROVE  /\ AtGateway(r) \in Jobs /\ AtGateway(r)[1] = r /\ ~OnIndexer(AtGateway(r))
         /\ \A n \in Slots : <<r, n>> \in Jobs /\ OnIndexer(<<r, n>>) /\ <<r, n>> # AtGateway(r)
  BY PipelineConstants DEF Jobs, AtGateway, Slots, OnIndexer

LEMMA JobsAreRequests ==
  ASSUME NEW j \in Jobs
  PROVE  /\ j[1] \in scene
         /\ OnIndexer(j) => j[2] \in Slots /\ j = <<j[1], j[2]>>
         /\ ~OnIndexer(j) => j = AtGateway(j[1])
  BY PipelineConstants DEF Jobs, AtGateway, Slots, OnIndexer

LEMMA MoreRows ==
  ASSUME NEW j, NEW job, NEW before, NEW now, NEW later,
         now[1] \subseteq later[1], now[2] \subseteq later[2], Explained(j, job, before, now)
  PROVE  Explained(j, job, before, later)
<1>1. SUBSET now[1] \subseteq SUBSET later[1] /\ SUBSET now[2] \subseteq SUBSET later[2]
  OBVIOUS
<1>2. AnsweredFrom(j[1], job.found, before, now) => AnsweredFrom(j[1], job.found, before, later)
  BY <1>1 DEF AnsweredFrom
<1>3. QED
  BY <1>2 DEF Explained

(* A job goes on: it has been made and stays made, and a gateway's server  *)
(* error comes when all attempts have been made.                           *)
JobMoves(job, new, trace, reported, labels) ==
  /\ jobs' = [jobs EXCEPT ![job] = new] /\ context' = [context EXCEPT ![job] = trace]
  /\ reports' = [reports EXCEPT ![job] = reported] /\ counted' = [counted EXCEPT ![job] = labels]
  /\ jobs[job].stage # None /\ new.stage # None
  /\ new.known = jobs[job].known /\ new.settled = jobs[job].settled
  /\ Explained(job, new, Before(job[1]), <<rows, closed>>)
  /\ Written(new, trace, reported, labels) /\ labels \in Seq({200})
  /\ ~OnIndexer(job) /\ new.status = 500 => Exhausted(job[1])

LEMMA OneJobFlows ==
  ASSUME TraceInv, FlowInv, UNCHANGED <<scene, setting, rows, closed>>, NEW job \in Jobs,
         NEW new, NEW trace, NEW reported, NEW labels,
         JobMoves(job, new, trace, reported, labels)
  PROVE  FlowInv'
<1> USE DEF JobMoves
<1>1. Jobs' = Jobs
  BY DEF Jobs
<1>2. \A j \in Jobs : /\ jobs'[j] = IF j = job THEN new ELSE jobs[j]
                      /\ context'[j] = IF j = job THEN trace ELSE context[j]
                      /\ reports'[j] = IF j = job THEN reported ELSE reports[j]
                      /\ counted'[j] = IF j = job THEN labels ELSE counted[j]
  BY DEF TraceInv, Mapped, ReportsFit, FlowInv, Counting
<1>3. \A r \in scene : Known(r)' = Known(r) /\ Settled(r)' = Settled(r)
  BY <1>2, JobsOfRequest DEF Known, Settled
<1>4. ASSUME NEW r \in scene, NEW n \in Slots PROVE Made(r, n)' <=> Made(r, n)
  <2>1. <<r, n>> \in Jobs
    BY JobsOfRequest
  <2>2. jobs'[<<r, n>>].stage # None <=> jobs[<<r, n>>].stage # None
    BY <1>2, <2>1, ZenonT(60)
  <2>3. QED
    BY <2>2 DEF Made
<1>5. ASSUME NEW j \in Jobs
      PROVE  /\ Explained(j, jobs[j], Before(j[1]), <<rows, closed>>)'
             /\ Written(jobs[j], context[j], reports[j], counted[j])'
  <2>1. j[1] \in scene
    BY JobsAreRequests
  <2>2. Explained(j, jobs'[j], Before(j[1]), <<rows, closed>>)
    BY <1>2 DEF FlowInv
  <2>3. Written(jobs'[j], context'[j], reports'[j], counted'[j])
    BY <1>2 DEF FlowInv
  <2>4. QED
    BY <1>3, <2>1, <2>2, <2>3 DEF Explained, AnsweredFrom, Before, Written
<1>6. ASSUME NEW r \in scene PROVE RequestFits(r)'
  <2>1. RequestFits(r)
    BY DEF FlowInv
  <2>2. jobs'[AtGateway(r)].stage = None <=> jobs[AtGateway(r)].stage = None
    BY <1>2, JobsOfRequest
  <2>3. jobs'[AtGateway(r)].status = 500 => Exhausted(r)
    BY <1>2, <2>1, JobsOfRequest DEF RequestFits
  <2>4. PICK k \in 0..Retries + 1 : \A n \in Slots : Made(r, n) <=> n <= k
    BY <2>1 DEF RequestFits
  <2>5. \A n \in Slots : Made(r, n)' <=> n <= k
    BY <1>4, <2>4
  <2>6. (Known(r) \subseteq rows /\ Settled(r) \subseteq closed)'
    BY <1>3, <2>1 DEF RequestFits
  <2>7. (jobs[AtGateway(r)].stage = None => \A n \in Slots : ~Made(r, n))'
    BY <1>4, <2>1, <2>2 DEF RequestFits, Slots
  <2>8. (jobs[AtGateway(r)].status = 500 => Exhausted(r))'
    BY <1>4, <2>3 DEF Exhausted, Slots
  <2>9. (\E m \in 0..Retries + 1 : \A n \in Slots : Made(r, n) <=> n <= m)'
    BY <2>5 DEF Slots
  <2>10. QED
    BY <2>6, <2>7, <2>8, <2>9 DEF RequestFits
<1>7. Counting'
  <2>1. counted' = [j \in Jobs |-> counted'[j]]
    BY DEF FlowInv, Counting
  <2>2. \A j \in Jobs : counted'[j] \in Seq({200})
    BY <1>2 DEF FlowInv, Counting
  <2>3. QED
    BY <1>1, <2>1, <2>2 DEF Counting
<1>8. (SceneFits /\ Stocked)'
  BY DEF FlowInv, SceneFits, Stocked
<1>9. QED
  BY <1>1, <1>5, <1>6, <1>7, <1>8 DEF FlowInv

(* A job goes on to its handler, the first time or for another attempt.    *)
LEMMA HandlingFlows ==
  ASSUME TraceInv, FlowInv, UNCHANGED <<scene, setting, rows, closed, context, reports, counted>>,
         NEW job \in Jobs, jobs[job].stage \in InContext, OnIndexer(job) => Takes(job[1]),
         jobs' = [jobs EXCEPT ![job].stage = "handling"]
  PROVE  FlowInv'
<1> DEFINE new == [jobs[job] EXCEPT !.stage = "handling"]
<1>1. Shaped(jobs[job])
  BY DEF TraceInv, JobsFit, Fits
<1>2. /\ new.stage = "handling" /\ new.status = jobs[job].status
      /\ new.known = jobs[job].known /\ new.settled = jobs[job].settled
      /\ jobs' = [jobs EXCEPT ![job] = new]
  BY <1>1 DEF Shaped
<1> HIDE DEF new
<1>3. /\ Written(jobs[job], context[job], reports[job], counted[job])
      /\ counted[job] \in Seq({200})
  BY DEF FlowInv, Counting
<1>4. jobs[job].stage \notin {None, "answered"} /\ new.stage \notin {None, "answered", "arrived"}
  BY <1>2 DEF InContext, None
<1>5. /\ context' = [context EXCEPT ![job] = context[job]]
      /\ reports' = [reports EXCEPT ![job] = reports[job]]
      /\ counted' = [counted EXCEPT ![job] = counted[job]]
  BY DEF TraceInv, Mapped, ReportsFit, FlowInv, Counting
<1>6. Written(new, context[job], reports[job], counted[job])
  BY <1>2, <1>3, <1>4 DEF Written
<1>7. Explained(job, new, Before(job[1]), <<rows, closed>>) /\ new.status # 500
  BY <1>2, <1>3, <1>4 DEF Explained, Written
<1>8. /\ jobs[job].stage # None /\ new.stage # None /\ counted[job] \in Seq({200})
      /\ ~OnIndexer(job) /\ new.status = 500 => Exhausted(job[1])
  BY <1>2, <1>3, <1>4, <1>7
<1>9. JobMoves(job, new, context[job], reports[job], counted[job])
  BY <1>2, <1>5, <1>6, <1>7, <1>8 DEF JobMoves
<1>10. QED
  BY <1>9, OneJobFlows

(* An answer, as far as it does not depend on who gives it.                *)
LEMMA AnswerFlows ==
  ASSUME TraceInv, FlowInv, UNCHANGED <<scene, setting, rows, closed>>, NEW job \in Jobs,
         NEW status \in {200, 400, 401, 500}, NEW found,
         jobs[job].stage \notin {None, "answered"}, Answered(job, status, found),
         \/ context[job] # NoTrace /\ counted' = RecordMetrics(job)
         \/ context[job] = NoTrace /\ UNCHANGED counted,
         UNCHANGED context,
         status = 200 => AnsweredFrom(job[1], found, Before(job[1]), <<rows, closed>>),
         status = 400 => Refused(job), status = 401 => ~setting.keysAgree,
         ~OnIndexer(job) /\ status = 500 => Exhausted(job[1])
  PROVE  FlowInv'
<1> DEFINE new == [jobs[job] EXCEPT !.stage = "answered", !.status = status, !.found = found]
           reported == reports'[job]
           labels == counted'[job]
<1>1. Shaped(jobs[job]) /\ reports[job] \in Seq({TraceOf(job), NoTrace})
  BY DEF TraceInv, JobsFit, Fits, ReportsFit
<1>2. /\ new.stage = "answered" /\ new.status = status
      /\ new.known = jobs[job].known /\ new.settled = jobs[job].settled
      /\ new.found = found
  BY <1>1 DEF Shaped
<1>3. jobs' = [jobs EXCEPT ![job] = new]
  BY <1>1, ZenonT(60) DEF Answered, TraceInv, Mapped
<1> HIDE DEF new
<1>4. /\ Len(reports[job]) = 0 /\ Len(counted[job]) = 0 /\ counted[job] \in Seq({200})
  BY DEF FlowInv, Written, Counting
<1>5. reports' = [reports EXCEPT ![job] = reported] /\ Len(reported) = IF status >= 500 THEN 1 ELSE 0
  <2>1. reports' = ReportsAfter(job, status)
    BY DEF Answered
  <2>2. CASE status < 500
    BY <1>4, <2>1, <2>2 DEF ReportsAfter, TraceInv, ReportsFit
  <2>3. CASE ~(status < 500)
    <3> DEFINE longer == Append(reports[job], ReportTrace(job))
    <3>1. Len(longer) = 1
      BY <1>1, <1>4
    <3>2. reports' = [reports EXCEPT ![job] = longer] /\ DOMAIN reports = Jobs
      BY <2>1, <2>3 DEF ReportsAfter, TraceInv, ReportsFit
    <3> HIDE DEF longer
    <3>3. reports'[job] = longer
      BY <3>2
    <3>4. QED
      BY <2>3, <3>1, <3>2, <3>3
  <2>4. QED
    BY <2>2, <2>3
<1>6. /\ counted' = [counted EXCEPT ![job] = labels] /\ labels \in Seq({200})
      /\ Len(labels) = IF context[job] # NoTrace THEN 1 ELSE 0
  <2>1. CASE context[job] = NoTrace
    BY <1>4, <2>1 DEF FlowInv, Counting
  <2>2. CASE context[job] # NoTrace
    <3> DEFINE longer == Append(counted[job], 200)
    <3>1. Len(longer) = 1 /\ longer \in Seq({200})
      BY <1>4
    <3>2. counted' = [counted EXCEPT ![job] = longer]
      BY <2>2 DEF RecordMetrics
    <3> HIDE DEF longer
    <3>3. labels = longer
      BY <3>2 DEF FlowInv, Counting
    <3> HIDE DEF labels
    <3>4. QED
      BY <2>2, <3>1, <3>2, <3>3
  <2>3. QED
    BY <2>1, <2>2
<1> HIDE DEF reported, labels
<1>7. Written(new, context[job], reported, labels)
  BY <1>2, <1>5, <1>6 DEF Written, None
<1>8. Explained(job, new, Before(job[1]), <<rows, closed>>)
  BY <1>2 DEF Explained
<1>9. context' = [context EXCEPT ![job] = context[job]] /\ new.stage # None
  BY <1>2 DEF TraceInv, Mapped, None
<1>10. jobs[job].stage # None /\ (~OnIndexer(job) /\ new.status = 500 => Exhausted(job[1]))
  BY <1>2
<1>11. JobMoves(job, new, context[job], reported, labels)
  BY <1>2, <1>3, <1>5, <1>6, <1>7, <1>8, <1>9, <1>10 DEF JobMoves
<1>12. QED
  BY <1>11, OneJobFlows

(* An answer given in the context of its job.                              *)
LEMMA AnswerInContext ==
  ASSUME TraceInv, FlowInv, UNCHANGED <<scene, setting, rows, closed>>, NEW job \in Jobs,
         NEW status \in {200, 400, 401, 500}, NEW found,
         jobs[job].stage \in InContext, Answer(job, status, found),
         status = 200 => AnsweredFrom(job[1], found, Before(job[1]), <<rows, closed>>),
         status = 400 => Refused(job), status = 401 => ~setting.keysAgree,
         ~OnIndexer(job) /\ status = 500 => Exhausted(job[1])
  PROVE  FlowInv'
<1>1. context[job] # NoTrace
  BY TracesDiffer DEF TraceInv, JobsFit, Fits
<1>2. jobs[job].stage \notin {None, "answered"}
  BY DEF InContext, None
<1>3. Answered(job, status, found) /\ counted' = RecordMetrics(job) /\ UNCHANGED context
  BY DEF Answer
<1>4. QED
  BY <1>1, <1>2, <1>3, AnswerFlows

LEMMA GuardFlows ==
  ASSUME TraceInv, FlowInv, NEW job \in Jobs, ApiKeyGuard(job) PROVE FlowInv'
<1>1. /\ UNCHANGED <<scene, setting, rows, closed>> /\ UNCHANGED context /\ UNCHANGED counted
      /\ jobs[job].stage = "arrived" /\ OnIndexer(job) /\ ~setting.keysAgree
      /\ Answered(job, 401, {})
  BY DEF ApiKeyGuard
<1>2. context[job] = NoTrace /\ jobs[job].stage \notin {None, "answered"}
  BY <1>1 DEF FlowInv, Written, None
<1>3. /\ 401 \in {200, 400, 401, 500}
      /\ 401 = 200 => AnsweredFrom(job[1], {}, Before(job[1]), <<rows, closed>>)
      /\ 401 = 400 => Refused(job)
      /\ ~OnIndexer(job) /\ 401 = 500 => Exhausted(job[1])
  OBVIOUS
<1>4. QED
  BY <1>1, <1>2, <1>3, AnswerFlows

LEMMA InterceptFlows ==
  ASSUME TraceInv, FlowInv, NEW job \in Jobs, Intercept(job) PROVE FlowInv'
<1> DEFINE trace == context'[job]
           new == [jobs[job] EXCEPT !.stage = "entered"]
<1>1. /\ UNCHANGED <<scene, setting, rows, closed>> /\ UNCHANGED <<reports, counted>>
      /\ jobs[job].stage = "arrived" /\ jobs' = [jobs EXCEPT ![job] = new]
      /\ \E mark : context' = [context EXCEPT ![job] = mark]
  BY DEF Intercept, ContextEntered
<1>2. context' = [context EXCEPT ![job] = trace]
  BY <1>1 DEF TraceInv, Mapped
<1>3. Shaped(jobs[job])
  BY DEF TraceInv, JobsFit, Fits
<1>4. /\ new.stage = "entered" /\ new.status = jobs[job].status
      /\ new.known = jobs[job].known /\ new.settled = jobs[job].settled
  BY <1>3 DEF Shaped
<1> HIDE DEF new, trace
<1>5. /\ Written(jobs[job], context[job], reports[job], counted[job])
      /\ counted[job] \in Seq({200})
  BY DEF FlowInv, Counting
<1>6. jobs[job].status = 0 /\ Len(reports[job]) = 0 /\ Len(counted[job]) = 0
  BY <1>1, <1>5 DEF Written
<1>7. Written(new, trace, reports[job], counted[job]) /\ Explained(job, new, Before(job[1]), <<rows, closed>>)
  BY <1>4, <1>6 DEF Written, Explained, None
<1>8. /\ reports' = [reports EXCEPT ![job] = reports[job]]
      /\ counted' = [counted EXCEPT ![job] = counted[job]]
  BY <1>1 DEF TraceInv, ReportsFit, FlowInv, Counting
<1>9. /\ jobs[job].stage # None /\ new.stage # None
      /\ ~OnIndexer(job) /\ new.status = 500 => Exhausted(job[1])
  BY <1>1, <1>4, <1>6 DEF None
<1>10. JobMoves(job, new, trace, reports[job], counted[job])
  BY <1>1, <1>2, <1>4, <1>5, <1>7, <1>8, <1>9 DEF JobMoves
<1>11. QED
  BY <1>1, <1>10, OneJobFlows

LEMMA TransformFlows ==
  ASSUME TraceInv, FlowInv, NEW job \in Jobs, Transform(job) PROVE FlowInv'
<1>1. UNCHANGED <<scene, setting, rows, closed>> /\ jobs[job].stage \in InContext
  BY DEF Transform, InContext
<1>2. CASE Accepted(job)
  <2>1. /\ UNCHANGED <<scene, setting, rows, closed, context, reports, counted>>
        /\ jobs' = [jobs EXCEPT ![job].stage = "handling"]
    BY <1>1, <1>2 DEF Transform, told
  <2>2. OnIndexer(job) => Takes(job[1])
    BY <1>2 DEF Accepted, Takes
  <2>3. QED
    BY <1>1, <2>1, <2>2, HandlingFlows
<1>3. CASE ~Accepted(job)
  <2>1. Answer(job, 400, {}) /\ Refused(job)
    BY <1>3 DEF Transform, Accepted, Refused, Takes
  <2>2. /\ 400 \in {200, 400, 401, 500}
        /\ 400 = 200 => AnsweredFrom(job[1], {}, Before(job[1]), <<rows, closed>>)
        /\ 400 = 401 => ~setting.keysAgree
        /\ ~OnIndexer(job) /\ 400 = 500 => Exhausted(job[1])
    OBVIOUS
  <2>3. QED
    BY <1>1, <2>1, <2>2, AnswerInContext
<1>4. QED
  BY <1>2, <1>3

LEMMA QueryFlows ==
  ASSUME TraceInv, FlowInv, NEW job \in Jobs, Query(job) PROVE FlowInv'
<1>1. /\ UNCHANGED <<scene, setting, rows, closed>> /\ jobs[job].stage \in InContext /\ OnIndexer(job)
      /\ \/ \E found \in AnswersTo(job[1], rows, closed) : Answer(job, 200, found)
         \/ Answer(job, 500, {})
  BY DEF Query, InContext
<1>2. /\ Known(job[1]) \subseteq rows /\ rows \in SUBSET rows
      /\ Settled(job[1]) \subseteq closed /\ closed \in SUBSET closed
      /\ Takes(job[1])
  BY <1>1, JobsAreRequests DEF FlowInv, RequestFits, Explained, Query
<1>3. ASSUME NEW found \in AnswersTo(job[1], rows, closed), Answer(job, 200, found) PROVE FlowInv'
  <2>1. AnsweredFrom(job[1], found, Before(job[1]), <<rows, closed>>)
    BY <1>2, <1>3 DEF AnsweredFrom, Before
  <2>2. /\ 200 \in {200, 400, 401, 500}
        /\ 200 = 400 => Refused(job)
        /\ 200 = 401 => ~setting.keysAgree
        /\ ~OnIndexer(job) /\ 200 = 500 => Exhausted(job[1])
    OBVIOUS
  <2>3. QED
    BY <1>1, <1>3, <2>1, <2>2, AnswerInContext
<1>4. CASE Answer(job, 500, {})
  <2>1. /\ 500 \in {200, 400, 401, 500}
        /\ 500 = 200 => AnsweredFrom(job[1], {}, Before(job[1]), <<rows, closed>>)
        /\ 500 = 400 => Refused(job)
        /\ 500 = 401 => ~setting.keysAgree
        /\ ~OnIndexer(job) /\ 500 = 500 => Exhausted(job[1])
    BY <1>1
  <2>2. QED
    BY <1>1, <1>4, <2>1, AnswerInContext
<1>5. QED
  BY <1>1, <1>3, <1>4

-----------------------------------------------------------------------------
(* The attempts that were made are the first ones.                         *)
LEMMA AttemptsAreFirst ==
  ASSUME FlowInv, NEW r \in scene
  PROVE  /\ Cardinality(Attempts(r)) \in 0..Retries + 1
         /\ \A n \in Slots : Made(r, n) <=> n <= Cardinality(Attempts(r))
<1>1. PICK k \in 0..Retries + 1 : \A n \in Slots : Made(r, n) <=> n <= k
  BY DEF FlowInv, RequestFits
<1>2. k \in Nat /\ 1 \in Int /\ k \in Int /\ \A n \in 1..k : n \in Slots
  BY PipelineConstants DEF Slots
<1>3. Attempts(r) = 1..k
  <2>1. Attempts(r) = {n \in Slots : Made(r, n)}
    BY DEF Attempts, Slots, Made
  <2>2. \A n : n \in Slots /\ n <= k <=> n \in 1..k
    BY <1>2 DEF Slots
  <2>3. QED
    BY <1>1, <2>1, <2>2
<1>4. Cardinality(1..k) = IF 1 > k THEN 0 ELSE k - 1 + 1
  BY <1>2, FS_Interval
<1>5. Cardinality(Attempts(r)) = k
  BY <1>2, <1>3, <1>4
<1>6. QED
  BY <1>1, <1>5

LEMMA DeliverFlows ==
  ASSUME TraceInv, FlowInv, NEW r \in scene, Deliver(r) PROVE FlowInv'
<1> DEFINE job == AtGateway(r)
           k == Cardinality(Attempts(r))
           attempt == jobs[<<r, k>>]
           status == IF attempt.status = 200 THEN 200 ELSE HandleError(attempt.status)
<1>1. /\ UNCHANGED <<scene, setting, rows, closed>> /\ jobs[job].stage = "waiting"
      /\ attempt.stage = "answered" /\ ~(attempt.status >= 500)
      /\ Answer(job, status, attempt.found)
  BY DEF Deliver, Waiting, RetryCondition, Last
<1>2. job \in Jobs /\ job[1] = r /\ ~OnIndexer(job)
  BY JobsOfRequest
<1>3. k \in Slots
  <2>1. k \in 0..Retries + 1
    BY AttemptsAreFirst
  <2>2. k # 0
    BY <1>1 DEF AtGateway
  <2>3. QED
    BY <2>1, <2>2, PipelineConstants DEF Slots
<1> HIDE DEF k
<1>4. <<r, k>> \in Jobs /\ OnIndexer(<<r, k>>) /\ <<r, k>>[1] = r
  BY <1>3, JobsOfRequest
<1>5. Explained(<<r, k>>, attempt, Before(r), <<rows, closed>>)
  BY <1>4 DEF FlowInv
<1> HIDE DEF attempt
<1>6. \/ attempt.status = 200 /\ AnsweredFrom(r, attempt.found, Before(r), <<rows, closed>>)
      \/ attempt.status = 400 /\ ~Takes(r)
      \/ attempt.status = 401 /\ ~setting.keysAgree
  BY <1>1, <1>4, <1>5 DEF Explained, Refused
<1>7. /\ status \in {200, 400, 401, 500} /\ status # 500
      /\ status = 200 => AnsweredFrom(job[1], attempt.found, Before(job[1]), <<rows, closed>>)
      /\ status = 400 => Refused(job)
      /\ status = 401 => ~setting.keysAgree
  BY <1>2, <1>6 DEF HandleError, Refused
<1> HIDE DEF status, job
<1>8. jobs[job].stage \in InContext
  BY <1>1 DEF InContext
<1>9. QED
  BY <1>1, <1>2, <1>7, <1>8, AnswerInContext

LEMMA GiveUpFlows ==
  ASSUME TraceInv, FlowInv, NEW r \in scene, GiveUp(r) PROVE FlowInv'
<1> DEFINE job == AtGateway(r)
<1>1. /\ UNCHANGED <<scene, setting, rows, closed>> /\ jobs[job].stage \in InContext
      /\ Cardinality(Attempts(r)) > Retries /\ Answer(job, 500, {})
  BY DEF GiveUp, Waiting, InContext, HandleError
<1>2. job \in Jobs /\ job[1] = r
  BY JobsOfRequest
<1>3. Exhausted(r)
  BY <1>1, AttemptsAreFirst, PipelineConstants DEF Exhausted, Slots
<1> HIDE DEF job
<1>4. /\ 500 \in {200, 400, 401, 500}
      /\ 500 = 200 => AnsweredFrom(job[1], {}, Before(job[1]), <<rows, closed>>)
      /\ 500 = 400 => Refused(job)
      /\ 500 = 401 => ~setting.keysAgree
      /\ ~OnIndexer(job) /\ 500 = 500 => Exhausted(job[1])
  BY <1>2, <1>3
<1>5. QED
  BY <1>1, <1>2, <1>4, AnswerInContext

LEMMA RetryFlows ==
  ASSUME TraceInv, FlowInv, NEW r \in scene, Retry(r) PROVE FlowInv'
<1>1. /\ UNCHANGED <<scene, setting, rows, closed, context, reports, counted>>
      /\ AtGateway(r) \in Jobs /\ jobs[AtGateway(r)].stage \in InContext
      /\ jobs' = [jobs EXCEPT ![AtGateway(r)].stage = "handling"]
  BY JobsOfRequest DEF Retry, Waiting, InContext, told
<1>2. ~OnIndexer(AtGateway(r))
  BY JobsOfRequest
<1>3. QED
  BY <1>1, <1>2, HandlingFlows

(* The request arrives; it has made no attempt yet.                        *)
LEMMA ArriveFlows ==
  ASSUME TraceInv, FlowInv, NEW r \in scene, Arrive(r) PROVE FlowInv'
<1> DEFINE job == AtGateway(r)
           new == [NoJob EXCEPT !.stage = "arrived", !.known = rows, !.settled = closed]
<1>1. /\ UNCHANGED <<scene, setting, rows, closed, context, reports, counted>>
      /\ jobs[job].stage = None /\ jobs' = [jobs EXCEPT ![job] = new]
  BY DEF Arrive, told
<1>2. new.stage = "arrived" /\ new.status = 0 /\ new.known = rows /\ new.settled = closed
  BY DEF NoJob
<1>3. job \in Jobs /\ job[1] = r /\ ~OnIndexer(job)
  BY JobsOfRequest
<1> HIDE DEF new, job
<1>4. Jobs' = Jobs /\ \A j \in Jobs : jobs'[j] = IF j = job THEN new ELSE jobs[j]
  BY <1>1 DEF Jobs, TraceInv, Mapped
<1>5. \A n \in Slots : ~Made(r, n)
  BY <1>1 DEF FlowInv, RequestFits, job
<1>6. ASSUME NEW q \in scene, NEW n \in Slots PROVE Made(q, n)' <=> Made(q, n)
  <2>1. <<q, n>> \in Jobs /\ <<q, n>> # job
    BY <1>3, JobsOfRequest
  <2>2. QED
    BY <1>4, <2>1 DEF Made
<1>7. \A q \in scene : /\ Known(q)' = IF q = r THEN rows ELSE Known(q)
                       /\ Settled(q)' = IF q = r THEN closed ELSE Settled(q)
  BY <1>2, <1>4, JobsOfRequest DEF Known, Settled, job
<1>8. ASSUME NEW j \in Jobs
      PROVE  /\ Explained(j, jobs[j], Before(j[1]), <<rows, closed>>)'
             /\ Written(jobs[j], context[j], reports[j], counted[j])'
  <2>1. j[1] \in scene
    BY JobsAreRequests
  <2>2. Explained(j, jobs[j], Before(j[1]), <<rows, closed>>) /\ Written(jobs[j], context[j], reports[j], counted[j])
    BY DEF FlowInv
  <2>3. CASE j = job
    <3>1. /\ context[j] = NoTrace /\ Len(reports[j]) = 0 /\ Len(counted[j]) = 0
      BY <1>1, <2>2, <2>3 DEF Written, None
    <3>2. jobs'[j] = new
      BY <1>4, <2>3
    <3>3. Written(jobs'[j], context[j], reports[j], counted[j]) /\ jobs'[j].stage \notin {"handling", "answered"}
      BY <1>2, <3>1, <3>2 DEF Written, None
    <3>4. QED
      BY <1>1, <3>3 DEF Written, Explained
  <2>4. CASE j # job /\ j[1] = r
    <3>1. OnIndexer(j) /\ j[2] \in Slots /\ j = <<r, j[2]>>
      BY <2>4, JobsAreRequests DEF job
    <3>2. jobs[j].stage = None /\ jobs'[j] = jobs[j]
      BY <1>4, <1>5, <2>4, <3>1 DEF Made
    <3>3. jobs'[j].stage \notin {"handling", "answered"}
      BY <3>2 DEF None
    <3>4. QED
      BY <1>1, <2>2, <3>2, <3>3 DEF Written, Explained
  <2>5. CASE j # job /\ j[1] # r
    <3>1. jobs'[j] = jobs[j] /\ Before(j[1])' = Before(j[1])
      BY <1>4, <1>7, <2>1, <2>5 DEF Before
    <3>2. QED
      BY <1>1, <2>2, <3>1 DEF Written, Explained, AnsweredFrom
  <2>6. QED
    BY <2>3, <2>4, <2>5
<1>9. ASSUME NEW q \in scene PROVE RequestFits(q)'
  <2>1. RequestFits(q)
    BY DEF FlowInv
  <2>2. PICK k \in 0..Retries + 1 : \A n \in Slots : Made(q, n) <=> n <= k
    BY <2>1 DEF RequestFits
  <2>3. (\E m \in 0..Retries + 1 : \A n \in Slots : Made(q, n) <=> n <= m)'
    BY <1>6, <2>2 DEF Slots
  <2>4. (Known(q) \subseteq rows /\ Settled(q) \subseteq closed)'
    BY <1>1, <1>7, <2>1 DEF RequestFits
  <2>5. jobs'[AtGateway(q)] = IF q = r THEN new ELSE jobs[AtGateway(q)]
    BY <1>4, JobsOfRequest DEF job
  <2>6. (jobs[AtGateway(q)].stage = None => \A n \in Slots : ~Made(q, n))'
    BY <1>2, <1>6, <2>1, <2>5 DEF RequestFits, Slots, None
  <2>7. (jobs[AtGateway(q)].status = 500 => Exhausted(q))'
    BY <1>2, <1>6, <2>1, <2>5 DEF RequestFits, Slots, Exhausted
  <2>8. QED
    BY <2>3, <2>4, <2>6, <2>7 DEF RequestFits
<1>10. (SceneFits /\ Stocked /\ Counting)'
  BY <1>1, <1>4 DEF FlowInv, SceneFits, Stocked, Counting
<1>11. QED
  BY <1>1, <1>4, <1>8, <1>9, <1>10 DEF FlowInv

(* An attempt takes the next place, which is empty; beyond the last there  *)
(* is none to take, nor is there reason to.                                *)
LEMMA AttemptFlows ==
  ASSUME TraceInv, FlowInv, NEW r \in scene, Attempt(r) PROVE FlowInv'
<1> DEFINE job == AtGateway(r)
           k == Cardinality(Attempts(r))
           attempt == <<r, k + 1>>
           waiting == [jobs[job] EXCEPT !.stage = "waiting"]
           new == [NoJob EXCEPT !.stage = IF up THEN "arrived" ELSE "lost",
                                !.carried = TraceHeader(r)]
<1>1. /\ UNCHANGED <<scene, setting, rows, closed, context, reports, counted>>
      /\ jobs[job].stage = "handling" /\ jobs' = [jobs EXCEPT ![job] = waiting, ![attempt] = new]
  BY DEF Attempt, told
<1>2. new.stage \in {"arrived", "lost"} /\ new.status = 0
  BY DEF NoJob
<1>3. job \in Jobs /\ job[1] = r /\ ~OnIndexer(job)
  BY JobsOfRequest
<1>4. /\ waiting.stage = "waiting" /\ waiting.status = jobs[job].status
      /\ waiting.known = jobs[job].known /\ waiting.settled = jobs[job].settled
  BY <1>3 DEF TraceInv, JobsFit, Fits, Shaped
<1>5. /\ k \in 0..Retries + 1
      /\ \A n \in Slots : Made(r, n) <=> n <= k
  BY AttemptsAreFirst
<1> HIDE DEF k
<1>6. attempt # job /\ OnIndexer(attempt) /\ attempt[1] = r
  BY <1>5, PipelineConstants DEF AtGateway, OnIndexer
<1>7. attempt \in Jobs => jobs[attempt].stage = None
  <2>1. attempt \in Jobs => k + 1 \in Slots
    BY <1>5, PipelineConstants DEF Jobs, Slots
  <2>2. k + 1 \in Slots => ~Made(r, k + 1)
    BY <1>5
  <2>3. QED
    BY <2>1, <2>2 DEF Made
<1> HIDE DEF new, waiting
<1>8. /\ Jobs' = Jobs
      /\ \A j \in Jobs : jobs'[j] = IF j = attempt THEN new ELSE IF j = job THEN waiting ELSE jobs[j]
  BY <1>1, <1>6 DEF Jobs, TraceInv, Mapped
<1>9. \A q \in scene : Known(q)' = Known(q) /\ Settled(q)' = Settled(q)
  <2>1. \A q \in scene : AtGateway(q) # attempt
    BY <1>6, JobsOfRequest
  <2>2. QED
    BY <1>4, <1>8, <2>1, JobsOfRequest DEF Known, Settled
<1>10. ASSUME NEW q \in scene, NEW n \in Slots
       PROVE  Made(q, n)' <=> (Made(q, n) \/ <<q, n>> = attempt)
  <2>1. <<q, n>> \in Jobs /\ <<q, n>> # job
    BY <1>3, JobsOfRequest
  <2>2. QED
    BY <1>2, <1>8, <2>1 DEF Made, None
<1>11. ASSUME NEW j \in Jobs
       PROVE  /\ Explained(j, jobs[j], Before(j[1]), <<rows, closed>>)'
              /\ Written(jobs[j], context[j], reports[j], counted[j])'
  <2>1. j[1] \in scene
    BY JobsAreRequests
  <2>2. Explained(j, jobs[j], Before(j[1]), <<rows, closed>>) /\ Written(jobs[j], context[j], reports[j], counted[j])
    BY DEF FlowInv
  <2>3. CASE j = attempt
    <3>1. jobs'[j] = new
      BY <1>8, <2>3
    <3>2. context[j] = NoTrace /\ Len(reports[j]) = 0 /\ Len(counted[j]) = 0
      BY <1>7, <2>2, <2>3 DEF Written, None
    <3>3. Written(jobs'[j], context[j], reports[j], counted[j]) /\ jobs'[j].stage \notin {"handling", "answered"}
      BY <1>2, <3>1, <3>2 DEF Written, None
    <3>4. QED
      BY <1>1, <3>3 DEF Written, Explained
  <2>4. CASE j = job
    <3>1. jobs'[j] = waiting
      BY <1>6, <1>8, <2>4
    <3>2. jobs[j].status = 0 /\ Len(reports[j]) = 0 /\ Len(counted[j]) = 0
      BY <1>1, <2>2, <2>4 DEF Written
    <3>3. Written(jobs'[j], context[j], reports[j], counted[j]) /\ jobs'[j].stage \notin {"handling", "answered"}
      BY <1>4, <2>4, <3>1, <3>2 DEF Written, None
    <3>4. QED
      BY <1>1, <3>3 DEF Written, Explained
  <2>5. CASE j # attempt /\ j # job
    <3>1. jobs'[j] = jobs[j] /\ Before(j[1])' = Before(j[1])
      BY <1>8, <1>9, <2>1, <2>5 DEF Before
    <3>2. Explained(j, jobs'[j], Before(j[1])', <<rows, closed>>')
      BY <1>1, <2>2, <3>1
    <3>3. Written(jobs[j], context[j], reports[j], counted[j])'
      BY <1>1, <2>2, <3>1 DEF Written
    <3>4. QED
      BY <1>1, <3>2, <3>3 DEF Explained, AnsweredFrom
  <2>6. QED
    BY <2>3, <2>4, <2>5
<1>12. ASSUME NEW q \in scene PROVE RequestFits(q)'
  <2>1. RequestFits(q)
    BY DEF FlowInv
  <2>2. (\E m \in 0..Retries + 1 : \A n \in Slots : Made(q, n) <=> n <= m)'
    <3>1. CASE q = r
      <4> DEFINE m == IF k <= Retries THEN k + 1 ELSE k
      <4>1. m \in 0..Retries + 1
        BY <1>5, PipelineConstants
      <4>2. ASSUME NEW n \in Slots PROVE Made(q, n)' <=> n <= m
        <5>1. Made(q, n)' <=> n <= k \/ n = k + 1
          BY <1>5, <1>10, <3>1
        <5>2. n \in Nat /\ n <= Retries + 1 /\ k \in Nat /\ k <= Retries + 1 /\ Retries \in Nat
          BY <1>5, PipelineConstants DEF Slots
        <5>3. n <= k \/ n = k + 1 <=> n <= m
          BY <5>2
        <5>4. QED
          BY <5>1, <5>3
      <4> HIDE DEF m
      <4>3. QED
        BY <4>1, <4>2 DEF Slots
    <3>2. CASE q # r
      <4>1. PICK m \in 0..Retries + 1 : \A n \in Slots : Made(q, n) <=> n <= m
        BY <2>1 DEF RequestFits
      <4>2. \A n \in Slots : Made(q, n)' <=> n <= m
        BY <1>10, <3>2, <4>1
      <4>3. QED
        BY <4>2 DEF Slots
    <3>3. QED
      BY <3>1, <3>2
  <2>3. (Known(q) \subseteq rows /\ Settled(q) \subseteq closed)'
    BY <1>1, <1>9, <2>1 DEF RequestFits
  <2>4. jobs'[AtGateway(q)] = IF q = r THEN waiting ELSE jobs[AtGateway(q)]
    <3>1. AtGateway(q) \in Jobs /\ AtGateway(q) # attempt /\ (AtGateway(q) = job <=> q = r)
      BY <1>3, <1>6, JobsOfRequest
    <3>2. QED
      BY <1>8, <3>1
  <2>5. (jobs[AtGateway(q)].stage = None => \A n \in Slots : ~Made(q, n))'
    <3>1. q # r => \A n \in Slots : Made(q, n)' <=> Made(q, n)
      BY <1>10
    <3>2. QED
      BY <1>4, <2>1, <2>4, <3>1 DEF RequestFits, Slots, None
  <2>6. (jobs[AtGateway(q)].status = 500 => Exhausted(q))'
    <3>1. jobs'[AtGateway(q)].status = jobs[AtGateway(q)].status
      BY <1>4, <2>4
    <3>2. QED
      BY <1>10, <2>1, <3>1 DEF RequestFits, Slots, Exhausted
  <2>7. QED
    BY <2>2, <2>3, <2>5, <2>6 DEF RequestFits
<1>13. (SceneFits /\ Stocked /\ Counting)'
  BY <1>1, <1>8 DEF FlowInv, SceneFits, Stocked, Counting
<1>14. QED
  BY <1>1, <1>8, <1>11, <1>12, <1>13 DEF FlowInv

(* The indexer: rows are only added, loans only closed, and what a crash   *)
(* cuts off had not been answered.                                         *)
LEMMA IndexerFlows ==
  ASSUME TraceInv, FlowInv, Index \/ UpdateLoan \/ Crash \/ Restart \/ UNCHANGED vars PROVE FlowInv'
<1> DEFINE lost(j) == [jobs[j] EXCEPT !.stage = "lost"]
<1>1. /\ UNCHANGED <<scene, setting, context, reports, counted>> /\ Jobs' = Jobs
      /\ rows \subseteq rows' /\ closed \subseteq closed'
  BY DEF Index, UpdateLoan, Crash, Restart, vars, told, Jobs
<1>2. \A j \in Jobs : jobs'[j] = jobs[j] \/ (InProgress(j) /\ jobs'[j] = lost(j))
  BY DEF Index, UpdateLoan, Crash, Restart, vars
<1>3. \A j \in Jobs : Shaped(jobs[j])
  BY DEF TraceInv, JobsFit, Fits
<1>4. \A j \in Jobs : /\ lost(j).stage = "lost" /\ lost(j).status = jobs[j].status
                      /\ lost(j).known = jobs[j].known
                      /\ lost(j).settled = jobs[j].settled
  BY <1>3 DEF Shaped
<1> HIDE DEF lost
<1>5. \A r \in scene : jobs'[AtGateway(r)] = jobs[AtGateway(r)]
  BY <1>2, JobsOfRequest DEF InProgress
<1>6. \A r \in scene : Known(r)' = Known(r) /\ Settled(r)' = Settled(r)
  BY <1>5 DEF Known, Settled
<1>7. ASSUME NEW r \in scene, NEW n \in Slots PROVE Made(r, n)' <=> Made(r, n)
  <2>1. <<r, n>> \in Jobs
    BY JobsOfRequest
  <2>2. QED
    BY <1>2, <1>4, <2>1 DEF Made, InProgress, None
<1>8. ASSUME NEW j \in Jobs
      PROVE  /\ Explained(j, jobs[j], Before(j[1]), <<rows, closed>>)'
             /\ Written(jobs[j], context[j], reports[j], counted[j])'
  <2>1. Explained(j, jobs[j], Before(j[1]), <<rows, closed>>) /\ Written(jobs[j], context[j], reports[j], counted[j])
    BY DEF FlowInv
  <2>2. Before(j[1])' = Before(j[1])
    BY <1>6, JobsAreRequests DEF Before
  <2>3. CASE jobs'[j] = jobs[j]
    <3>1. Explained(j, jobs'[j], Before(j[1])', <<rows, closed>>')
      BY <1>1, <2>1, <2>2, <2>3, MoreRows
    <3>2. QED
      BY <1>1, <2>1, <2>3, <3>1 DEF Written, Explained, AnsweredFrom
  <2>4. CASE InProgress(j) /\ jobs'[j] = lost(j)
    <3>1. jobs[j].stage \in {"arrived", "entered", "handling"}
      BY <2>4 DEF InProgress
    <3>2. jobs[j].status = 0 /\ Len(reports[j]) = 0 /\ Len(counted[j]) = 0
      BY <2>1, <3>1 DEF Written
    <3>3. Written(jobs'[j], context[j], reports[j], counted[j]) /\ jobs'[j].stage \notin {"handling", "answered"}
      BY <1>4, <2>4, <3>2 DEF Written, None
    <3>4. QED
      BY <1>1, <3>3 DEF Written, Explained
  <2>5. QED
    BY <1>2, <2>3, <2>4
<1>9. ASSUME NEW r \in scene PROVE RequestFits(r)'
  <2>1. RequestFits(r)
    BY DEF FlowInv
  <2>2. PICK k \in 0..Retries + 1 : \A n \in Slots : Made(r, n) <=> n <= k
    BY <2>1 DEF RequestFits
  <2>3. (\E m \in 0..Retries + 1 : \A n \in Slots : Made(r, n) <=> n <= m)'
    BY <1>7, <2>2 DEF Slots
  <2>4. (Known(r) \subseteq rows /\ Settled(r) \subseteq closed)'
    BY <1>1, <1>6, <2>1 DEF RequestFits
  <2>5. (jobs[AtGateway(r)].stage = None => \A n \in Slots : ~Made(r, n))'
    BY <1>5, <1>7, <2>1 DEF RequestFits, Slots
  <2>6. (jobs[AtGateway(r)].status = 500 => Exhausted(r))'
    BY <1>5, <1>7, <2>1 DEF RequestFits, Slots, Exhausted
  <2>7. QED
    BY <2>3, <2>4, <2>5, <2>6 DEF RequestFits
<1>10. Stocked'
  <2>1. CASE Index
    <3>1. PICK row \in LaterRows : rows' = rows \cup {row}
      BY <2>1 DEF Index
    <3>2. IsFiniteSet(rows \cup {row})
      BY FS_AddElement DEF FlowInv, Stocked
    <3>3. QED
      BY <3>1, <3>2 DEF FlowInv, Stocked
  <2>2. CASE UNCHANGED rows
    BY <2>2 DEF FlowInv, Stocked
  <2>3. QED
    BY <2>1, <2>2 DEF UpdateLoan, Crash, Restart, vars
<1>11. (SceneFits /\ Counting)'
  BY <1>1 DEF FlowInv, SceneFits, Counting
<1>12. QED
  BY <1>1, <1>8, <1>9, <1>10, <1>11 DEF FlowInv

LEMMA FlowStepHolds == TraceInv /\ FlowInv /\ [Next]_vars => FlowInv'
<1> SUFFICES ASSUME TraceInv, FlowInv, [Next]_vars PROVE FlowInv'
  OBVIOUS
<1>1. ASSUME NEW r \in scene, Arrive(r) \/ GatewayStep(r) PROVE FlowInv'
  <2>1. AtGateway(r) \in Jobs
    BY JobsOfRequest
  <2>2. QED
    BY <1>1, <2>1, ArriveFlows, InterceptFlows, TransformFlows, AttemptFlows, DeliverFlows,
       RetryFlows, GiveUpFlows DEF GatewayStep
<1>2. ASSUME NEW r \in scene, NEW n \in 1..Retries + 1, IndexerStep(<<r, n>>) PROVE FlowInv'
  <2>1. <<r, n>> \in Jobs
    BY JobsOfRequest DEF Slots
  <2>2. QED
    BY <1>2, <2>1, GuardFlows, InterceptFlows, TransformFlows, QueryFlows DEF IndexerStep
<1>3. CASE Index \/ UpdateLoan \/ Crash \/ Restart \/ UNCHANGED vars
  BY <1>3, IndexerFlows
<1>4. QED
  BY <1>1, <1>2, <1>3 DEF Next

-----------------------------------------------------------------------------
(* What the layers' tables come to: for every route, the query that the    *)
(* indexer runs at last is for the rows that are wanted, and takes the     *)
(* limit that was asked for.                                               *)
LEMMA Controllers ==
  /\ Controller("deposits") = Route("userAddress", "query", "getUserDeposits")
  /\ Controller("withdrawals") = Route("userAddress", "query", "getUserWithdrawals")
  /\ Controller("totalDeposited") = Route("userAddress", None, "getTotalDeposited")
  /\ Controller("totalWithdrawn") = Route("userAddress", None, "getTotalWithdrawn")
  /\ Controller("loans") = Route("userAddress", "query", "getUserLoans")
  /\ Controller("activeLoans") = Route("userAddress", None, "getActiveUserLoans")
  /\ Controller("totalBorrowed") = Route("userAddress", None, "getTotalBorrowed")
  /\ Controller("repayments") = Route("userAddress", "query", "getRepaymentsByUser")
  /\ Controller("liquidations") = Route("borrowerAddress", "query", "getLiquidationsByBorrower")
  /\ Controller("events") = Route(None, "query", "getRecentEvents")
  /\ Controller("eventsByType") = Route("eventType", "default", "getEventsByType")
  /\ Controller("eventsByBlock") = Route("blockNumber", None, "getEventsByBlock")
  /\ Controller("eventsByTransaction") = Route("transactionHash", None, "getEventsByTransaction")
  BY DEF Controller, DepositsController, LoansController, EventsController

LEMMA Providers ==
  /\ Provider("getUserDeposits") = Get("deposits", "user", TRUE)
  /\ Provider("getUserWithdrawals") = Get("deposits", "withdrawals", TRUE)
  /\ Provider("getTotalDeposited") = Get("deposits", "totalDeposited", FALSE)
  /\ Provider("getTotalWithdrawn") = Get("deposits", "totalWithdrawn", FALSE)
  /\ Provider("getUserLoans") = Get("loans", "user", TRUE)
  /\ Provider("getActiveUserLoans") = Get("loans", "active", FALSE)
  /\ Provider("getTotalBorrowed") = Get("loans", "totalBorrowed", FALSE)
  /\ Provider("getRepaymentsByUser") = Get("loans", "repayments", TRUE)
  /\ Provider("getLiquidationsByBorrower") = Get("loans", "liquidations", TRUE)
  /\ Provider("getRecentEvents") = Get("events", "recent", TRUE)
  /\ Provider("getEventsByType") = Get("events", "type", TRUE)
  /\ Provider("getEventsByBlock") = Get("events", "block", FALSE)
  /\ Provider("getEventsByTransaction") = Get("events", "tx", FALSE)
  BY DEF Provider, DepositsService, LoansService, EventsService, DepositsProvider, LoansProvider,
         EventsProvider

LEMMA PrivateControllers ==
  /\ PrivateController("deposits", "user") = Private("userAddress", TRUE, "getDepositsByUser")
  /\ PrivateController("deposits", "withdrawals") = Private("userAddress", TRUE, "getWithdrawalsByUser")
  /\ PrivateController("deposits", "totalDeposited") = Private("userAddress", FALSE, "getTotalDeposited")
  /\ PrivateController("deposits", "totalWithdrawn") = Private("userAddress", FALSE, "getTotalWithdrawn")
  /\ PrivateController("loans", "user") = Private("userAddress", TRUE, "getLoansByUser")
  /\ PrivateController("loans", "active") = Private("userAddress", FALSE, "getActiveLoansByUser")
  /\ PrivateController("loans", "totalBorrowed") = Private("userAddress", FALSE, "getTotalBorrowed")
  /\ PrivateController("loans", "repayments") = Private("userAddress", TRUE, "getRepaymentsByUser")
  /\ PrivateController("loans", "liquidations") = Private("userAddress", TRUE, "getLiquidationsByBorrower")
  /\ PrivateController("events", "recent") = Private(None, TRUE, "getRecentEvents")
  /\ PrivateController("events", "type") = Private("eventType", TRUE, "getEventsByType")
  /\ PrivateController("events", "block") = Private("blockNumber", FALSE, "getEventsByBlock")
  /\ PrivateController("events", "tx") = Private("transactionHash", FALSE, "getEventsByTransaction")
  BY DEF PrivateController, PrivateDepositsController, PrivateLoansController, PrivateEventsController

LEMMA Queries ==
  /\ QueryOf("getDepositsByUser") = Select({"deposits"}, "user", TRUE)
  /\ QueryOf("getWithdrawalsByUser") = Select({"withdrawals"}, "user", TRUE)
  /\ QueryOf("getTotalDeposited") = Select({"deposits"}, "user", FALSE)
  /\ QueryOf("getTotalWithdrawn") = Select({"withdrawals"}, "user", FALSE)
  /\ QueryOf("getLoansByUser") = Select({"loans"}, "user", TRUE)
  /\ QueryOf("getActiveLoansByUser") = Select({"loans"}, "user", FALSE)
  /\ QueryOf("getTotalBorrowed") = Select({"loans"}, "user", FALSE)
  /\ QueryOf("getRepaymentsByUser") = Select({"repayments"}, "user", TRUE)
  /\ QueryOf("getLiquidationsByBorrower") = Select({"liquidations"}, "user", TRUE)
  /\ QueryOf("getRecentEvents") = Select(Tables, None, TRUE)
  /\ QueryOf("getEventsByType") = Select(Tables, "table", TRUE)
  /\ QueryOf("getEventsByBlock") = Select(Tables, "time", FALSE)
  /\ QueryOf("getEventsByTransaction") = Select(Tables, "time", FALSE)
  BY DEF QueryOf, DepositsQueries, LoansQueries, EventsQueries

QueryNamed(r) == PrivateController(Forwarded(r).url, Forwarded(r).path).query

RouteFits(r) ==
  LET query == QueryNamed(r)
      limit == Forwarded(r).limit
  IN /\ Forwarded(r).value = r.value
     /\ \A row : row.table \in Tables =>
          (Wanted(r, row) <=> /\ row.table \in QueryOf(query).tables
                              /\ CASE QueryOf(query).by = "user" -> row.user = ToLowerCase(r.value)
                                   [] QueryOf(query).by = "table" -> row.table = r.value
                                   [] QueryOf(query).by = "time" -> row.time = r.value
                                   [] OTHER -> TRUE)
     /\ query = "getActiveLoansByUser" <=> r.route = "activeLoans"
     /\ LimitAsked(r) = IF ~QueryOf(query).newest THEN NoLimit
                        ELSE IF limit = NoLimit THEN DefaultLimit ELSE limit
     /\ QueryOf(query).newest => LimitAsked(r) # NoLimit

LEMMA RoutesFit ==
  ASSUME NEW r, r.route \in Routes, r.limit \in Int PROVE RouteFits(r)
<1>1. DefaultLimit # -1
  BY LimitsInOrder, SMTT(60)
<1> USE DEF Forwarded, Route, Get, Private, Select, QueryNamed, RouteFits, Wanted, TablesOf, LimitAsked,
            NoLimit, None
<1>2. CASE r.route = "deposits"
  BY <1>1, <1>2, Controllers, Providers, PrivateControllers, Queries, SMTT(60)
<1>3. CASE r.route = "withdrawals"
  BY <1>1, <1>3, Controllers, Providers, PrivateControllers, Queries, SMTT(60)
<1>4. CASE r.route = "totalDeposited"
  BY <1>1, <1>4, Controllers, Providers, PrivateControllers, Queries, SMTT(60)
<1>5. CASE r.route = "totalWithdrawn"
  BY <1>1, <1>5, Controllers, Providers, PrivateControllers, Queries, SMTT(60)
<1>6. CASE r.route = "loans"
  BY <1>1, <1>6, Controllers, Providers, PrivateControllers, Queries, SMTT(60)
<1>7. CASE r.route = "activeLoans"
  BY <1>1, <1>7, Controllers, Providers, PrivateControllers, Queries, SMTT(60)
<1>8. CASE r.route = "totalBorrowed"
  BY <1>1, <1>8, Controllers, Providers, PrivateControllers, Queries, SMTT(60)
<1>9. CASE r.route = "repayments"
  BY <1>1, <1>9, Controllers, Providers, PrivateControllers, Queries, SMTT(60)
<1>10. CASE r.route = "liquidations"
  BY <1>1, <1>10, Controllers, Providers, PrivateControllers, Queries, SMTT(60)
<1>11. CASE r.route = "events"
  BY <1>1, <1>11, Controllers, Providers, PrivateControllers, Queries, SMTT(60)
<1>12. CASE r.route = "eventsByType"
  BY <1>1, <1>12, Controllers, Providers, PrivateControllers, Queries, SMTT(60)
<1>13. CASE r.route = "eventsByBlock"
  BY <1>1, <1>13, Controllers, Providers, PrivateControllers, Queries, SMTT(60)
<1>14. CASE r.route = "eventsByTransaction"
  BY <1>1, <1>14, Controllers, Providers, PrivateControllers, Queries, SMTT(60)
<1>15. QED
  <2>1. r.route \in {"deposits", "withdrawals", "totalDeposited", "totalWithdrawn", "loans",
                     "activeLoans", "totalBorrowed", "repayments", "liquidations", "events",
                     "eventsByType", "eventsByBlock", "eventsByTransaction"}
    BY DEF Routes, DepositsController, LoansController, EventsController
  <2> HIDE DEF RouteFits
  <2>2. QED
    BY <1>2, <1>3, <1>4, <1>5, <1>6, <1>7, <1>8, <1>9, <1>10, <1>11, <1>12, <1>13, <1>14, <2>1

-----------------------------------------------------------------------------
(* A finite set of rows that is not empty has a newest one.                *)
LEMMA NewestRow ==
  ASSUME NEW S, IsFiniteSet(S), S # {}, \A row \in S : row.time \in Nat
  PROVE  \E m \in S : \A row \in S : row.time <= m.time
<1> DEFINE from(m) == {row \in S : m.time <= row.time}
           W == {from(m) : m \in S}
<1>1. W \in SUBSET (SUBSET S) /\ W # {}
  OBVIOUS
<1>2. PICK T \in W : \A U \in SUBSET T : U # T => U \notin W
  <2> HIDE DEF W
  <2> QED
    BY <1>1, MinimalSubset
<1>3. PICK m \in S : T = from(m)
  OBVIOUS
<1>4. ASSUME NEW row \in S, ~(row.time <= m.time) PROVE FALSE
  <2>1. from(row) \in SUBSET T /\ m \in T /\ m \notin from(row)
    <3>1. m.time \in Nat /\ row.time \in Nat /\ m.time <= m.time /\ \A other \in S : other.time \in Nat
      OBVIOUS
    <3>2. \A other \in S : row.time <= other.time => m.time <= other.time
      BY <1>4, <3>1
    <3>3. QED
      BY <1>3, <1>4, <3>1, <3>2
  <2>2. from(row) \in W
    OBVIOUS
  <2>3. QED
    BY <1>2, <2>1, <2>2
<1>5. QED
  BY <1>4

Timed(S) == \A row \in S : row.time \in Nat

(* Ordering by time and taking the first n gives an answer for every n.    *)
LEMMA NewestOfNextExists ==
  ASSUME NEW S, IsFiniteSet(S), Timed(S), NEW n \in Nat, NewestOf(S, n) # {}
  PROVE  NewestOf(S, n + 1) # {}
<1>1. Cardinality(S) \in Nat
  BY FS_CardinalityType
<1>2. CASE Cardinality(S) <= n
  <2>1. S \in NewestOf(S, n + 1)
    BY <1>1, <1>2 DEF NewestOf
  <2>2. QED
    BY <2>1
<1>3. CASE n < Cardinality(S)
  <2>1. PICK some \in NewestOf(S, n) : TRUE
    OBVIOUS
  <2>2. some \in SUBSET S /\ \A r \in some, other \in S \ some : r.time >= other.time
    BY <2>1 DEF NewestOf
  <2>3. Cardinality(some) = n
    BY <1>1, <1>3, <2>1 DEF NewestOf
  <2>4. IsFiniteSet(S \ some) /\ IsFiniteSet(some)
    BY <2>2, FS_Subset, S \ some \in SUBSET S
  <2>5. S \ some # {}
    BY <1>1, <1>3, <2>2, <2>3
  <2>6. PICK m \in S \ some : \A row \in S \ some : row.time <= m.time
    BY <2>4, <2>5, NewestRow DEF Timed
  <2>7. Cardinality(some \cup {m}) = n + 1
    BY <2>3, <2>4, SizeChanges
  <2>8. \A r \in some \cup {m}, other \in S \ (some \cup {m}) : r.time >= other.time
    BY <2>2, <2>6 DEF Timed
  <2>9. some \cup {m} \in NewestOf(S, n + 1)
    BY <1>1, <1>3, <2>2, <2>7, <2>8 DEF NewestOf
  <2>10. QED
    BY <2>9
<1>4. QED
  BY <1>1, <1>2, <1>3

LEMMA NewestOfExists ==
  ASSUME NEW S, IsFiniteSet(S), Timed(S), NEW n \in Nat
  PROVE  NewestOf(S, n) # {}
<1> SUFFICES ASSUME NewestOf(S, n) = {} PROVE FALSE
  OBVIOUS
<1> DEFINE bad == {k \in 0..n : NewestOf(S, k) = {}}
<1>1. IsFiniteSet(bad) /\ bad \subseteq Int /\ bad # {}
  <2>1. IsFiniteSet(0..n) /\ bad \in SUBSET (0..n) /\ n \in bad
    BY FS_Interval
  <2>2. QED
    BY <2>1, FS_Subset
<1>2. PICK k \in bad : \A i \in bad : k <= i
  <2> HIDE DEF bad
  <2> QED
    BY <1>1, LeastExists
<1>3. CASE k = 0
  <2>1. Cardinality({}) = 0 /\ Cardinality(S) \in Nat
    BY FS_EmptySet, FS_CardinalityType
  <2>2. {} \in NewestOf(S, 0)
    <3>1. {} \in SUBSET S /\ ~(Cardinality(S) < 0)
      BY <2>1
    <3>2. QED
      BY <2>1, <3>1 DEF NewestOf
  <2>3. QED
    BY <1>2, <1>3, <2>2
<1>4. CASE k # 0
  <2>1. k - 1 \in Nat /\ k - 1 \in 0..n /\ ~(k <= k - 1)
    BY <1>4
  <2>2. NewestOf(S, k - 1) # {}
    BY <1>2, <2>1
  <2>3. NewestOf(S, (k - 1) + 1) # {}
    BY <2>1, <2>2, NewestOfNextExists
  <2>4. QED
    BY <1>2, <2>3
<1>5. QED
  BY <1>3, <1>4

(* What an answer holds: the wanted rows, or the newest of them.           *)
WantedOf(r, some, done) == {row \in some : Wanted(r, row) /\ StillWanted(r, row, done)}

LEMMA AnswerMeans ==
  ASSUME NEW r, r.route \in Routes, r.limit \in Int, NEW some, NEW done,
         \A row \in some : row.table \in Tables
  PROVE  AnswersTo(r, some, done) =
           IF LimitAsked(r) = NoLimit THEN {WantedOf(r, some, done)}
           ELSE NewestOf(WantedOf(r, some, done), LimitAsked(r))
<1> DEFINE name == QueryNamed(r)
           limit == Forwarded(r).limit
           matching == Matching(name, r.value, some, done)
<1>1. RouteFits(r)
  BY RoutesFit
<1>2. Forwarded(r).value = r.value /\ QueryNamed(r) = name
  BY <1>1 DEF RouteFits
<1>3. AnswersTo(r, some, done) =
        IF QueryOf(name).newest
        THEN NewestOf(matching, IF limit = NoLimit THEN DefaultLimit ELSE limit) ELSE {matching}
  BY <1>2 DEF AnswersTo, Found, QueryNamed
<1>4. matching = WantedOf(r, some, done)
  BY <1>1 DEF RouteFits, Matching, WantedOf, StillWanted
<1> HIDE DEF matching
<1>5. CASE QueryOf(name).newest
  <2>1. /\ LimitAsked(r) = (IF limit = NoLimit THEN DefaultLimit ELSE limit)
        /\ LimitAsked(r) # NoLimit
    BY <1>1, <1>5 DEF RouteFits
  <2>2. QED
    BY <1>3, <1>4, <1>5, <2>1
<1>6. CASE ~QueryOf(name).newest
  <2>1. LimitAsked(r) = NoLimit
    BY <1>1, <1>6 DEF RouteFits
  <2>2. QED
    BY <1>3, <1>4, <1>6, <2>1
<1>7. QED
  BY <1>5, <1>6

LEMMA LimitsAsked ==
  ASSUME NEW r, r.route \in Routes, r.limit \in Int
  PROVE  /\ LimitAsked(r) \in Int
         /\ AcceptedByGateway(r) /\ LimitAsked(r) # NoLimit => LimitAsked(r) \in Nat
<1>1. Controller(r.route).limit \in {None, "query", "default"}
  BY Controllers DEF Routes, DepositsController, LoansController, EventsController, Route
<1>2. DefaultLimit \in Nat /\ MaxLimit \in Nat /\ NoLimit \in Int
  BY LimitsInOrder DEF NoLimit
<1>3. CASE Controller(r.route).limit = "query"
  BY <1>2, <1>3 DEF LimitAsked, AcceptedByGateway, LimitAccepted, ApiPropertyNumber,
     PaginationQueryDTO, None
<1>4. CASE Controller(r.route).limit # "query"
  BY <1>1, <1>2, <1>4 DEF LimitAsked
<1>5. QED
  BY <1>3, <1>4

LEMMA RequestsAreKnown ==
  ASSUME FlowInv, NEW r \in scene
  PROVE  r.route \in Routes /\ r.limit \in Int
  BY PipelineConstants DEF FlowInv, SceneFits

LEMMA RowsAreKnown ==
  ASSUME FlowInv PROVE IsFiniteSet(rows) /\ \A row \in rows : row.table \in Tables /\ row.time \in Nat
  BY PipelineConstants DEF FlowInv, Stocked

(* A held answer exists: the gateway would accept the request again.       *)
LEMMA HeldAnswerExists ==
  ASSUME NEW r \in Held
  PROVE  AnswersTo(r, InitialRows, InitialClosed) # {}
<1>1. /\ r.route \in Routes /\ r.limit \in Int /\ AcceptedByGateway(r)
      /\ IsFiniteSet(InitialRows) /\ Timed(InitialRows)
      /\ \A row \in InitialRows : row.table \in Tables
  BY PipelineConstants DEF Timed
<1>2. IsFiniteSet(WantedOf(r, InitialRows, InitialClosed)) /\ Timed(WantedOf(r, InitialRows, InitialClosed))
  <2>1. WantedOf(r, InitialRows, InitialClosed) \in SUBSET InitialRows
    BY DEF WantedOf
  <2>2. QED
    BY <1>1, <2>1, FS_Subset DEF Timed
<1>3. AnswersTo(r, InitialRows, InitialClosed) =
        IF LimitAsked(r) = NoLimit THEN {WantedOf(r, InitialRows, InitialClosed)}
        ELSE NewestOf(WantedOf(r, InitialRows, InitialClosed), LimitAsked(r))
  BY <1>1, AnswerMeans
<1>4. LimitAsked(r) # NoLimit => LimitAsked(r) \in Nat
  BY <1>1, LimitsAsked
<1>5. QED
  BY <1>2, <1>3, <1>4, NewestOfExists

LEMMA FlowInitHolds == Init => FlowInv
<1> SUFFICES ASSUME Init PROVE FlowInv
  OBVIOUS
<1>1. /\ rows = InitialRows /\ closed = InitialClosed /\ context = [j \in Jobs |-> NoTrace]
      /\ reports = [j \in Jobs |-> <<>>] /\ counted = [j \in Jobs |-> <<>>]
      /\ jobs = [j \in Jobs |-> IF j[2] = 0 /\ j[1] \in Held THEN AnsweredEarlier(j[1]) ELSE NoJob]
  BY DEF Init
<1>2. /\ NoJob.stage = None /\ NoJob.status = 0 /\ NoJob.known = {} /\ NoJob.settled = {}
      /\ \A r : /\ AnsweredEarlier(r).stage = "answered" /\ AnsweredEarlier(r).status = 200
                /\ AnsweredEarlier(r).known = InitialRows /\ AnsweredEarlier(r).settled = InitialClosed
                /\ r \in Held => AnsweredEarlier(r).found \in AnswersTo(r, InitialRows, InitialClosed)
  <2>1. \A r \in Held : (CHOOSE found \in AnswersTo(r, InitialRows, InitialClosed) : TRUE) \in AnswersTo(r, InitialRows, InitialClosed)
    BY HeldAnswerExists
  <2>2. QED
    BY <2>1 DEF NoJob, AnsweredEarlier
<1>3. ASSUME NEW r \in scene
      PROVE  /\ jobs[AtGateway(r)] = IF r \in Held THEN AnsweredEarlier(r) ELSE NoJob
             /\ \A n \in Slots : ~Made(r, n)
  <2>1. jobs[AtGateway(r)] = IF r \in Held THEN AnsweredEarlier(r) ELSE NoJob
    BY <1>1, JobsOfRequest DEF AtGateway
  <2>2. \A n \in Slots : jobs[<<r, n>>] = NoJob
    BY <1>1, JobsOfRequest, PipelineConstants DEF Slots
  <2>3. QED
    BY <1>2, <2>1, <2>2 DEF Made
<1>4. ASSUME NEW j \in Jobs
      PROVE  /\ Explained(j, jobs[j], Before(j[1]), <<rows, closed>>)
             /\ Written(jobs[j], context[j], reports[j], counted[j])
  <2>1. /\ context[j] = NoTrace /\ Len(reports[j]) = 0 /\ Len(counted[j]) = 0
        /\ jobs[j] = IF j[2] = 0 /\ j[1] \in Held THEN AnsweredEarlier(j[1]) ELSE NoJob
    BY <1>1
  <2>2. CASE jobs[j] = NoJob
    BY <1>2, <2>1, <2>2 DEF Explained, Written, None
  <2>3. CASE j[2] = 0 /\ j[1] \in Held
    <3>1. jobs[j] = AnsweredEarlier(j[1])
      BY <2>1, <2>3
    <3>2. j[1] \in scene /\ Known(j[1]) = InitialRows /\ Settled(j[1]) = InitialClosed
      BY <1>2, <1>3, <2>3, JobsAreRequests DEF Known, Settled
    <3>3. InitialRows \in SUBSET rows /\ InitialClosed \in SUBSET closed
      BY <1>1
    <3>4. AnsweredFrom(j[1], jobs[j].found, Before(j[1]), <<rows, closed>>)
      BY <1>2, <2>3, <3>1, <3>2, <3>3, PipelineConstants DEF AnsweredFrom, Before, Takes
    <3>5. QED
      BY <1>2, <2>1, <3>1, <3>4 DEF Explained, Written, None
  <2>4. QED
    BY <2>1, <2>2, <2>3
<1>5. ASSUME NEW r \in scene PROVE RequestFits(r)
  <2>1. 0 \in 0..Retries + 1 /\ \A n \in Slots : ~(n <= 0)
    BY PipelineConstants DEF Slots
  <2>2. /\ Known(r) \subseteq rows /\ Settled(r) \subseteq closed
        /\ jobs[AtGateway(r)].status # 500
    BY <1>1, <1>2, <1>3 DEF Known, Settled
  <2>3. QED
    BY <1>3, <2>1, <2>2 DEF RequestFits
<1>6. SceneFits
  BY DEF Init, SceneFits
<1>7. Stocked
  BY <1>1, PipelineConstants DEF Stocked
<1>8. Counting
  BY <1>1 DEF Counting
<1>9. QED
  BY <1>4, <1>5, <1>6, <1>7, <1>8 DEF FlowInv

(* An answer is right whichever rows it was taken from, if they had all    *)
(* that were known and no others than those there are now.                 *)
LEMMA AnswersAreRight ==
  ASSUME FlowInv, NEW r \in scene, NEW found, AnsweredFrom(r, found, Before(r), <<rows, closed>>)
  PROVE  /\ found \in SUBSET rows /\ \A row \in found : Wanted(r, row) /\ StillWanted(r, row, Settled(r))
         /\ LimitAsked(r) # NoLimit => Cardinality(found) <= LimitAsked(r)
         /\ Latest(found, WantedOf(r, Known(r), closed), LimitAsked(r))
<1> DEFINE n == LimitAsked(r)
<1>1. PICK some \in SUBSET rows, done \in SUBSET closed :
        /\ Known(r) \subseteq some /\ Settled(r) \subseteq done
        /\ found \in AnswersTo(r, some, done)
  BY DEF AnsweredFrom, Before
<1> DEFINE wanted == WantedOf(r, some, done)
<1>2. IsFiniteSet(wanted) /\ Cardinality(wanted) \in Nat /\ wanted \in SUBSET rows
  <2>1. wanted \in SUBSET rows
    BY DEF WantedOf
  <2>2. QED
    BY <2>1, RowsAreKnown, FS_Subset, FS_CardinalityType
<1>3. found \in IF n = NoLimit THEN {wanted} ELSE NewestOf(wanted, n)
  BY <1>1, RequestsAreKnown, RowsAreKnown, AnswerMeans
<1>4. n \in Int
  BY RequestsAreKnown, LimitsAsked
<1>5. /\ \A row \in wanted : Wanted(r, row) /\ StillWanted(r, row, Settled(r))
      /\ WantedOf(r, Known(r), closed) \subseteq wanted
  BY <1>1 DEF WantedOf, StillWanted
<1> HIDE DEF wanted, n
<1>6. CASE n = NoLimit
  <2>1. found = wanted
    BY <1>3, <1>6
  <2>2. Latest(found, WantedOf(r, Known(r), closed), n)
    BY <1>5, <2>1 DEF Latest
  <2>3. QED
    BY <1>2, <1>5, <1>6, <2>1, <2>2 DEF n
<1>7. CASE n # NoLimit
  <2>1. /\ found \in SUBSET wanted
        /\ Cardinality(found) = IF Cardinality(wanted) < n THEN Cardinality(wanted) ELSE n
        /\ \A r1 \in found, other \in wanted \ found : r1.time >= other.time
    BY <1>3, <1>7 DEF NewestOf
  <2>2. ASSUME NEW row \in WantedOf(r, Known(r), closed) \ found
        PROVE  Cardinality(found) = n /\ \A other \in found : row.time <= other.time
    <3>1. row \in wanted \ found
      BY <1>5, <2>2
    <3>2. found # wanted
      BY <3>1
    <3>3. Cardinality(found) # Cardinality(wanted)
      BY <1>2, <2>1, <3>2, FS_Subset
    <3>4. \A other \in found : other.time \in Nat /\ row.time \in Nat
      BY <1>2, <2>1, <3>1, RowsAreKnown
    <3>5. QED
      BY <2>1, <3>1, <3>3, <3>4
  <2>3. Latest(found, WantedOf(r, Known(r), closed), n)
    BY <1>7, <2>2 DEF Latest
  <2>4. Cardinality(found) <= n
    BY <1>2, <1>4, <2>1
  <2>5. QED
    BY <1>2, <1>5, <2>1, <2>3, <2>4 DEF n
<1>8. QED
  BY <1>6, <1>7

LEMMA AnsweredWell ==
  ASSUME FlowInv, NEW r \in scene, Done(r, 200)
  PROVE  LET found == jobs[AtGateway(r)].found
         IN /\ found \in SUBSET rows /\ \A row \in found : Wanted(r, row) /\ StillWanted(r, row, Settled(r))
            /\ LimitAsked(r) # NoLimit => Cardinality(found) <= LimitAsked(r)
            /\ Latest(found, WantedOf(r, Known(r), closed), LimitAsked(r))
<1>1. AtGateway(r) \in Jobs /\ AtGateway(r)[1] = r
  BY JobsOfRequest
<1>2. Explained(AtGateway(r), jobs[AtGateway(r)], Before(r), <<rows, closed>>)
  BY <1>1 DEF FlowInv
<1>3. AnsweredFrom(r, jobs[AtGateway(r)].found, Before(r), <<rows, closed>>)
  BY <1>1, <1>2 DEF Explained, Done
<1>4. QED
  BY <1>3, AnswersAreRight

LEMMA CurrentIfFlowing == FlowInv => AnswersAreCurrent
<1> SUFFICES ASSUME FlowInv, NEW r \in scene, Done(r, 200)
             PROVE  LET job == jobs[AtGateway(r)]
                        n == LimitAsked(r)
                    IN /\ \A row \in job.found :
                            row \in rows /\ Wanted(r, row) /\ StillWanted(r, row, job.settled)
                       /\ n # NoLimit => Cardinality(job.found) <= n
                       /\ Latest(job.found, WantedOf(r, job.known, closed), n)
  BY DEF AnswersAreCurrent, WantedOf
<1>1. QED
  BY AnsweredWell DEF Known, Settled

(* What the indexer's DTOs accept: on all its routes but one the parameter *)
(* that the gateway's DTO has accepted, and a limit that it has accepted   *)
(* or set; on that one nothing.                                            *)
LEMMA LiquidationsRefused ==
  ASSUME NEW r, r.route = "liquidations" PROVE ~Takes(r)
<1>1. /\ Controller(r.route).method = "getLiquidationsByBorrower"
      /\ Provider("getLiquidationsByBorrower").url = "loans"
      /\ Provider("getLiquidationsByBorrower").path = "liquidations"
  BY Controllers DEF Route, Provider, DepositsService, LoansService, EventsService, LoansProvider, Get
<1>2. Forwarded(r).url = "loans" /\ Forwarded(r).path = "liquidations"
  BY <1>1 DEF Forwarded
<1>3. PrivateController("loans", "liquidations").param # IndexerRoutes["loans"]["liquidations"]
  BY PrivateControllers DEF Private, IndexerRoutes
<1>4. QED
  BY <1>2, <1>3 DEF Takes, AcceptedByIndexer

LEMMA GatewayRefusesFirst ==
  ASSUME NEW r, r.route \in Routes, r.limit \in Int, AcceptedByGateway(r), r.route # "liquidations"
  PROVE  Takes(r)
<1>1. DefaultLimit \in Nat /\ 1 <= DefaultLimit /\ DefaultLimit <= MaxLimit /\ MaxLimit \in Nat
  BY LimitsInOrder
<1>2. LimitAccepted(DefaultLimit)
  BY <1>1 DEF LimitAccepted, ApiPropertyNumber, PaginationQueryDTO
<1> USE <1>2 DEF Takes, AcceptedByIndexer, AcceptedByGateway, Forwarded, Route, Get, Private,
                 IndexerRoutes, None
<1>3. CASE r.route = "deposits"
  BY <1>3, Controllers, Providers, PrivateControllers, SMTT(60)
<1>4. CASE r.route = "withdrawals"
  BY <1>4, Controllers, Providers, PrivateControllers, SMTT(60)
<1>5. CASE r.route = "totalDeposited"
  BY <1>5, Controllers, Providers, PrivateControllers, SMTT(60)
<1>6. CASE r.route = "totalWithdrawn"
  BY <1>6, Controllers, Providers, PrivateControllers, SMTT(60)
<1>7. CASE r.route = "loans"
  BY <1>7, Controllers, Providers, PrivateControllers, SMTT(60)
<1>8. CASE r.route = "activeLoans"
  BY <1>8, Controllers, Providers, PrivateControllers, SMTT(60)
<1>9. CASE r.route = "totalBorrowed"
  BY <1>9, Controllers, Providers, PrivateControllers, SMTT(60)
<1>10. CASE r.route = "repayments"
  BY <1>10, Controllers, Providers, PrivateControllers, SMTT(60)
<1>11. CASE r.route = "events"
  BY <1>11, Controllers, Providers, PrivateControllers, SMTT(60)
<1>12. CASE r.route = "eventsByType"
  BY <1>12, Controllers, Providers, PrivateControllers, SMTT(60)
<1>13. CASE r.route = "eventsByBlock"
  BY <1>13, Controllers, Providers, PrivateControllers, SMTT(60)
<1>14. CASE r.route = "eventsByTransaction"
  BY <1>14, Controllers, Providers, PrivateControllers, SMTT(60)
<1>15. QED
  <2>1. r.route \in {"deposits", "withdrawals", "totalDeposited", "totalWithdrawn", "loans",
                     "activeLoans", "totalBorrowed", "repayments", "events", "eventsByType",
                     "eventsByBlock", "eventsByTransaction"}
    BY DEF Routes, DepositsController, LoansController, EventsController
  <2> HIDE DEF Takes
  <2>2. QED
    BY <1>3, <1>4, <1>5, <1>6, <1>7, <1>8, <1>9, <1>10, <1>11, <1>12, <1>13, <1>14, <2>1

LEMMA ErrorsIfFlowing == FlowInv => ErrorsExplained
<1> SUFFICES ASSUME FlowInv PROVE ErrorsExplained
  OBVIOUS
<1>1. ASSUME NEW r \in scene
      PROVE  /\ Done(r, 400) /\ AcceptedByGateway(r) => r.route = "liquidations"
             /\ Done(r, 200) => r.route # "liquidations"
             /\ Done(r, 401) => ~setting.keysAgree
             /\ Done(r, 500) => Cardinality(Attempts(r)) = Retries + 1
  <2>1. AtGateway(r) \in Jobs /\ AtGateway(r)[1] = r
    BY JobsOfRequest
  <2>2. Explained(AtGateway(r), jobs[AtGateway(r)], Before(r), <<rows, closed>>) /\ RequestFits(r)
    BY <2>1 DEF FlowInv
  <2>3. ASSUME Done(r, 500) PROVE Cardinality(Attempts(r)) = Retries + 1
    <3>1. Exhausted(r)
      BY <2>2, <2>3 DEF RequestFits, Done
    <3>2. Attempts(r) = 1..Retries + 1
      BY <3>1 DEF Exhausted, Made, Slots, Attempts
    <3>3. Cardinality(1..Retries + 1) = Retries + 1
      BY FS_Interval, PipelineConstants
    <3>4. QED
      BY <3>2, <3>3
  <2>4. Takes(r) => r.route # "liquidations"
    BY LiquidationsRefused
  <2>5. AcceptedByGateway(r) /\ r.route # "liquidations" => Takes(r)
    BY RequestsAreKnown, GatewayRefusesFirst
  <2>6. QED
    BY <2>1, <2>2, <2>3, <2>4, <2>5 DEF Explained, Done, Refused, AnsweredFrom
<1>2. ASSUME NEW j \in Jobs
      PROVE  /\ Len(reports[j]) = IF jobs[j].status >= 500 THEN 1 ELSE 0
             /\ Len(counted[j]) =
                  IF jobs[j].stage = "answered" /\ context[j] # NoTrace THEN 1 ELSE 0
  BY DEF FlowInv, Written
<1>3. QED
  BY <1>1, <1>2 DEF ErrorsExplained

(* The history's four queries: each for a list of the account, of the      *)
(* default limit, which is no smaller than what is shown.                  *)
LEMMA HistoryAsks ==
  ASSUME NEW address, NEW r \in HistoryQueries(address)
  PROVE  /\ LimitAsked(r) = DefaultLimit /\ DefaultLimit # NoLimit
         /\ \A row : Wanted(r, row) => row.user = ToLowerCase(address)
         /\ r.route # "activeLoans"
<1>1. ToLowerCase(ToLowerCase(address)) = ToLowerCase(address)
  BY DEF ToLowerCase
<1>2. /\ QueryFn("deposits", address) =
           [route |-> "deposits", value |-> ToLowerCase(address), limit |-> DefaultLimit]
      /\ QueryFn("withdrawals", address) =
           [route |-> "withdrawals", value |-> ToLowerCase(address), limit |-> DefaultLimit]
      /\ QueryFn("loans", address) =
           [route |-> "loans", value |-> ToLowerCase(address), limit |-> DefaultLimit]
      /\ QueryFn("repayments", address) =
           [route |-> "repayments", value |-> ToLowerCase(address), limit |-> DefaultLimit]
  BY DEF QueryFn, UseDeposits, UseLoans, IndexerAPIClient, Fetches
<1>3. /\ r.route \in HistoryKeys /\ r.value = ToLowerCase(address) /\ r.limit = DefaultLimit
  BY <1>2 DEF HistoryQueries, HistoryKeys
<1>4. DefaultLimit # NoLimit
  BY LimitsInOrder DEF NoLimit
<1>5. Controller(r.route).limit = "query"
  BY <1>3, Controllers DEF HistoryKeys, Route
<1>6. LimitAsked(r) = DefaultLimit
  BY <1>3, <1>5 DEF LimitAsked, None
<1>7. ASSUME NEW row, Wanted(r, row) PROVE row.user = ToLowerCase(address)
  <2>1. /\ r.route \notin {"eventsByBlock", "eventsByTransaction", "eventsByType", "events"}
    BY <1>3 DEF HistoryKeys
  <2>2. row.user = ToLowerCase(r.value)
    BY <1>7, <2>1 DEF Wanted
  <2>3. QED
    BY <1>1, <1>3, <2>2
<1>8. r.route # "activeLoans"
  BY <1>3 DEF HistoryKeys
<1>9. QED
  BY <1>4, <1>6, <1>7, <1>8

(* Cutting lists that are put together after each has been cut leaves out  *)
(* nothing that cutting them once would have shown.                        *)
LEMMA CutOnce ==
  ASSUME NEW all, IsFiniteSet(all), Timed(all), NEW n \in Nat, NEW m \in Nat, n <= m,
         NEW found \in SUBSET all, NEW row, row.time \in Nat,
         NEW shown \in NewestOf(all, n), row \notin shown,
         row \in all \/ (Cardinality(found) = m /\ \A other \in found : row.time <= other.time)
  PROVE  Cardinality(shown) = n /\ \A other \in shown : row.time <= other.time
<1>1. /\ shown \in SUBSET all
      /\ Cardinality(shown) = IF Cardinality(all) < n THEN Cardinality(all) ELSE n
      /\ \A r \in shown, other \in all \ shown : r.time >= other.time
  BY DEF NewestOf
<1>2. /\ IsFiniteSet(shown) /\ IsFiniteSet(found)
      /\ Cardinality(all) \in Nat /\ Cardinality(shown) \in Nat /\ Cardinality(found) \in Nat
      /\ Cardinality(found) <= Cardinality(all)
  BY <1>1, FS_Subset, FS_CardinalityType
<1>3. \A r \in shown : r.time \in Nat
  BY <1>1 DEF Timed
<1>4. CASE row \in all
  <2>1. Cardinality(shown) # Cardinality(all)
    BY <1>1, <1>4, FS_Subset
  <2>2. QED
    BY <1>1, <1>3, <1>4, <2>1
<1>5. CASE row \notin all
  <2>1. Cardinality(found) = m /\ \A other \in found : row.time <= other.time
    BY <1>5
  <2>2. Cardinality(shown) = n
    BY <1>1, <1>2, <2>1
  <2>3. CASE found \subseteq shown
    <3>1. found \in SUBSET shown /\ Cardinality(found) <= Cardinality(shown)
      BY <1>2, <2>3, FS_Subset
    <3>2. Cardinality(found) = Cardinality(shown)
      BY <1>2, <2>1, <2>2, <3>1
    <3>3. found = shown
      BY <1>2, <3>1, <3>2, FS_Subset
    <3>4. QED
      BY <2>1, <2>2, <3>3
  <2>4. CASE ~(found \subseteq shown)
    <3>1. PICK x \in found : x \in all \ shown
      BY <2>4
    <3>2. x.time \in Nat /\ row.time <= x.time /\ \A r \in shown : x.time <= r.time
      BY <1>1, <1>3, <2>1, <3>1 DEF Timed
    <3>3. QED
      BY <1>3, <2>2, <3>2
  <2>5. QED
    BY <2>3, <2>4
<1>6. QED
  BY <1>4, <1>5

LEMMA HistoryIfFlowing == FlowInv => HistoryIsLatest
<1> DEFINE known(lists) == UNION {{row \in jobs[AtGateway(r)].known : Wanted(r, row)} : r \in lists}
<1> SUFFICES ASSUME FlowInv, NEW q \in scene,
                    HistoryQueries(q.value) \subseteq scene,
                    \A r \in HistoryQueries(q.value) : Done(r, 200),
                    NEW shown \in History(HistoryQueries(q.value))
             PROVE  /\ Cardinality(shown) <= ShownRows
                    /\ \A row \in shown : row.user = ToLowerCase(q.value)
                    /\ Latest(shown, known(HistoryQueries(q.value)), ShownRows)
  BY DEF HistoryIsLatest
<1> DEFINE lists == HistoryQueries(q.value)
           found(r) == jobs[AtGateway(r)].found
           all == UNION {found(r) : r \in lists}
<1>1. ASSUME NEW r \in lists
      PROVE  /\ r \in scene /\ LimitAsked(r) = DefaultLimit /\ DefaultLimit # NoLimit
             /\ found(r) \in SUBSET rows /\ Received(r) = found(r)
             /\ \A row \in found(r) : row.user = ToLowerCase(q.value)
             /\ Latest(found(r), WantedOf(r, Known(r), closed), DefaultLimit)
             /\ r.route # "activeLoans"
  <2>1. r \in scene /\ Done(r, 200)
    OBVIOUS
  <2>2. /\ found(r) \in SUBSET rows /\ \A row \in found(r) : Wanted(r, row)
        /\ Latest(found(r), WantedOf(r, Known(r), closed), LimitAsked(r))
    BY <2>1, AnsweredWell
  <2>3. QED
    BY <2>1, <2>2, HistoryAsks DEF Received, Done
<1>2. shown \in NewestOf(all, ShownRows)
  <2>1. {Received(r) : r \in lists} = {found(r) : r \in lists}
    BY <1>1
  <2>2. QED
    BY <2>1 DEF History
<1>3. /\ all \in SUBSET rows /\ \A row \in all : row.user = ToLowerCase(q.value)
      /\ \A r \in lists : found(r) \in SUBSET all
  BY <1>1
<1>4. IsFiniteSet(all) /\ Timed(all) /\ Cardinality(all) \in Nat
  BY <1>3, RowsAreKnown, FS_Subset, FS_CardinalityType DEF Timed
<1>5. ShownRows \in Nat /\ DefaultLimit \in Nat /\ ShownRows <= DefaultLimit /\ ShownRows # NoLimit
  BY LimitsInOrder DEF NoLimit
<1> HIDE DEF all, found, lists
<1>6. shown \in SUBSET all /\ Cardinality(shown) <= ShownRows
  BY <1>2, <1>4, <1>5 DEF NewestOf
<1>7. ASSUME NEW row \in known(lists) \ shown
      PROVE  Cardinality(shown) = ShownRows /\ \A other \in shown : row.time <= other.time
  <2>1. PICK r \in lists : row \in WantedOf(r, Known(r), closed)
    BY <1>1 DEF WantedOf, Known, StillWanted
  <2>2. row \in rows /\ row.time \in Nat
    BY <1>1, <2>1, RowsAreKnown DEF FlowInv, RequestFits, WantedOf
  <2>3. row \in all \/ (/\ Cardinality(found(r)) = DefaultLimit
                        /\ \A other \in found(r) : row.time <= other.time)
    BY <1>1, <1>3, <2>1 DEF Latest
  <2>4. QED
    BY <1>2, <1>3, <1>4, <1>5, <1>7, <2>2, <2>3, CutOnce
<1>8. Latest(shown, known(lists), ShownRows)
  BY <1>5, <1>7 DEF Latest
<1>9. QED
  BY <1>3, <1>6, <1>8 DEF lists

LEMMA TransactionsUnlimited ==
  ASSUME NEW r, r.route = "eventsByTransaction" PROVE LimitAsked(r) = NoLimit
<1>1. Controller(r.route) = [param |-> "transactionHash", limit |-> None,
                             method |-> "getEventsByTransaction"]
  BY Controllers DEF Route
<1>2. QED
  BY <1>1 DEF LimitAsked

LEMMA FoundIfFlowing == FlowInv => TransactionFound
<1> SUFFICES ASSUME FlowInv, NEW r \in scene, r.route = "eventsByTransaction", Done(r, 200),
                    TransactionShown(r) = "not found",
                    NEW row \in jobs[AtGateway(r)].known, row.time = r.value
             PROVE  FALSE
  BY DEF TransactionFound
<1>1. jobs[AtGateway(r)].found = {}
  BY DEF TransactionShown, Loading, Received, Done
<1>2. LimitAsked(r) = NoLimit
  BY TransactionsUnlimited
<1>3. row.table \in Tables
  BY RowsAreKnown DEF FlowInv, RequestFits, Known
<1>4. Wanted(r, row)
  BY <1>3 DEF Wanted, TablesOf
<1>5. Latest({}, WantedOf(r, Known(r), closed), NoLimit)
  BY <1>1, <1>2, AnsweredWell
<1>6. QED
  BY <1>4, <1>5 DEF Latest, WantedOf, Known, StillWanted

(* An answer is for what was asked: rows of the wanted tables and account, *)
(* no more than the limit, and none left out that was there when the       *)
(* request arrived but for newer ones; of active loans, none that had been *)
(* closed by then, and none left out that is active still (the             *)
(* controllers, services and providers of the gateway, the indexer's       *)
(* queries and its handler of repayments, AxiosService's retries), for any *)
(* rows, limits and requests of the routes.                                *)
THEOREM AnswersStayCurrent == Spec => []AnswersAreCurrent
  BY CurrentIfFlowing, TraceInitHolds, FlowInitHolds, TraceStepHolds, FlowStepHolds, PTL DEF Spec

(* The history shows the latest rows of its lists, and a transaction is    *)
(* reported missing only when it had no event (TransactionHistory, the     *)
(* transaction page, APIClient).                                           *)
THEOREM PagesStayLatest == Spec => []PagesShowTheLatest
<1>1. FlowInv => PagesShowTheLatest
  BY HistoryIfFlowing, FoundIfFlowing DEF PagesShowTheLatest
<1>2. QED
  BY <1>1, TraceInitHolds, FlowInitHolds, TraceStepHolds, FlowStepHolds, PTL DEF Spec

(* What the gateway's DTOs accept the indexer's accept too, but for the    *)
(* liquidations, of which they accept nothing, for any address, limit and  *)
(* rows; the other errors have their reasons, and all are reported and     *)
(* counted once each (the DTOs of both controllers, the pipes and guards,  *)
(* AxiosService.handleError, HttpExceptionFilter.catch, SentryService,     *)
(* HttpMetricsInterceptor).                                                *)
THEOREM ErrorsStayExplained == Spec => []ErrorsExplained
  BY ErrorsIfFlowing, TraceInitHolds, FlowInitHolds, TraceStepHolds, FlowStepHolds, PTL DEF Spec

-----------------------------------------------------------------------------
(***************************************************************************)
(* What is logged of payloads (LogPayloads).  Both functions that walk a   *)
(* payload are unfolded along its nesting: for each there is one on the    *)
(* payloads nested less deeply than n, for every n.  Then what sanitize    *)
(* leaves is compared with what fits the preset level by level, from the   *)
(* deepest level up, and what redactObject leaves with the data node by    *)
(* node, from the top down along a path.                                   *)
(***************************************************************************)

(* What a payload is, kind by kind; its parts are nested less deeply.      *)
LEMMA PartsAreBelow ==
  ASSUME NEW value \in Payloads
  PROVE  /\ Nesting[value] \in 0..MaxNesting
         /\ value.kind \in {"text", "scalar", "bigint", "list", "object"}
         /\ value.kind = "text" => value \in [kind: {"text"}, length: Nat]
         /\ value.kind = "scalar" => value = Scalar
         /\ value.kind = "bigint" => value = BigNumber
         /\ value.kind = "list" =>
              /\ value = List(value.items)
              /\ value.items \in Seq(NestedBelow(Nesting[value]))
         /\ value.kind = "object" =>
              /\ value = Object(value.keys, value.values)
              /\ value.keys \in Seq(Keys)
              /\ value.values \in Seq(NestedBelow(Nesting[value]))
              /\ Len(value.keys) = Len(value.values)
<1>1. Nesting[value] \in 0..MaxNesting
  BY PayloadConstants
<1>2. value \in Json(NestedBelow(Nesting[value])) \cup {BigNumber}
  BY PayloadConstants
<1>3. QED
  BY <1>1, <1>2 DEF Json, Scalar, BigNumber, List, Object

(* The levels of nesting grow from none of the payloads to all of them.    *)
LEMMA LevelsGrow ==
  /\ NestedBelow(0) = {}
  /\ MaxNesting + 1 \in Nat /\ NestedBelow(MaxNesting + 1) = Payloads
  /\ \A n \in Nat : /\ NestedBelow(n) \subseteq NestedBelow(n + 1)
                    /\ \A value \in NestedBelow(n + 1) :
                         /\ value \in Payloads
                         /\ NestedBelow(Nesting[value]) \subseteq NestedBelow(n)
<1>1. MaxNesting \in Nat /\ \A value \in Payloads : Nesting[value] \in 0..MaxNesting
  BY PayloadConstants
<1>2. QED
  BY <1>1 DEF NestedBelow

(* sanitize sees of a function only what it makes of the parts.            *)
LEMMA SanitizeUsesParts ==
  ASSUME NEW value \in Payloads, NEW depth \in Nat, NEW preset \in Presets, NEW f, NEW g,
         \A part \in NestedBelow(Nesting[value]) : f[part] = g[part]
  PROVE  SanitizeValue(f, value, depth, preset) = SanitizeValue(g, value, depth, preset)
<1>1. ASSUME NEW values \in Seq(NestedBelow(Nesting[value])), NEW limit \in Nat
      PROVE  Kept(f, values, depth, limit) = Kept(g, values, depth, limit)
  <2>1. \A i \in Shown(limit, Len(values)) : values[i] \in NestedBelow(Nesting[value])
    BY DEF Shown
  <2>2. QED
    BY <2>1 DEF Kept
<1>2. preset.maxArrayItems \in Nat /\ preset.maxObjectKeys \in Nat
  BY DEF Presets
<1>3. CASE value.kind = "list"
  <2>1. Kept(f, value.items, depth, preset.maxArrayItems)
          = Kept(g, value.items, depth, preset.maxArrayItems)
    BY <1>1, <1>2, <1>3, PartsAreBelow
  <2>2. QED
    BY <1>3, <2>1 DEF SanitizeValue, SanitizeList
<1>4. CASE value.kind = "object"
  <2>1. Kept(f, value.values, depth, preset.maxObjectKeys)
          = Kept(g, value.values, depth, preset.maxObjectKeys)
    BY <1>1, <1>2, <1>4, PartsAreBelow
  <2>2. QED
    BY <1>4, <2>1 DEF SanitizeValue, SanitizeObject
<1>5. CASE value.kind \notin {"list", "object"}
  BY <1>5 DEF SanitizeValue
<1>6. QED
  BY <1>3, <1>4, <1>5

(* Step by step over the levels of nesting there is such a function.       *)
LEMMA SanitizeExists ==
  ASSUME NEW preset \in Presets
  PROVE  \E g : g = [value \in Payloads |->
                      [depth \in Nat |-> SanitizeValue(g, value, depth, preset)]]
<1> DEFINE Of(g, value) == [depth \in Nat |-> SanitizeValue(g, value, depth, preset)]
           IsUpTo(n, g) == g = [value \in NestedBelow(n) |-> Of(g, value)]
           P == {n \in Nat : \E g : IsUpTo(n, g)}
<1>1. 0 \in P
  <2>1. NestedBelow(0) = {}
    BY LevelsGrow
  <2>2. IsUpTo(0, [value \in {} |-> 0])
    BY <2>1
  <2>3. QED
    BY <2>2
<1>2. ASSUME NEW n \in P PROVE n + 1 \in P
  <2>1. PICK g : IsUpTo(n, g)
    BY <1>2
  <2> DEFINE h == [value \in NestedBelow(n + 1) |-> Of(g, value)]
  <2>2. ASSUME NEW value \in NestedBelow(n + 1) PROVE Of(g, value) = Of(h, value)
    <3>1. value \in Payloads /\ NestedBelow(Nesting[value]) \subseteq NestedBelow(n)
          /\ NestedBelow(n) \subseteq NestedBelow(n + 1)
      BY LevelsGrow
    <3>2. ASSUME NEW part \in NestedBelow(n) PROVE g[part] = h[part]
      <4>1. g[part] = Of(g, part)
        BY <2>1
      <4>2. h[part] = Of(g, part)
        BY <3>1
      <4>3. QED
        BY <4>1, <4>2
    <3> HIDE DEF h
    <3>3. \A depth \in Nat : SanitizeValue(g, value, depth, preset)
                              = SanitizeValue(h, value, depth, preset)
      BY <3>1, <3>2, SanitizeUsesParts
    <3>4. QED
      BY <3>3
  <2>3. IsUpTo(n + 1, h)
    BY <2>2
  <2> HIDE DEF h
  <2>4. QED
    BY <2>3
<1>3. P = Nat
  <2> HIDE DEF P
  <2>1. P \in SUBSET Nat
    BY DEF P
  <2>2. QED
    BY <1>1, <1>2, <2>1, CountsUp
<1>4. NestedBelow(MaxNesting + 1) = Payloads /\ MaxNesting + 1 \in Nat
  BY LevelsGrow
<1>5. QED
  BY <1>3, <1>4

(* So what sanitize makes of a payload is what it makes of it over what it *)
(* makes of the parts.                                                     *)
LEMMA SanitizeUnfolds ==
  ASSUME NEW preset \in Presets
  PROVE  \A value \in Payloads, depth \in Nat :
           Sanitize(preset)[value][depth] = SanitizeValue(Sanitize(preset), value, depth, preset)
<1> DEFINE Is(g) == g = [value \in Payloads |->
                           [depth \in Nat |-> SanitizeValue(g, value, depth, preset)]]
<1>1. \E g : Is(g)
  BY SanitizeExists
<1>2. Sanitize(preset) = CHOOSE g : Is(g)
  BY DEF Sanitize
<1>3. Is(Sanitize(preset))
  <2> HIDE DEF Is
  <2> QED
    BY <1>1, <1>2
<1>4. QED
  BY <1>3

-----------------------------------------------------------------------------

(* Values that fit a preset, level by level.                               *)
LEMMA FittingUnfolds ==
  ASSUME NEW preset \in Presets
  PROVE  /\ Fitting(preset)[0] = {}
         /\ \A m \in Nat : m < preset.maxDepth + 1 =>
              Fitting(preset)[m + 1] = FittingOver(Fitting(preset)[m], preset)
<1> DEFINE Step(m, last) == FittingOver(last, preset)
           Is(g, k) == g = [m \in 0..k |-> IF m = 0 THEN {} ELSE Step(m, g[m - 1])]
           P == {k \in Nat : \E g : Is(g, k)}
<1>1. preset.maxDepth + 1 \in Nat
  BY DEF Presets
<1>2. Fitting(preset) = CHOOSE g : Is(g, preset.maxDepth + 1)
  BY DEF Fitting
<1>3. \A m, last : Step(m, last) = FittingOver(last, preset)
  OBVIOUS
<1> HIDE DEF Step
<1>4. 0 \in P
  <2>1. Is([m \in 0..0 |-> {}], 0)
    OBVIOUS
  <2>2. QED
    BY <2>1
<1>5. ASSUME NEW k \in P PROVE k + 1 \in P
  <2>1. k \in Nat
    OBVIOUS
  <2>2. PICK g : Is(g, k)
    BY <1>5
  <2> DEFINE h == [m \in 0..k + 1 |-> IF m = k + 1 THEN Step(m, g[k]) ELSE g[m]]
  <2>3. h[k + 1] = Step(k + 1, h[k]) /\ \A m \in 0..k : h[m] = g[m] /\ m # k + 1
    <3>1. h[k + 1] = Step(k + 1, g[k]) /\ \A m \in 0..k : h[m] = g[m] /\ m # k + 1
      BY <2>1
    <3>2. QED
      BY <2>1, <3>1
  <2>4. ASSUME NEW m \in 0..k PROVE h[m] = IF m = 0 THEN {} ELSE Step(m, h[m - 1])
    <3>1. g[m] = IF m = 0 THEN {} ELSE Step(m, g[m - 1])
      BY <2>2
    <3>2. m # 0 => m - 1 \in 0..k
      BY <2>1
    <3> HIDE DEF h
    <3>3. QED
      BY <2>3, <3>1, <3>2
  <2>5. h = [m \in 0..k + 1 |-> h[m]]
    OBVIOUS
  <2> HIDE DEF h
  <2>6. ASSUME NEW m \in 0..k + 1 PROVE h[m] = IF m = 0 THEN {} ELSE Step(m, h[m - 1])
    <3>1. m \in 0..k \/ (m = k + 1 /\ m # 0 /\ m - 1 = k)
      BY <2>1
    <3>2. QED
      BY <2>3, <2>4, <3>1
  <2>7. Is(h, k + 1)
    BY <2>5, <2>6
  <2>8. k + 1 \in Nat /\ \E g1 : Is(g1, k + 1)
    BY <2>1, <2>7
  <2>9. QED
    BY <2>8
<1>6. \E g : Is(g, preset.maxDepth + 1)
  <2>1. preset.maxDepth + 1 \in P
    <3> HIDE DEF P
    <3>1. P \in SUBSET Nat
      BY DEF P
    <3>2. QED
      BY <1>1, <1>4, <1>5, <3>1, CountsUp
  <2>2. QED
    BY <2>1
<1>7. Is(Fitting(preset), preset.maxDepth + 1)
  <2> HIDE DEF Is
  <2> QED
    BY <1>2, <1>6
<1>8. ASSUME NEW m \in Nat, m < preset.maxDepth + 1
      PROVE  Fitting(preset)[m + 1] = Step(m + 1, Fitting(preset)[m])
  <2>1. m + 1 \in 0..preset.maxDepth + 1 /\ m + 1 # 0 /\ (m + 1) - 1 = m
    BY <1>1, <1>8
  <2>2. QED
    BY <1>7, <2>1
<1>9. Fitting(preset)[0] = {}
  BY <1>1, <1>7
<1>10. QED
  BY <1>3, <1>8, <1>9

(* Values without a big number inside, level by level.                     *)
LEMMA CopyableUnfolds ==
  ASSUME NEW levels \in Nat
  PROVE  /\ Copyable(levels)[0] = {}
         /\ \A m \in Nat : m < levels =>
              Copyable(levels)[m + 1] = Json(Copyable(levels)[m]) \cup {Stars, LastDigits}
<1> DEFINE Step(m, last) == Json(last) \cup {Stars, LastDigits}
           Is(g, k) == g = [m \in 0..k |-> IF m = 0 THEN {} ELSE Step(m, g[m - 1])]
           P == {k \in Nat : \E g : Is(g, k)}
<1>1. levels \in Nat
  OBVIOUS
<1>2. Copyable(levels) = CHOOSE g : Is(g, levels)
  BY DEF Copyable
<1>3. \A m, last : Step(m, last) = Json(last) \cup {Stars, LastDigits}
  OBVIOUS
<1> HIDE DEF Step
<1>4. 0 \in P
  <2>1. Is([m \in 0..0 |-> {}], 0)
    OBVIOUS
  <2>2. QED
    BY <2>1
<1>5. ASSUME NEW k \in P PROVE k + 1 \in P
  <2>1. k \in Nat
    OBVIOUS
  <2>2. PICK g : Is(g, k)
    BY <1>5
  <2> DEFINE h == [m \in 0..k + 1 |-> IF m = k + 1 THEN Step(m, g[k]) ELSE g[m]]
  <2>3. h[k + 1] = Step(k + 1, h[k]) /\ \A m \in 0..k : h[m] = g[m] /\ m # k + 1
    <3>1. h[k + 1] = Step(k + 1, g[k]) /\ \A m \in 0..k : h[m] = g[m] /\ m # k + 1
      BY <2>1
    <3>2. QED
      BY <2>1, <3>1
  <2>4. ASSUME NEW m \in 0..k PROVE h[m] = IF m = 0 THEN {} ELSE Step(m, h[m - 1])
    <3>1. g[m] = IF m = 0 THEN {} ELSE Step(m, g[m - 1])
      BY <2>2
    <3>2. m # 0 => m - 1 \in 0..k
      BY <2>1
    <3> HIDE DEF h
    <3>3. QED
      BY <2>3, <3>1, <3>2
  <2>5. h = [m \in 0..k + 1 |-> h[m]]
    OBVIOUS
  <2> HIDE DEF h
  <2>6. ASSUME NEW m \in 0..k + 1 PROVE h[m] = IF m = 0 THEN {} ELSE Step(m, h[m - 1])
    <3>1. m \in 0..k \/ (m = k + 1 /\ m # 0 /\ m - 1 = k)
      BY <2>1
    <3>2. QED
      BY <2>3, <2>4, <3>1
  <2>7. Is(h, k + 1)
    BY <2>5, <2>6
  <2>8. k + 1 \in Nat /\ \E g1 : Is(g1, k + 1)
    BY <2>1, <2>7
  <2>9. QED
    BY <2>8
<1>6. \E g : Is(g, levels)
  <2>1. levels \in P
    <3> HIDE DEF P
    <3>1. P \in SUBSET Nat
      BY DEF P
    <3>2. QED
      BY <1>1, <1>4, <1>5, <3>1, CountsUp
  <2>2. QED
    BY <2>1
<1>7. Is(Copyable(levels), levels)
  <2> HIDE DEF Is
  <2> QED
    BY <1>2, <1>6
<1>8. ASSUME NEW m \in Nat, m < levels
      PROVE  Copyable(levels)[m + 1] = Step(m + 1, Copyable(levels)[m])
  <2>1. m + 1 \in 0..levels /\ m + 1 # 0 /\ (m + 1) - 1 = m
    BY <1>1, <1>8
  <2>2. QED
    BY <1>7, <2>1
<1>9. Copyable(levels)[0] = {}
  BY <1>1, <1>7
<1>10. QED
  BY <1>3, <1>8, <1>9

(* What one passes on a path, step by step.                                *)
LEMMA TrailUnfolds ==
  ASSUME NEW value, NEW path \in Seq(Nat)
  PROVE  /\ Trail(value, path)[0] = value
         /\ \A m \in Nat : m < Len(path) =>
              Trail(value, path)[m + 1] = Children(Trail(value, path)[m])[path[m + 1]]
<1> DEFINE Step(m, last) == Children(last)[path[m]]
           Is(g, k) == g = [m \in 0..k |-> IF m = 0 THEN value ELSE Step(m, g[m - 1])]
           P == {k \in Nat : \E g : Is(g, k)}
<1>1. Len(path) \in Nat
  OBVIOUS
<1>2. Trail(value, path) = CHOOSE g : Is(g, Len(path))
  BY DEF Trail
<1>3. \A m, last : Step(m, last) = Children(last)[path[m]]
  OBVIOUS
<1> HIDE DEF Step
<1>4. 0 \in P
  <2>1. Is([m \in 0..0 |-> value], 0)
    OBVIOUS
  <2>2. QED
    BY <2>1
<1>5. ASSUME NEW k \in P PROVE k + 1 \in P
  <2>1. k \in Nat
    OBVIOUS
  <2>2. PICK g : Is(g, k)
    BY <1>5
  <2> DEFINE h == [m \in 0..k + 1 |-> IF m = k + 1 THEN Step(m, g[k]) ELSE g[m]]
  <2>3. h[k + 1] = Step(k + 1, h[k]) /\ \A m \in 0..k : h[m] = g[m] /\ m # k + 1
    <3>1. h[k + 1] = Step(k + 1, g[k]) /\ \A m \in 0..k : h[m] = g[m] /\ m # k + 1
      BY <2>1
    <3>2. QED
      BY <2>1, <3>1
  <2>4. ASSUME NEW m \in 0..k PROVE h[m] = IF m = 0 THEN value ELSE Step(m, h[m - 1])
    <3>1. g[m] = IF m = 0 THEN value ELSE Step(m, g[m - 1])
      BY <2>2
    <3>2. m # 0 => m - 1 \in 0..k
      BY <2>1
    <3> HIDE DEF h
    <3>3. QED
      BY <2>3, <3>1, <3>2
  <2>5. h = [m \in 0..k + 1 |-> h[m]]
    OBVIOUS
  <2> HIDE DEF h
  <2>6. ASSUME NEW m \in 0..k + 1 PROVE h[m] = IF m = 0 THEN value ELSE Step(m, h[m - 1])
    <3>1. m \in 0..k \/ (m = k + 1 /\ m # 0 /\ m - 1 = k)
      BY <2>1
    <3>2. QED
      BY <2>3, <2>4, <3>1
  <2>7. Is(h, k + 1)
    BY <2>5, <2>6
  <2>8. k + 1 \in Nat /\ \E g1 : Is(g1, k + 1)
    BY <2>1, <2>7
  <2>9. QED
    BY <2>8
<1>6. \E g : Is(g, Len(path))
  <2>1. Len(path) \in P
    <3> HIDE DEF P
    <3>1. P \in SUBSET Nat
      BY DEF P
    <3>2. QED
      BY <1>1, <1>4, <1>5, <3>1, CountsUp
  <2>2. QED
    BY <2>1
<1>7. Is(Trail(value, path), Len(path))
  <2> HIDE DEF Is
  <2> QED
    BY <1>2, <1>6
<1>8. ASSUME NEW m \in Nat, m < Len(path)
      PROVE  Trail(value, path)[m + 1] = Step(m + 1, Trail(value, path)[m])
  <2>1. m + 1 \in 0..Len(path) /\ m + 1 # 0 /\ (m + 1) - 1 = m
    BY <1>1, <1>8
  <2>2. QED
    BY <1>7, <2>1
<1>9. Trail(value, path)[0] = value
  BY <1>1, <1>7
<1>10. QED
  BY <1>3, <1>8, <1>9

-----------------------------------------------------------------------------
(* What is in Json(Parts), kind by kind.                                   *)
LEMMA JsonCases ==
  ASSUME NEW Parts, NEW value
  PROVE  /\ value \in Json(Parts) => value.kind \in {"text", "scalar", "list", "object"}
         /\ value = BigNumber => value.kind = "bigint"
         /\ value \in Shortened => value.kind \in {"cut text", "marker"}
         /\ value \in {Stars, LastDigits} => value.kind = "stars"
         /\ value \in Json(Parts) /\ value.kind = "list" =>
              value = List(value.items) /\ value.items \in Seq(Parts)
         /\ value \in Json(Parts) /\ value.kind = "object" =>
              /\ value = Object(value.keys, value.values)
              /\ value.keys \in Seq(Keys)
              /\ value.values \in Seq(Parts)
              /\ Len(value.keys) = Len(value.values)
<1>1. value \in Json(Parts) => value.kind \in {"text", "scalar", "list", "object"}
  BY DEF Json, Scalar
<1>2. value \in Json(Parts) /\ value.kind = "list" =>
        value = List(value.items) /\ value.items \in Seq(Parts)
  BY DEF Json, Scalar, List
<1>3. value \in Json(Parts) /\ value.kind = "object" =>
        /\ value = Object(value.keys, value.values)
        /\ value.keys \in Seq(Keys)
        /\ value.values \in Seq(Parts)
        /\ Len(value.keys) = Len(value.values)
  BY DEF Json, Scalar, Object
<1>4. value = BigNumber => value.kind = "bigint"
  BY DEF BigNumber
<1>5. value \in Shortened => value.kind \in {"cut text", "marker"}
  <2>1. \A what : Marker(what).kind = "marker"
    BY DEF Marker
  <2>2. QED
    BY <2>1 DEF Shortened
<1>6. value \in {Stars, LastDigits} => value.kind = "stars"
  BY DEF Stars, LastDigits
<1>7. QED
  BY <1>1, <1>2, <1>3, <1>4, <1>5, <1>6

(* A list of such parts is a JSON value.                                   *)
LEMMA JsonLists ==
  ASSUME NEW Parts, NEW items \in Seq(Parts)
  PROVE  List(items) \in Json(Parts) /\ List(items).kind = "list" /\ List(items).items = items
  BY DEF Json, List

(* So is an object with keys for them.                                     *)
LEMMA JsonObjects ==
  ASSUME NEW Parts, NEW keys \in Seq(Keys), NEW values \in Seq(Parts), Len(keys) = Len(values)
  PROVE  /\ Object(keys, values) \in Json(Parts)
         /\ Object(keys, values).kind = "object"
         /\ Object(keys, values).keys = keys
         /\ Object(keys, values).values = values
  BY DEF Json, Object

(* A function on 1..n is a sequence of n elements.                         *)
LEMMA FunctionsAreLists ==
  ASSUME NEW S, NEW n \in Nat, NEW f, f = [i \in 1..n |-> f[i]], \A i \in 1..n : f[i] \in S
  PROVE  f \in Seq(S) /\ Len(f) = n
<1>1. f \in [1..n -> S]
  BY Zenon
<1>2. QED
  BY <1>1

(* What sanitize makes of the parts, a level further down: Marked, and the *)
(* part itself exactly when that is in Own.                                *)
PartsFit(f, depth, Own, Marked) ==
  \A part \in Payloads : /\ f[part][depth] \in Marked
                         /\ part \in Own <=> f[part][depth] = part

(* What is kept of the parts: the first ones, up to the limit, sanitized.  *)
UpTo(limit, n) == IF n > limit THEN limit ELSE n
FirstSanitized(f, values, depth, limit, Marked) ==
  LET kept == Kept(f, values, depth, limit)
  IN /\ kept \in Seq(Marked)
     /\ Len(kept) = UpTo(limit, Len(values))
     /\ \A i \in 1..UpTo(limit, Len(values)) : kept[i] = f[values[i]][depth + 1]

LEMMA KeptParts ==
  ASSUME NEW values \in Seq(Payloads), NEW depth \in Nat, NEW limit \in Nat,
         NEW f, NEW Own, NEW Marked, PartsFit(f, depth + 1, Own, Marked)
  PROVE  FirstSanitized(f, values, depth, limit, Marked)
<1> DEFINE kept == Kept(f, values, depth, limit)
           n == UpTo(limit, Len(values))
<1>1. n \in Nat /\ n <= Len(values)
  BY DEF UpTo
<1>2. kept = [i \in 1..n |-> f[values[i]][depth + 1]]
  BY DEF Kept, Shown, UpTo
<1> HIDE DEF n
<1>3. \A i \in 1..n : f[values[i]][depth + 1] \in Marked
  <2>1. \A i \in 1..n : values[i] \in Payloads
    BY <1>1
  <2>2. QED
    BY <2>1 DEF PartsFit
<1>4. /\ kept = [i \in 1..n |-> kept[i]]
      /\ \A i \in 1..n : kept[i] = f[values[i]][depth + 1] /\ kept[i] \in Marked
  BY <1>2, <1>3
<1> HIDE DEF kept
<1>5. kept \in Seq(Marked) /\ Len(kept) = n
  BY <1>1, <1>4, FunctionsAreLists
<1>6. QED
  BY <1>1, <1>4, <1>5 DEF FirstSanitized, kept, n

(* One more element, which is shown to be there instead of the rest.       *)
LEMMA OneMore ==
  ASSUME NEW S, NEW s \in Seq(S), NEW x \in S
  PROVE  /\ Append(s, x) \in Seq(S)
         /\ Len(Append(s, x)) = Len(s) + 1
         /\ Append(s, x)[Len(s) + 1] = x
         /\ \A i \in 1..Len(s) : Append(s, x)[i] = s[i]
  OBVIOUS

-----------------------------------------------------------------------------
(* Two lists are the same if their elements are.                           *)
LEMMA ListsAgree ==
  ASSUME NEW S, NEW T, NEW s \in Seq(S), NEW t \in Seq(T), Len(s) = Len(t)
  PROVE  s = t <=> \A i \in 1..Len(t) : s[i] = t[i]
  OBVIOUS

(* A list over a set is one over any larger set.                           *)
LEMMA ListsOver ==
  ASSUME NEW S, NEW T, NEW s \in Seq(S)
  PROVE  s \in Seq(T) <=> \A i \in 1..Len(s) : s[i] \in T
  OBVIOUS

(* The parts that are shown, with a marker instead of those that are not:  *)
(* one element more than the limit at most, and the parts themselves       *)
(* exactly when all of them fit.                                           *)
LEMMA PartsShown ==
  ASSUME NEW values \in Seq(Payloads), NEW depth \in Nat, NEW limit \in Nat,
         NEW f, NEW Own, NEW Marked, PartsFit(f, depth + 1, Own, Marked),
         NEW more \in Marked, more \notin Payloads
  PROVE  LET kept == Kept(f, values, depth, limit)
             shown == IF Len(values) > limit THEN Append(kept, more) ELSE kept
         IN /\ shown \in Seq(Marked)
            /\ Len(shown) = IF Len(values) > limit THEN limit + 1 ELSE Len(values)
            /\ Len(shown) <= limit + 1
            /\ shown = values <=> values \in Seq(Own) /\ Len(values) <= limit
<1> DEFINE kept == Kept(f, values, depth, limit)
           shown == IF Len(values) > limit THEN Append(kept, more) ELSE kept
           n == UpTo(limit, Len(values))
<1>1. /\ kept \in Seq(Marked) /\ Len(kept) = n
      /\ \A i \in 1..n : kept[i] = f[values[i]][depth + 1]
  <2>1. FirstSanitized(f, values, depth, limit, Marked)
    BY KeptParts
  <2>2. QED
    BY <2>1 DEF FirstSanitized
<1> HIDE DEF kept
<1>2. CASE Len(values) > limit
  <2>1. /\ Append(kept, more) \in Seq(Marked)
        /\ Len(Append(kept, more)) = limit + 1
        /\ Append(kept, more)[limit + 1] = more
    BY <1>1, <1>2, OneMore DEF UpTo
  <2>2. shown = Append(kept, more)
    BY <1>2
  <2>3. limit + 1 \in 1..Len(values)
    BY <1>2
  <2>4. values[limit + 1] \in Payloads
    BY <2>3
  <2>5. shown # values
    <3>1. shown[limit + 1] # values[limit + 1]
      BY <2>1, <2>2, <2>4
    <3>2. QED
      BY <3>1
  <2>6. ~ (Len(values) <= limit) /\ Len(shown) = limit + 1
        /\ Len(shown) <= limit + 1
    BY <1>2, <2>1, <2>2
  <2>7. QED
    BY <2>1, <2>2, <2>5, <2>6 DEF kept
<1>3. CASE ~ (Len(values) > limit)
  <2>1. n = Len(values) /\ shown = kept /\ Len(values) <= limit
    BY <1>3 DEF UpTo
  <2>2. Len(kept) = Len(values) /\ Len(shown) = Len(values) /\ Len(shown) <= limit + 1
    BY <1>1, <2>1
  <2>3. kept = values <=> \A i \in 1..Len(values) : kept[i] = values[i]
    BY <1>1, <2>2, ListsAgree
  <2>4. values \in Seq(Own) <=> \A i \in 1..Len(values) : values[i] \in Own
    BY ListsOver
  <2>5. \A i \in 1..Len(values) : kept[i] = values[i] <=> values[i] \in Own
    <3>1. \A i \in 1..Len(values) : values[i] \in Payloads /\ kept[i] = f[values[i]][depth + 1]
      BY <1>1, <2>1
    <3>2. QED
      BY <3>1 DEF PartsFit
  <2>6. kept = values <=> values \in Seq(Own)
    BY <2>3, <2>4, <2>5
  <2>7. QED
    BY <1>1, <2>1, <2>2, <2>6 DEF kept
<1>4. QED
  BY <1>2, <1>3

(* No payload has a marker in it to begin with.                            *)
LEMMA MarkersAreNoPayloads ==
  ASSUME NEW what
  PROVE  Marker(what) \notin Payloads
<1>1. Marker(what).kind = "marker"
  BY DEF Marker
<1>2. QED
  BY <1>1, PartsAreBelow

(* One level of sanitize: if what it makes of the parts fits one more      *)
(* level, and is the part itself exactly when the part fits, then so it is *)
(* for the whole.  First what fits, kind by kind.                          *)
LEMMA FittingKinds ==
  ASSUME NEW Parts, NEW preset \in Presets
  PROVE  /\ \A items \in Seq(Parts) :
              Len(items) <= preset.maxArrayItems => List(items) \in FittingOver(Parts, preset)
         /\ \A keys \in Seq(Keys), values \in Seq(Parts) :
              Len(keys) = Len(values) /\ Len(keys) <= preset.maxObjectKeys =>
                Object(keys, values) \in FittingOver(Parts, preset)
         /\ \A what \in {"max depth reached", "more items", "more keys"} :
              Marker(what) \in FittingOver(Parts, preset)
         /\ \A length \in Nat : length <= preset.maxStringLength =>
              /\ Text(length) \in FittingOver(Parts, preset)
              /\ [kind |-> "cut text", length |-> length] \in FittingOver(Parts, preset)
         /\ {Scalar, BigNumber} \subseteq FittingOver(Parts, preset)
<1>1. ASSUME NEW items \in Seq(Parts), Len(items) <= preset.maxArrayItems
      PROVE  List(items) \in FittingOver(Parts, preset)
  <2>1. List(items) \in Json(Parts) /\ List(items).kind = "list" /\ List(items).items = items
    BY JsonLists
  <2>2. QED
    BY <1>1, <2>1 DEF FittingOver, Within
<1>2. ASSUME NEW keys \in Seq(Keys), NEW values \in Seq(Parts), Len(keys) = Len(values),
             Len(keys) <= preset.maxObjectKeys
      PROVE  Object(keys, values) \in FittingOver(Parts, preset)
  <2>1. /\ Object(keys, values) \in Json(Parts)
        /\ Object(keys, values).kind = "object"
        /\ Object(keys, values).keys = keys
    BY <1>2, JsonObjects
  <2>2. QED
    BY <1>2, <2>1 DEF FittingOver, Within
<1>3. ASSUME NEW what \in {"max depth reached", "more items", "more keys"}
      PROVE  Marker(what) \in FittingOver(Parts, preset)
  BY DEF FittingOver, Within, Shortened, Marker
<1>4. ASSUME NEW length \in Nat, length <= preset.maxStringLength
      PROVE  /\ Text(length) \in FittingOver(Parts, preset)
             /\ [kind |-> "cut text", length |-> length] \in FittingOver(Parts, preset)
  <2>1. Text(length) \in Json(Parts) /\ Within(Text(length), preset)
    BY <1>4 DEF Json, Text, Within
  <2>2. /\ [kind |-> "cut text", length |-> length] \in Shortened
        /\ Within([kind |-> "cut text", length |-> length], preset)
    BY <1>4 DEF Shortened, Within
  <2>3. QED
    BY <2>1, <2>2 DEF FittingOver
<1>5. {Scalar, BigNumber} \subseteq FittingOver(Parts, preset)
  <2>1. Scalar \in Json(Parts) /\ Scalar.kind = "scalar" /\ BigNumber.kind = "bigint"
    BY DEF Json, Scalar, BigNumber
  <2>2. QED
    BY <2>1 DEF FittingOver, Within
<1>6. QED
  BY <1>1, <1>2, <1>3, <1>4, <1>5

(* And what that says of a payload.                                        *)
LEMMA FittingPayloads ==
  ASSUME NEW Parts, NEW preset \in Presets, NEW value \in Payloads
  PROVE  /\ value.kind = "text" =>
              (value \in FittingOver(Parts, preset) <=> value.length <= preset.maxStringLength)
         /\ value.kind \in {"scalar", "bigint"} => value \in FittingOver(Parts, preset)
         /\ value.kind = "list" =>
              (value \in FittingOver(Parts, preset) <=>
                 value.items \in Seq(Parts) /\ Len(value.items) <= preset.maxArrayItems)
         /\ value.kind = "object" =>
              (value \in FittingOver(Parts, preset) <=>
                 value.values \in Seq(Parts) /\ Len(value.values) <= preset.maxObjectKeys)
<1>1. value \in FittingOver(Parts, preset) =>
        /\ Within(value, preset)
        /\ value \in Json(Parts) \/ value.kind \in {"bigint", "cut text", "marker"}
  BY JsonCases DEF FittingOver
<1>2. CASE value.kind = "text"
  <2>1. value = Text(value.length) /\ value.length \in Nat
    BY <1>2, PartsAreBelow DEF Text
  <2>2. Within(value, preset) => value.length <= preset.maxStringLength
    BY <1>2 DEF Within
  <2>3. value.length <= preset.maxStringLength => value \in FittingOver(Parts, preset)
    BY <2>1, FittingKinds
  <2>4. QED
    BY <1>1, <1>2, <2>2, <2>3
<1>3. CASE value.kind \in {"scalar", "bigint"}
  <2>1. value \in {Scalar, BigNumber}
    BY <1>3, PartsAreBelow
  <2>2. {Scalar, BigNumber} \subseteq FittingOver(Parts, preset)
    BY FittingKinds
  <2>3. QED
    BY <1>3, <2>1, <2>2
<1>4. CASE value.kind = "list"
  <2>1. value = List(value.items)
    BY <1>4, PartsAreBelow
  <2>2. value \in Json(Parts) => value.items \in Seq(Parts)
    BY <1>4, JsonCases
  <2>3. Within(value, preset) => Len(value.items) <= preset.maxArrayItems
    BY <1>4 DEF Within
  <2> DEFINE items == value.items
  <2> HIDE DEF items
  <2>4. items \in Seq(Parts) /\ Len(items) <= preset.maxArrayItems =>
          List(items) \in FittingOver(Parts, preset)
    BY FittingKinds
  <2>5. QED
    BY <1>1, <1>4, <2>1, <2>2, <2>3, <2>4 DEF items
<1>5. CASE value.kind = "object"
  <2>1. /\ value = Object(value.keys, value.values)
        /\ value.keys \in Seq(Keys) /\ Len(value.keys) = Len(value.values)
    BY <1>5, PartsAreBelow
  <2>2. value \in Json(Parts) => value.values \in Seq(Parts)
    BY <1>5, JsonCases
  <2>3. Within(value, preset) => Len(value.keys) <= preset.maxObjectKeys
    BY <1>5 DEF Within
  <2> DEFINE keys == value.keys
             values == value.values
  <2>4. keys \in Seq(Keys) /\ Len(keys) = Len(values) /\ value = Object(keys, values)
    BY <2>1
  <2> HIDE DEF keys, values
  <2>5. values \in Seq(Parts) /\ Len(values) <= preset.maxObjectKeys =>
          Object(keys, values) \in FittingOver(Parts, preset)
    BY <2>4, FittingKinds
  <2>6. QED
    BY <1>1, <1>5, <2>1, <2>2, <2>3, <2>4, <2>5 DEF keys, values
<1>6. QED
  BY <1>2, <1>3, <1>4, <1>5, PartsAreBelow

(* A preset with room for markers is a preset.                             *)
LEMMA PresetsWithMarkers ==
  ASSUME NEW preset \in Presets
  PROVE  /\ WithMarkers(preset) \in Presets
         /\ WithMarkers(preset).maxDepth = preset.maxDepth + 1
         /\ WithMarkers(preset).maxArrayItems = preset.maxArrayItems + 1
         /\ WithMarkers(preset).maxObjectKeys = preset.maxObjectKeys + 1
         /\ WithMarkers(preset).maxStringLength = preset.maxStringLength
         /\ preset.maxDepth \in Nat /\ preset.maxArrayItems \in Nat
         /\ preset.maxObjectKeys \in Nat /\ preset.maxStringLength \in Nat
  BY DEF Presets, WithMarkers

(* The parts of a payload are payloads.                                    *)
LEMMA PartsArePayloads ==
  ASSUME NEW value \in Payloads
  PROVE  /\ value.kind = "list" =>
              value = List(value.items) /\ value.items \in Seq(Payloads)
         /\ value.kind = "object" =>
              /\ value = Object(value.keys, value.values)
              /\ value.keys \in Seq(Keys) /\ value.values \in Seq(Payloads)
              /\ Len(value.keys) = Len(value.values)
<1>1. NestedBelow(Nesting[value]) \subseteq Payloads
  BY DEF NestedBelow
<1> DEFINE inner == NestedBelow(Nesting[value])
<1> HIDE DEF inner
<1>2. \A s \in Seq(inner) : s \in Seq(Payloads)
  BY <1>1 DEF inner
<1>3. value.kind = "list" => value = List(value.items) /\ value.items \in Seq(inner)
  BY PartsAreBelow DEF inner
<1>4. value.kind = "object" =>
        /\ value = Object(value.keys, value.values)
        /\ value.keys \in Seq(Keys) /\ value.values \in Seq(inner)
        /\ Len(value.keys) = Len(value.values)
  BY PartsAreBelow DEF inner
<1>5. QED
  BY <1>2, <1>3, <1>4

(* Room for what stands for the parts that are not shown.                  *)
AllMarkers ==
  {Marker("max depth reached"), Marker("more items"), Marker("more keys")}
HasMarkers(Marked) == AllMarkers \subseteq Marked

(* What is logged of a list, over what is logged of its items.             *)
LEMMA ListLevel ==
  ASSUME NEW value \in Payloads, value.kind = "list",
         NEW preset \in Presets, NEW depth \in Nat, NEW f, NEW Own, NEW Marked,
         PartsFit(f, depth + 1, Own, Marked), HasMarkers(Marked)
  PROVE  LET s == SanitizeList(f, value.items, depth, preset.maxArrayItems)
         IN /\ s \in FittingOver(Marked, WithMarkers(preset))
            /\ value \in FittingOver(Own, preset) <=> s = value
<1> DEFINE items == value.items
           limit == preset.maxArrayItems
           kept == Kept(f, items, depth, limit)
           more == Marker("more items")
           shown == IF Len(items) > limit THEN Append(kept, more) ELSE kept
<1>1. items \in Seq(Payloads) /\ value = List(items)
  BY PartsArePayloads
<1>2. limit \in Nat /\ WithMarkers(preset).maxArrayItems = limit + 1
      /\ WithMarkers(preset) \in Presets
  BY PresetsWithMarkers
<1>3. SanitizeList(f, items, depth, limit) = List(shown)
  BY DEF SanitizeList
<1>4. value \in FittingOver(Own, preset) <=> items \in Seq(Own) /\ Len(items) <= limit
  BY FittingPayloads
<1>5. more \in Marked /\ more \notin Payloads
  BY MarkersAreNoPayloads DEF HasMarkers, AllMarkers
<1> HIDE DEF items, limit, more
<1>6. /\ shown \in Seq(Marked)
      /\ Len(shown) <= limit + 1
      /\ shown = items <=> items \in Seq(Own) /\ Len(items) <= limit
  BY <1>1, <1>2, <1>5, PartsShown
<1> HIDE DEF kept, shown
<1>7. List(shown) \in FittingOver(Marked, WithMarkers(preset))
  BY <1>2, <1>6, FittingKinds
<1>8. List(shown) = List(items) <=> shown = items
  BY DEF List
<1>9. QED
  BY <1>1, <1>3, <1>4, <1>6, <1>7, <1>8 DEF items, limit

(* The keys that are shown; "__truncated" stands for the others.           *)
LEMMA KeysShown ==
  ASSUME NEW keys \in Seq(Keys), NEW limit \in Nat
  PROVE  LET kept == [i \in 1..UpTo(limit, Len(keys)) |-> keys[i]]
             shown == IF Len(keys) > limit THEN Append(kept, "__truncated") ELSE kept
         IN /\ shown \in Seq(Keys)
            /\ Len(shown) = IF Len(keys) > limit THEN limit + 1 ELSE Len(keys)
            /\ Len(keys) <= limit => shown = keys
<1> DEFINE n == UpTo(limit, Len(keys))
           kept == [i \in 1..n |-> keys[i]]
           last == "__truncated"
           shown == IF Len(keys) > limit THEN Append(kept, last) ELSE kept
<1>1. n \in Nat /\ n <= Len(keys)
  BY DEF UpTo
<1>2. kept = [i \in 1..n |-> kept[i]] /\ \A i \in 1..n : kept[i] = keys[i]
  OBVIOUS
<1>3. last \in Keys
  BY DEF Keys
<1>4. n = IF Len(keys) > limit THEN limit ELSE Len(keys)
  BY DEF UpTo
<1> HIDE DEF n, kept, last
<1>5. kept \in Seq(Keys) /\ Len(kept) = n
  <2>1. \A i \in 1..n : kept[i] \in Keys
    BY <1>1, <1>2
  <2>2. QED
    BY <1>1, <1>2, <2>1, FunctionsAreLists
<1>6. Append(kept, last) \in Seq(Keys) /\ Len(Append(kept, last)) = n + 1
  BY <1>3, <1>5, OneMore
<1>7. Len(keys) <= limit => kept = keys
  <2>1. Len(keys) <= limit => n = Len(keys)
    BY <1>4
  <2>2. QED
    BY <1>2, <1>5, <2>1, ListsAgree
<1>8. Len(keys) \in Nat
  OBVIOUS
<1>9. CASE Len(keys) > limit
  <2>1. shown = Append(kept, last) /\ n = limit /\ ~ (Len(keys) <= limit)
    BY <1>4, <1>8, <1>9
  <2>2. shown \in Seq(Keys) /\ Len(shown) = limit + 1
    BY <1>6, <2>1
  <2>3. QED
    BY <1>9, <2>1, <2>2 DEF n, kept, last
<1>10. CASE ~ (Len(keys) > limit)
  <2>1. shown = kept /\ n = Len(keys) /\ Len(keys) <= limit
    BY <1>4, <1>8, <1>10
  <2>2. shown \in Seq(Keys) /\ Len(shown) = Len(keys) /\ shown = keys
    BY <1>5, <1>7, <2>1
  <2>3. QED
    BY <1>10, <2>2 DEF n, kept, last
<1>11. QED
  BY <1>9, <1>10

(* What is logged of an object, over what is logged of its values.         *)
LEMMA ObjectLevel ==
  ASSUME NEW value \in Payloads, value.kind = "object",
         NEW preset \in Presets, NEW depth \in Nat, NEW f, NEW Own, NEW Marked,
         PartsFit(f, depth + 1, Own, Marked), HasMarkers(Marked)
  PROVE  LET s == SanitizeObject(f, value, depth, preset.maxObjectKeys)
         IN /\ s \in FittingOver(Marked, WithMarkers(preset))
            /\ value \in FittingOver(Own, preset) <=> s = value
<1> DEFINE values == value.values
           keys == value.keys
           limit == preset.maxObjectKeys
           kept == Kept(f, values, depth, limit)
           keptKeys == [i \in 1..UpTo(limit, Len(keys)) |-> keys[i]]
           more == Marker("more keys")
           shown == IF Len(values) > limit THEN Append(kept, more) ELSE kept
           shownKeys == IF Len(keys) > limit THEN Append(keptKeys, "__truncated") ELSE keptKeys
<1>1. /\ values \in Seq(Payloads) /\ value = Object(keys, values)
      /\ keys \in Seq(Keys) /\ Len(keys) = Len(values)
  BY PartsArePayloads
<1>2. limit \in Nat /\ WithMarkers(preset).maxObjectKeys = limit + 1
      /\ WithMarkers(preset) \in Presets
  BY PresetsWithMarkers
<1>3. SanitizeObject(f, value, depth, limit)
        = IF Len(keys) > limit
          THEN Object(Append([i \in DOMAIN kept |-> keys[i]], "__truncated"), Append(kept, more))
          ELSE Object([i \in DOMAIN kept |-> keys[i]], kept)
  BY DEF SanitizeObject
<1>4. value \in FittingOver(Own, preset) <=> values \in Seq(Own) /\ Len(values) <= limit
  BY FittingPayloads
<1>5. more \in Marked /\ more \notin Payloads
  BY MarkersAreNoPayloads DEF HasMarkers, AllMarkers
<1> HIDE DEF values, keys, limit, more
<1>6. /\ shown \in Seq(Marked)
      /\ Len(shown) = IF Len(values) > limit THEN limit + 1 ELSE Len(values)
      /\ Len(shown) <= limit + 1
      /\ shown = values <=> values \in Seq(Own) /\ Len(values) <= limit
  BY <1>1, <1>2, <1>5, PartsShown
<1>7. /\ shownKeys \in Seq(Keys)
      /\ Len(shownKeys) = IF Len(keys) > limit THEN limit + 1 ELSE Len(keys)
      /\ Len(keys) <= limit => shownKeys = keys
  BY <1>1, <1>2, KeysShown
<1>8. SanitizeObject(f, value, depth, limit) = Object(shownKeys, shown)
  <2>1. DOMAIN kept = 1..UpTo(limit, Len(values))
    BY DEF Kept, Shown, UpTo
  <2> HIDE DEF kept
  <2>2. [i \in DOMAIN kept |-> keys[i]] = keptKeys
    BY <1>1, <2>1
  <2>3. QED
    BY <1>1, <1>3, <2>2
<1> HIDE DEF kept, keptKeys, shown, shownKeys
<1>9. Len(shownKeys) = Len(shown) /\ Len(shownKeys) <= limit + 1
  BY <1>1, <1>6, <1>7
<1>10. Object(shownKeys, shown) \in FittingOver(Marked, WithMarkers(preset))
  BY <1>2, <1>6, <1>7, <1>9, FittingKinds
<1>11. Object(shownKeys, shown) = Object(keys, values) <=> shownKeys = keys /\ shown = values
  BY DEF Object
<1>12. QED
  BY <1>1, <1>4, <1>6, <1>7, <1>8, <1>10, <1>11 DEF limit

(* What is logged of any payload that is not too deep down.                *)
LEMMA ValueLevel ==
  ASSUME NEW value \in Payloads,
         NEW preset \in Presets, NEW depth \in Nat, depth <= preset.maxDepth,
         NEW f, NEW Own, NEW Marked,
         PartsFit(f, depth + 1, Own, Marked), HasMarkers(Marked)
  PROVE  LET s == SanitizeValue(f, value, depth, preset)
         IN /\ s \in FittingOver(Marked, WithMarkers(preset))
            /\ value \in FittingOver(Own, preset) <=> s = value
<1> DEFINE s == SanitizeValue(f, value, depth, preset)
<1>1. ~ (depth > preset.maxDepth) /\ preset.maxStringLength \in Nat
      /\ WithMarkers(preset) \in Presets
      /\ WithMarkers(preset).maxStringLength = preset.maxStringLength
  BY PresetsWithMarkers
<1>2. CASE value.kind = "text"
  <2>1. value = Text(value.length) /\ value.length \in Nat
    BY <1>2, PartsAreBelow DEF Text
  <2>2. s = IF value.length > preset.maxStringLength
            THEN [kind |-> "cut text", length |-> preset.maxStringLength] ELSE value
    BY <1>1, <1>2 DEF SanitizeValue
  <2>3. value \in FittingOver(Own, preset) <=> value.length <= preset.maxStringLength
    BY <1>2, FittingPayloads
  <2>4. CASE value.length > preset.maxStringLength
    <3> DEFINE max == preset.maxStringLength
               cut == [kind |-> "cut text", length |-> max]
    <3>1. s = cut
      BY <2>2, <2>4
    <3>2. cut \in FittingOver(Marked, WithMarkers(preset))
      <4>1. max \in Nat /\ max <= WithMarkers(preset).maxStringLength
        BY <1>1
      <4> HIDE DEF max
      <4>2. QED
        BY <1>1, <4>1, FittingKinds
    <3>3. s # value
      <4>1. cut.kind = "cut text"
        OBVIOUS
      <4> HIDE DEF cut
      <4>2. cut # value
        BY <1>2, <4>1
      <4>3. QED
        BY <3>1, <4>2
    <3>4. ~ (value.length <= preset.maxStringLength)
      BY <1>1, <2>1, <2>4
    <3>5. QED
      BY <2>3, <3>1, <3>2, <3>3, <3>4
  <2>5. CASE ~ (value.length > preset.maxStringLength)
    <3>1. s = value
      BY <2>2, <2>5
    <3>2. value.length <= preset.maxStringLength
      BY <1>1, <2>1, <2>5
    <3>3. value \in FittingOver(Marked, WithMarkers(preset))
      BY <1>1, <2>1, <3>2, FittingKinds
    <3>4. QED
      BY <2>3, <3>1, <3>2, <3>3
  <2>6. QED
    BY <2>4, <2>5
<1>3. CASE value.kind = "list"
  <2>1. s = SanitizeList(f, value.items, depth, preset.maxArrayItems)
    BY <1>1, <1>3 DEF SanitizeValue
  <2>2. QED
    BY <1>3, <2>1, ListLevel
<1>4. CASE value.kind = "object"
  <2>1. s = SanitizeObject(f, value, depth, preset.maxObjectKeys)
    BY <1>1, <1>4 DEF SanitizeValue
  <2>2. QED
    BY <1>4, <2>1, ObjectLevel
<1>5. CASE value.kind \in {"scalar", "bigint"}
  <2>1. s = value
    BY <1>1, <1>5 DEF SanitizeValue
  <2>2. value \in {Scalar, BigNumber}
    BY <1>5, PartsAreBelow
  <2>3. value \in FittingOver(Own, preset) /\ value \in FittingOver(Marked, WithMarkers(preset))
    BY <1>1, <2>2, FittingKinds
  <2>4. QED
    BY <2>1, <2>3
<1>6. QED
  BY <1>2, <1>3, <1>4, <1>5, PartsAreBelow

(* Level by level, from the deepest: at depth maxDepth + 1 everything is   *)
(* replaced and nothing fits.                                              *)
LEMMA LevelsFit ==
  ASSUME NEW preset \in Presets, NEW left \in Nat, left <= preset.maxDepth + 1
  PROVE  PartsFit(Sanitize(preset), preset.maxDepth + 1 - left,
                  Fitting(preset)[left], Fitting(WithMarkers(preset))[left + 1])
<1> DEFINE max == preset.maxDepth
           f == Sanitize(preset)
           Own(l) == Fitting(preset)[l]
           Marked(l) == Fitting(WithMarkers(preset))[l]
           P == {l \in Nat : l <= max + 1 => PartsFit(f, max + 1 - l, Own(l), Marked(l + 1))}
<1>1. max \in Nat /\ WithMarkers(preset) \in Presets /\ WithMarkers(preset).maxDepth = max + 1
  BY PresetsWithMarkers
<1>2. Own(0) = {} /\ \A l \in Nat : l <= max => Own(l + 1) = FittingOver(Own(l), preset)
  <2>1. \A l \in Nat : l <= max <=> l < max + 1
    BY <1>1
  <2>2. QED
    BY <2>1, FittingUnfolds
<1>3. \A l \in Nat : l <= max + 1 => Marked(l + 1) = FittingOver(Marked(l), WithMarkers(preset))
  <2> DEFINE wider == WithMarkers(preset)
  <2> HIDE DEF wider
  <2>1. wider \in Presets /\ wider.maxDepth = max + 1
    BY <1>1 DEF wider
  <2>2. \A l \in Nat : l < wider.maxDepth + 1 =>
          Fitting(wider)[l + 1] = FittingOver(Fitting(wider)[l], wider)
    BY <2>1, FittingUnfolds
  <2>3. \A l \in Nat : l <= max + 1 <=> l < wider.maxDepth + 1
    BY <1>1, <2>1
  <2>4. QED
    BY <2>2, <2>3 DEF wider
<1>4. \A value \in Payloads, depth \in Nat : f[value][depth] = SanitizeValue(f, value, depth, preset)
  BY SanitizeUnfolds
<1> HIDE DEF max, f, Own, Marked
<1>5. \A l \in Nat : l <= max + 1 => HasMarkers(Marked(l + 1))
  <2>1. \A Parts : HasMarkers(FittingOver(Parts, WithMarkers(preset)))
    BY <1>1, FittingKinds DEF HasMarkers, AllMarkers
  <2>2. QED
    BY <1>3, <2>1
<1>6. 0 \in P
  <2>1. ASSUME NEW part \in Payloads
        PROVE  f[part][max + 1] \in Marked(1) /\ (part \in Own(0) <=> f[part][max + 1] = part)
    <3>1. max + 1 \in Nat /\ max + 1 > preset.maxDepth
      BY <1>1 DEF max
    <3>2. f[part][max + 1] = Marker("max depth reached")
      BY <1>4, <3>1 DEF SanitizeValue
    <3>3. Marker("max depth reached") \in Marked(1)
      <4>1. HasMarkers(Marked(1))
        <5>1. 0 \in Nat /\ 0 <= max + 1 /\ 0 + 1 = 1
          BY <1>1
        <5>2. QED
          BY <1>5, <5>1
      <4>2. QED
        BY <4>1 DEF HasMarkers, AllMarkers
    <3>4. Marker("max depth reached") \notin Payloads
      BY MarkersAreNoPayloads
    <3>5. QED
      BY <1>2, <3>2, <3>3, <3>4
  <2>2. max + 1 - 0 = max + 1 /\ 0 + 1 = 1
    BY <1>1
  <2>3. PartsFit(f, max + 1, Own(0), Marked(1))
    BY <2>1 DEF PartsFit
  <2>4. QED
    BY <2>2, <2>3
<1>7. ASSUME NEW l \in P PROVE l + 1 \in P
  <2> SUFFICES ASSUME l + 1 <= max + 1
               PROVE  PartsFit(f, max + 1 - (l + 1), Own(l + 1), Marked(l + 1 + 1))
    OBVIOUS
  <2> DEFINE depth == max - l
  <2>1. /\ l \in Nat /\ l <= max /\ l <= max + 1 /\ l + 1 <= max + 1 /\ l + 1 \in Nat
        /\ depth \in Nat /\ depth <= max
        /\ max + 1 - (l + 1) = depth /\ max + 1 - l = depth + 1
    BY <1>1
  <2>2. PartsFit(f, depth + 1, Own(l), Marked(l + 1))
    BY <1>7, <2>1
  <2>3. HasMarkers(Marked(l + 1))
    BY <1>5, <2>1
  <2> HIDE DEF depth
  <2>4. ASSUME NEW part \in Payloads
        PROVE  /\ f[part][depth] \in FittingOver(Marked(l + 1), WithMarkers(preset))
               /\ part \in FittingOver(Own(l), preset) <=> f[part][depth] = part
    <3>1. f[part][depth] = SanitizeValue(f, part, depth, preset)
      BY <1>4, <2>1
    <3>2. depth <= preset.maxDepth
      BY <2>1 DEF max
    <3> DEFINE OwnParts == Own(l)
               MarkedParts == Marked(l + 1)
    <3>3. PartsFit(f, depth + 1, OwnParts, MarkedParts) /\ HasMarkers(MarkedParts) /\ depth \in Nat
      BY <2>1, <2>2, <2>3
    <3> HIDE DEF OwnParts, MarkedParts
    <3>4. /\ SanitizeValue(f, part, depth, preset) \in FittingOver(MarkedParts, WithMarkers(preset))
          /\ part \in FittingOver(OwnParts, preset) <=> SanitizeValue(f, part, depth, preset) = part
      BY <3>2, <3>3, ValueLevel
    <3>5. QED
      BY <3>1, <3>4 DEF OwnParts, MarkedParts
  <2>5. /\ Own(l + 1) = FittingOver(Own(l), preset)
        /\ Marked(l + 1 + 1) = FittingOver(Marked(l + 1), WithMarkers(preset))
    BY <1>2, <1>3, <2>1
  <2>6. PartsFit(f, depth, Own(l + 1), Marked(l + 1 + 1))
    BY <2>4, <2>5 DEF PartsFit
  <2>7. QED
    BY <2>1, <2>6
<1>8. P = Nat
  <2> HIDE DEF P
  <2>1. P \in SUBSET Nat
    BY DEF P
  <2>2. QED
    BY <1>6, <1>7, <2>1, CountsUp
<1>9. QED
  <2>1. left \in P
    BY <1>8
  <2>2. QED
    BY <2>1 DEF max, f, Own, Marked

(* So a whole payload fits the preset exactly when it is logged as it is,  *)
(* and what is logged of it fits the preset with markers.                  *)
LEMMA SanitizedFits ==
  ASSUME NEW preset \in Presets, NEW value \in Payloads
  PROVE  /\ FitsPreset(value, preset) <=> SanitizeHttpLogPayload(value, preset) = value
         /\ FitsPreset(SanitizeHttpLogPayload(value, preset), WithMarkers(preset))
<1> DEFINE left == preset.maxDepth + 1
<1>1. left \in Nat /\ left <= preset.maxDepth + 1 /\ preset.maxDepth + 1 - left = 0
      /\ WithMarkers(preset).maxDepth + 1 = left + 1
  BY PresetsWithMarkers
<1>2. PartsFit(Sanitize(preset), 0, Fitting(preset)[left], Fitting(WithMarkers(preset))[left + 1])
  <2>1. PartsFit(Sanitize(preset), preset.maxDepth + 1 - left,
                 Fitting(preset)[left], Fitting(WithMarkers(preset))[left + 1])
    <3> HIDE DEF left
    <3> QED
      BY <1>1, LevelsFit
  <2>2. QED
    BY <1>1, <2>1
<1> HIDE DEF left
<1>3. QED
  BY <1>1, <1>2 DEF PartsFit, FitsPreset, SanitizeHttpLogPayload, left

(* What a line of the interceptor holds.                                   *)
LinesSanitized ==
  /\ payload \in Payloads
  /\ entry.by \in DOMAIN PresetOf =>
       entry.holds \in {Omitted, SanitizeHttpLogPayload(payload, PresetOf[entry.by])}

(* It is what sanitize makes of the payload, and no line changes that.     *)
LEMMA LinesAreSanitized == LogSpec => []LinesSanitized
<1>1. LogInit => LinesSanitized
  BY PayloadConstants DEF LogInit, LinesSanitized, NoLine, PresetOf
<1>2. LinesSanitized /\ [LogNext]_logVars => LinesSanitized'
  <2> SUFFICES ASSUME LinesSanitized, [LogNext]_logVars PROVE LinesSanitized'
    OBVIOUS
  <2> USE DEF LinesSanitized, PresetOf
  <2>1. CASE LogRequestBody
    BY <2>1 DEF LogRequestBody
  <2>2. CASE LogRequestQuery
    BY <2>2 DEF LogRequestQuery
  <2>3. CASE LogErrorDetails
    BY <2>3 DEF LogErrorDetails
  <2>4. CASE LogData
    <3>1. payload' = payload
      BY <2>4 DEF LogData, SafeClone
    <3>2. entry'.by = "data"
      BY <2>4 DEF LogData
    <3>3. QED
      BY <3>1, <3>2
  <2>5. CASE UNCHANGED logVars
    BY <2>5 DEF logVars
  <2>6. QED
    BY <2>1, <2>2, <2>3, <2>4, <2>5 DEF LogNext
<1>3. QED
  BY <1>1, <1>2, PTL DEF LogSpec

(* LinesFit: what the interceptor writes of a body, a query or an error is *)
(* the whole of it exactly when it fits the preset, and never more than    *)
(* the preset and its markers, for every payload and every preset          *)
(* (sanitizeHttpLogPayload).                                               *)
THEOREM LoggedLinesFit == LogSpec => []LinesFit
<1>1. LinesSanitized => LinesFit
  <2> SUFFICES ASSUME LinesSanitized, entry.by \in DOMAIN PresetOf, entry.holds # Omitted
               PROVE  LET preset == PresetOf[entry.by]
                      IN /\ FitsPreset(payload, preset) <=> entry.holds = payload
                         /\ FitsPreset(entry.holds, WithMarkers(preset))
    BY DEF LinesFit
  <2> DEFINE preset == PresetOf[entry.by]
  <2>1. preset \in Presets
    BY PayloadConstants DEF PresetOf
  <2>2. payload \in Payloads /\ entry.holds = SanitizeHttpLogPayload(payload, preset)
    BY DEF LinesSanitized
  <2> HIDE DEF preset
  <2>3. /\ FitsPreset(payload, preset) <=> entry.holds = payload
        /\ FitsPreset(entry.holds, WithMarkers(preset))
    BY <2>1, <2>2, SanitizedFits
  <2>4. QED
    BY <2>3 DEF preset
<1>2. QED
  BY <1>1, LinesAreSanitized, PTL

-----------------------------------------------------------------------------
(* redactObject: what it makes of all payloads.                            *)
Redacted == CHOOSE g : g = [part \in Payloads |-> RedactValue(g, part)]

(* It sees of a function only what that makes of the parts.                *)
LEMMA RedactUsesParts ==
  ASSUME NEW value \in Payloads, NEW f, NEW g,
         \A part \in NestedBelow(Nesting[value]) : f[part] = g[part]
  PROVE  RedactValue(f, value) = RedactValue(g, value)
<1>1. CASE value.kind = "list"
  <2>1. \A i \in DOMAIN value.items : value.items[i] \in NestedBelow(Nesting[value])
    BY <1>1, PartsAreBelow
  <2>2. QED
    BY <1>1, <2>1 DEF RedactValue
<1>2. CASE value.kind = "object"
  <2>1. \A i \in DOMAIN value.values : value.values[i] \in NestedBelow(Nesting[value])
    BY <1>2, PartsAreBelow
  <2>2. RedactKeys(f, value) = RedactKeys(g, value)
    BY <2>1 DEF RedactKeys
  <2>3. QED
    BY <1>2, <2>2 DEF RedactValue
<1>3. CASE value.kind \notin {"list", "object"}
  BY <1>3 DEF RedactValue
<1>4. QED
  BY <1>1, <1>2, <1>3

(* So there is one, and redactObject unfolds.                              *)
LEMMA RedactUnfolds ==
  /\ \A value : RedactObject(value) = Redacted[value]
  /\ \A value \in Payloads : Redacted[value] = RedactValue(Redacted, value)
<1> DEFINE IsUpTo(n, g) == g = [value \in NestedBelow(n) |-> RedactValue(g, value)]
           Is(g) == g = [part \in Payloads |-> RedactValue(g, part)]
           P == {n \in Nat : \E g : IsUpTo(n, g)}
<1>1. 0 \in P
  <2>1. NestedBelow(0) = {}
    BY LevelsGrow
  <2>2. IsUpTo(0, [value \in {} |-> 0])
    BY <2>1
  <2>3. QED
    BY <2>2
<1>2. ASSUME NEW n \in P PROVE n + 1 \in P
  <2>1. PICK g : IsUpTo(n, g)
    BY <1>2
  <2> DEFINE h == [value \in NestedBelow(n + 1) |-> RedactValue(g, value)]
  <2>2. ASSUME NEW value \in NestedBelow(n + 1) PROVE RedactValue(g, value) = RedactValue(h, value)
    <3>1. value \in Payloads /\ NestedBelow(Nesting[value]) \subseteq NestedBelow(n)
          /\ NestedBelow(n) \subseteq NestedBelow(n + 1)
      BY LevelsGrow
    <3>2. ASSUME NEW part \in NestedBelow(n) PROVE g[part] = h[part]
      <4>1. g[part] = RedactValue(g, part)
        BY <2>1
      <4>2. h[part] = RedactValue(g, part)
        BY <3>1
      <4>3. QED
        BY <4>1, <4>2
    <3> HIDE DEF h
    <3>3. QED
      BY <3>1, <3>2, RedactUsesParts
  <2>3. IsUpTo(n + 1, h)
    BY <2>2
  <2> HIDE DEF h
  <2>4. QED
    BY <2>3
<1>3. P = Nat
  <2> HIDE DEF P
  <2>1. P \in SUBSET Nat
    BY DEF P
  <2>2. QED
    BY <1>1, <1>2, <2>1, CountsUp
<1>4. \E g : Is(g)
  BY <1>3, LevelsGrow
<1>5. Redacted = CHOOSE g : Is(g)
  BY DEF Redacted
<1>6. Is(Redacted)
  <2> HIDE DEF Is
  <2> QED
    BY <1>4, <1>5
<1>7. \A value : RedactObject(value) = Redacted[value]
  BY DEF RedactObject, Redacted
<1>8. QED
  BY <1>6, <1>7

(* What it makes of one of them, kind by kind.                             *)
LEMMA RedactedKinds ==
  ASSUME NEW value \in Payloads
  PROVE  /\ value.kind = "list" =>
              Redacted[value] = List([i \in 1..Len(value.items) |-> Redacted[value.items[i]]])
         /\ value.kind = "object" =>
              /\ Redacted[value] = Object(value.keys, RedactKeys(Redacted, value))
              /\ RedactKeys(Redacted, value) =
                   [i \in 1..Len(value.values) |->
                      IF IsSensitive(value.keys[i]) /\ value.values[i].kind = "text"
                      THEN RedactionHandler(value.keys[i], value.values[i])
                      ELSE Redacted[value.values[i]]]
         /\ value.kind \notin {"list", "object"} => Redacted[value] = value
<1>1. Redacted[value] = RedactValue(Redacted, value)
  BY RedactUnfolds
<1>2. CASE value.kind = "list"
  <2>1. DOMAIN value.items = 1..Len(value.items)
    BY <1>2, PartsArePayloads
  <2>2. QED
    BY <1>1, <1>2, <2>1 DEF RedactValue
<1>3. CASE value.kind = "object"
  <2>1. DOMAIN value.values = 1..Len(value.values)
    BY <1>3, PartsArePayloads
  <2>2. QED
    BY <1>1, <1>3, <2>1 DEF RedactValue, RedactKeys
<1>4. CASE value.kind \notin {"list", "object"}
  BY <1>1, <1>4 DEF RedactValue
<1>5. QED
  BY <1>2, <1>3, <1>4

(* A copy can be redacted and still be written.                            *)
LEMMA RedactedIsCopyable ==
  ASSUME NEW value \in Payloads, Serializable(value)
  PROVE  Serializable(Redacted[value])
<1> DEFINE top == MaxNesting + 1
           C(n) == Copyable(top)[n]
           P == {n \in Nat : n <= top =>
                   \A v \in Payloads : v \in C(n) => Redacted[v] \in C(n)}
<1>1. top \in Nat
  BY PayloadConstants
<1>2. C(0) = {} /\ \A n \in Nat : n < top => C(n + 1) = Json(C(n)) \cup {Stars, LastDigits}
  <2> HIDE DEF top
  <2> QED
    BY <1>1, CopyableUnfolds
<1> HIDE DEF C
<1>3. 0 \in P
  BY <1>2
<1>4. ASSUME NEW n \in P PROVE n + 1 \in P
  <2> SUFFICES ASSUME n + 1 <= top, NEW v \in Payloads, v \in C(n + 1)
               PROVE  Redacted[v] \in C(n + 1)
    OBVIOUS
  <2> HIDE DEF top
  <2>1. n \in Nat /\ n < top /\ n <= top
    BY <1>1
  <2> DEFINE Parts == C(n)
  <2>2. C(n + 1) = Json(Parts) \cup {Stars, LastDigits}
    BY <1>2, <2>1
  <2>3. \A part \in Payloads : part \in Parts => Redacted[part] \in Parts
    BY <1>4, <2>1
  <2> HIDE DEF Parts, P
  <2>4. v \in Json(Parts)
    BY <2>2, JsonCases, PartsAreBelow
  <2>5. CASE v.kind = "list"
    <3> DEFINE items == v.items
               shown == [i \in 1..Len(items) |-> Redacted[items[i]]]
    <3>1. items \in Seq(Parts) /\ items \in Seq(Payloads)
      BY <2>4, <2>5, JsonCases, PartsArePayloads
    <3>2. Redacted[v] = List(shown)
      BY <2>5, RedactedKinds
    <3> HIDE DEF items
    <3>3. \A i \in 1..Len(items) : Redacted[items[i]] \in Parts
      BY <2>3, <3>1
    <3>4. shown \in Seq(Parts)
      BY <3>1, <3>3
    <3> HIDE DEF shown
    <3>5. List(shown) \in Json(Parts)
      BY <3>4, JsonLists
    <3>6. QED
      BY <2>2, <3>2, <3>5
  <2>6. CASE v.kind = "object"
    <3> DEFINE keys == v.keys
               values == v.values
               shown == RedactKeys(Redacted, v)
    <3>1. values \in Seq(Parts) /\ values \in Seq(Payloads) /\ keys \in Seq(Keys)
          /\ Len(keys) = Len(values)
      BY <2>4, <2>6, JsonCases, PartsArePayloads
    <3>2. Redacted[v] = Object(keys, shown)
      BY <2>6, RedactedKinds
    <3>3. shown = [i \in 1..Len(values) |->
                     IF IsSensitive(keys[i]) /\ values[i].kind = "text"
                     THEN RedactionHandler(keys[i], values[i]) ELSE Redacted[values[i]]]
      BY <2>6, RedactedKinds
    <3> HIDE DEF keys, values, shown
    <3>4. \A i \in 1..Len(values) : Redacted[values[i]] \in Parts
      BY <2>3, <3>1
    <3>5. \A key, text : RedactionHandler(key, text) \in {Stars, LastDigits}
      BY DEF RedactionHandler, CardNumberRedacted
    <3>6. ASSUME NEW i \in 1..Len(values), values[i].kind = "text"
          PROVE  {Stars, LastDigits} \subseteq Parts
      <4>1. values[i] \in Parts
        BY <3>1
      <4>2. n # 0
        BY <1>2, <4>1 DEF Parts
      <4>3. n - 1 \in Nat /\ n - 1 < top /\ (n - 1) + 1 = n
        BY <1>1, <2>1, <4>2
      <4>4. C(n) = Json(C(n - 1)) \cup {Stars, LastDigits}
        BY <1>2, <4>3
      <4>5. QED
        BY <4>4 DEF Parts
    <3>7. \A i \in 1..Len(values) : shown[i] \in Parts
      BY <3>3, <3>4, <3>5, <3>6
    <3>8. shown \in Seq(Parts) /\ Len(shown) = Len(values)
      <4>1. Len(values) \in Nat /\ shown = [i \in 1..Len(values) |-> shown[i]]
        BY <3>1, <3>3
      <4>2. QED
        BY <3>7, <4>1
    <3>9. Object(keys, shown) \in Json(Parts)
      BY <3>1, <3>8, JsonObjects
    <3>10. QED
      BY <2>2, <3>2, <3>9
  <2>7. CASE v.kind \notin {"list", "object"}
    BY <2>7, RedactedKinds
  <2>8. QED
    BY <2>5, <2>6, <2>7
<1>5. P = Nat
  <2> HIDE DEF P
  <2>1. P \in SUBSET Nat
    BY DEF P
  <2>2. QED
    BY <1>3, <1>4, <2>1, CountsUp
<1>6. top \in P
  BY <1>1, <1>5
<1> HIDE DEF top
<1>7. top <= top
  BY <1>1
<1>8. \A v \in Payloads : v \in C(top) => Redacted[v] \in C(top)
  BY <1>6, <1>7
<1>9. QED
  BY <1>8 DEF Serializable, C, top

(* What the redacted data shows of a value in the data, and of its parts.  *)
LEMMA NodesShown ==
  ASSUME NEW own \in Payloads
  PROVE  /\ SameNode(own, Redacted[own])
         /\ \A i \in DOMAIN Children(own) :
              /\ Children(own)[i] \in Payloads
              /\ i \in DOMAIN Children(Redacted[own])
              /\ Children(Redacted[own])[i] =
                   IF IsSecret(Children(own)[i], own, i)
                   THEN RedactionHandler(own.keys[i], Children(own)[i])
                   ELSE Redacted[Children(own)[i]]
<1>1. CASE own.kind = "list"
  <2> DEFINE items == own.items
             shown == [i \in 1..Len(items) |-> Redacted[items[i]]]
  <2>1. items \in Seq(Payloads)
    BY <1>1, PartsArePayloads
  <2>2. Redacted[own] = List(shown)
    BY <1>1, RedactedKinds
  <2>3. List(shown).kind = "list" /\ List(shown).items = shown
    BY DEF List
  <2>4. Children(own) = items
    BY <1>1 DEF Children
  <2>5. Children(List(shown)) = shown
    <3> HIDE DEF shown
    <3> QED
      BY <2>3 DEF Children
  <2>6. \A part, i : ~IsSecret(part, own, i)
    BY <1>1 DEF IsSecret
  <2> HIDE DEF items
  <2>7. DOMAIN items = 1..Len(items) /\ DOMAIN shown = 1..Len(items) /\ Len(shown) = Len(items)
        /\ \A i \in 1..Len(items) : items[i] \in Payloads /\ shown[i] = Redacted[items[i]]
    BY <2>1
  <2> HIDE DEF shown
  <2>8. SameNode(own, Redacted[own])
    BY <1>1, <2>2, <2>3, <2>7 DEF SameNode, items
  <2>9. QED
    BY <2>2, <2>4, <2>5, <2>6, <2>7, <2>8
<1>2. CASE own.kind = "object"
  <2> DEFINE keys == own.keys
             values == own.values
             shown == RedactKeys(Redacted, own)
  <2>1. values \in Seq(Payloads)
    BY <1>2, PartsArePayloads
  <2>2. Redacted[own] = Object(keys, shown)
    BY <1>2, RedactedKinds
  <2>3. shown = [i \in 1..Len(values) |->
                   IF IsSensitive(keys[i]) /\ values[i].kind = "text"
                   THEN RedactionHandler(keys[i], values[i]) ELSE Redacted[values[i]]]
    BY <1>2, RedactedKinds
  <2> HIDE DEF shown
  <2>4. /\ Object(keys, shown).kind = "object" /\ Object(keys, shown).keys = keys
        /\ Object(keys, shown).values = shown
    BY DEF Object
  <2>5. Children(own) = values
    BY <1>2 DEF Children
  <2>6. Children(Object(keys, shown)) = shown
    BY <2>4 DEF Children
  <2>7. \A part, i : IsSecret(part, own, i) <=> IsSensitive(keys[i]) /\ part.kind = "text"
    BY <1>2 DEF IsSecret
  <2> HIDE DEF values
  <2>8. DOMAIN values = 1..Len(values) /\ DOMAIN shown = 1..Len(values)
        /\ Len(values) \in Nat
        /\ \A i \in 1..Len(values) : values[i] \in Payloads
    BY <2>1, <2>3
  <2>9. Len(shown) = Len(values)
    BY <2>3, <2>8
  <2>10. SameNode(own, Redacted[own])
    BY <1>2, <2>2, <2>4, <2>9 DEF SameNode, values
  <2>11. \A i \in 1..Len(values) :
            shown[i] = IF IsSecret(values[i], own, i)
                       THEN RedactionHandler(keys[i], values[i]) ELSE Redacted[values[i]]
    BY <2>3, <2>7
  <2>12. QED
    BY <2>2, <2>5, <2>6, <2>8, <2>10, <2>11
<1>3. CASE own.kind \notin {"list", "object"}
  <2>1. Redacted[own] = own
    BY <1>3, RedactedKinds
  <2>2. Children(own) = <<>>
    BY <1>3 DEF Children
  <2>3. SameNode(own, own)
    BY <1>3 DEF SameNode
  <2>4. DOMAIN Children(own) = {}
    BY <2>2
  <2>5. QED
    BY <2>1, <2>3, <2>4
<1>4. QED
  BY <1>1, <1>2, <1>3

(* A redacted text has no parts.                                           *)
LEMMA SecretsAreLeaves ==
  ASSUME NEW part, NEW parent, NEW i, IsSecret(part, parent, i)
  PROVE  DOMAIN Children(part) = {}
<1>1. part.kind = "text"
  BY DEF IsSecret
<1>2. Children(part) = <<>>
  BY <1>1 DEF Children
<1>3. QED
  BY <1>2

(* So the redacted data has the same parts all the way down, but for the   *)
(* texts that are redacted.                                                *)
LEMMA PathsShown ==
  ASSUME NEW data \in Payloads, NEW path \in Seq(Nat), LeadsInto(path, data)
  PROVE  LeadsInto(path, Redacted[data]) /\ ShownAt(path, data, Redacted[data])
<1> DEFINE own == Trail(data, path)
           shown == Trail(Redacted[data], path)
           Secret(m) == m > 0 /\ IsSecret(own[m], own[m - 1], path[m])
           Alike(m) == /\ own[m] \in Payloads
                       /\ shown[m] = IF Secret(m)
                                     THEN RedactionHandler(own[m - 1].keys[path[m]], own[m])
                                     ELSE Redacted[own[m]]
           P == {m \in Nat : m <= Len(path) => Alike(m)}
<1>1. own[0] = data /\ shown[0] = Redacted[data]
  BY TrailUnfolds
<1>2. \A m \in Nat : m < Len(path) =>
        own[m + 1] = Children(own[m])[path[m + 1]] /\ shown[m + 1] = Children(shown[m])[path[m + 1]]
  BY TrailUnfolds
<1>3. Len(path) \in Nat
  OBVIOUS
<1>4. \A m \in Nat : m < Len(path) => path[m + 1] \in DOMAIN Children(own[m])
  <2> SUFFICES ASSUME NEW m \in Nat, m < Len(path) PROVE path[m + 1] \in DOMAIN Children(own[m])
    OBVIOUS
  <2> HIDE DEF own
  <2>1. m + 1 \in 1..Len(path) /\ (m + 1) - 1 = m
    BY <1>3
  <2>2. \A n \in 1..Len(path) : path[n] \in DOMAIN Children(own[n - 1])
    BY DEF LeadsInto, own
  <2>3. path[m + 1] \in DOMAIN Children(own[(m + 1) - 1])
    BY <2>1, <2>2
  <2>4. QED
    BY <2>1, <2>3
<1> HIDE DEF own, shown
<1>5. 0 \in P
  BY <1>1
<1>6. ASSUME NEW m \in Nat, m < Len(path), Alike(m)
      PROVE  path[m + 1] \in DOMAIN Children(shown[m]) /\ Alike(m + 1)
  <2>1. path[m + 1] \in DOMAIN Children(own[m])
    BY <1>4, <1>6
  <2>2. ~Secret(m)
    BY <2>1, SecretsAreLeaves
  <2>3. own[m] \in Payloads /\ shown[m] = Redacted[own[m]]
    BY <1>6, <2>2
  <2> DEFINE i == path[m + 1]
             part == Children(own[m])[i]
  <2>4. /\ part \in Payloads
        /\ i \in DOMAIN Children(shown[m])
        /\ Children(shown[m])[i] = IF IsSecret(part, own[m], i)
                                   THEN RedactionHandler(own[m].keys[i], part) ELSE Redacted[part]
    <3> HIDE DEF i
    <3> QED
      BY <2>1, <2>3, NodesShown DEF i
  <2>5. own[m + 1] = part /\ shown[m + 1] = Children(shown[m])[i]
    BY <1>2, <1>6
  <2>6. m + 1 > 0 /\ (m + 1) - 1 = m
    OBVIOUS
  <2>7. QED
    BY <2>4, <2>5, <2>6
<1>7. P = Nat
  <2>1. P \in SUBSET Nat
    OBVIOUS
  <2>2. ASSUME NEW m \in P PROVE m + 1 \in P
    <3>1. CASE m + 1 <= Len(path)
      <4>1. m \in Nat /\ m < Len(path) /\ m <= Len(path)
        BY <1>3, <3>1
      <4> HIDE DEF Alike
      <4>2. Alike(m + 1)
        BY <1>6, <4>1
      <4>3. QED
        BY <4>1, <4>2
    <3>2. CASE ~(m + 1 <= Len(path))
      <4> HIDE DEF Alike
      <4> QED
        BY <3>2
    <3>3. QED
      BY <3>1, <3>2
  <2> HIDE DEF P
  <2>3. QED
    BY <1>5, <2>1, <2>2, CountsUp
<1>8. \A m \in Nat : m <= Len(path) => Alike(m)
  <2> HIDE DEF Alike
  <2> QED
    BY <1>7
<1>9. LeadsInto(path, Redacted[data])
  <2>1. ASSUME NEW n \in 1..Len(path) PROVE path[n] \in DOMAIN Children(shown[n - 1])
    <3> DEFINE m == n - 1
    <3>1. m \in Nat /\ m < Len(path) /\ m <= Len(path) /\ m + 1 = n
      BY <1>3
    <3> HIDE DEF m, Alike
    <3>2. path[m + 1] \in DOMAIN Children(shown[m])
      BY <1>6, <1>8, <3>1
    <3>3. QED
      BY <3>1, <3>2 DEF m
  <2>2. QED
    BY <2>1 DEF LeadsInto, shown
<1>10. ShownAt(path, data, Redacted[data])
  <2> DEFINE n == Len(path)
  <2>1. Alike(n)
    BY <1>3, <1>8
  <2>2. SameNode(own[n], Redacted[own[n]])
    BY <2>1, NodesShown
  <2> HIDE DEF n
  <2>3. QED
    BY <2>1, <2>2 DEF ShownAt, own, shown, n
<1>11. QED
  BY <1>9, <1>10

(* RedactionExact: in the lines about data that is sent or received, the   *)
(* texts directly under a sensitive key are redacted, at whatever depth,   *)
(* and nothing else is; data that cannot be cloned is not shown; and the   *)
(* data itself is never redacted, for all payloads and all sensitive keys  *)
(* (AxiosService.logData, redactSensitiveData).                            *)
THEOREM RedactionIsExact == LogSpec => RedactionExact
<1> DEFINE Exact(data, line) ==
             IF Serializable(data)
             THEN \A path \in Paths :
                    LeadsInto(path, data) => LeadsInto(path, line) /\ ShownAt(path, data, line)
             ELSE line = Marker("unserializable")
<1>1. ASSUME NEW data \in Payloads PROVE Exact(data, StringifyLimited(RedactSensitiveData(data)))
  <2>1. CASE Serializable(data)
    <3>1. RedactSensitiveData(data) = Redacted[data]
      BY <2>1, RedactUnfolds DEF RedactSensitiveData, SafeClone
    <3>2. StringifyLimited(Redacted[data]) = Redacted[data]
      BY <2>1, RedactedIsCopyable DEF StringifyLimited
    <3>3. \A path \in Paths : path \in Seq(Nat)
      BY PayloadConstants
    <3>4. QED
      BY <2>1, <3>1, <3>2, <3>3, PathsShown
  <2>2. CASE ~Serializable(data)
    BY <2>2 DEF RedactSensitiveData, SafeClone, StringifyLimited
  <2>3. QED
    BY <2>1, <2>2
<1>2. ASSUME LinesSanitized, LogNext, entry'.by = "data"
      PROVE  payload' = payload /\ Exact(payload, entry'.holds)
  <2>1. LogData
    <3>1. ~LogRequestBody
      BY <1>2 DEF LogRequestBody
    <3>2. ~LogRequestQuery
      BY <1>2 DEF LogRequestQuery
    <3>3. ~LogErrorDetails
      BY <1>2 DEF LogErrorDetails
    <3>4. QED
      BY <1>2, <3>1, <3>2, <3>3 DEF LogNext
  <2>2. payload' = payload
    BY <2>1 DEF LogData, SafeClone
  <2>3. entry'.holds = StringifyLimited(RedactSensitiveData(payload))
    BY <2>1 DEF LogData
  <2>4. payload \in Payloads
    BY <1>2 DEF LinesSanitized
  <2>5. QED
    BY <1>1, <2>2, <2>3, <2>4
<1>3. LinesSanitized /\ [LogNext]_logVars =>
        [entry'.by = "data" => payload' = payload /\ Exact(payload, entry'.holds)]_logVars
  <2> HIDE DEF Exact
  <2> QED
    BY <1>2
<1>4. QED
  BY <1>3, LinesAreSanitized, PTL DEF LogSpec, RedactionExact
=============================================================================
