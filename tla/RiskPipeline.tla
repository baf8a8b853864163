---------------------------- MODULE RiskPipeline ----------------------------
(***************************************************************************)
(* How an incident report becomes road risk.                               *)
(*                                                                         *)
(* API handlers commit a change of a report and then, in a second step,    *)
(* add a refresh job to the BullMQ queue.  The worker process runs up to   *)
(* Concurrency refresh jobs at once and, beside them, one maintenance job  *)
(* (Sweep) that expires due reports and refreshes every active one.  All   *)
(* of them run SafetyIntelligenceService.refreshIncident:                  *)
(*                                                                         *)
(*   read the report -> store its confidence -> for every nearby segment,  *)
(*   concurrently: list the segment's active reports, replace its risk     *)
(*                                                                         *)
(* and then bump the route-cache version and publish a realtime event.     *)
(* Each database or Redis call is one atomic step; nothing is held between *)
(* two calls, so everything read may be stale when it is written.          *)
(*                                                                         *)
(* Left out: scores as numbers and time decay (an assessment is what the   *)
(* score is computed from: status and number of evaluations), the clock    *)
(* difference between worker and database, a second worker process, and    *)
(* jobs that BullMQ takes for stalled while their process lives.           *)
(* Locations, severities and road geometry never change after the insert,  *)
(* so the spatial match is the constant Near.                              *)
(***************************************************************************)
EXTENDS Naturals, FiniteSets

CONSTANTS
  Reports,      \* rows of incident_reports that may be created
  Segments,     \* rows of road_segments
  Near,         \* Near[r]: the segments within 100 + severity * 120 m of r
  Jobs,         \* job slots of the safety-risk-recalculation queue
  Sweep,        \* the periodic maintenance job
  NoReport,     \* a job slot that is not in use
  Concurrency,  \* jobs the safety worker runs at once
  MaxAttempts,  \* attempts BullMQ gives a job
  MaxStalledCount, \* stalls after which BullMQ hands a job out again (1 by default)
  MaxChanges,   \* bound: API calls that change a report
  MaxFailures   \* bound: failed calls, crashes included

ASSUME PipelineAssumption ==
  /\ Near \in [Reports -> SUBSET Segments]
  /\ Sweep \notin Jobs
  /\ NoReport \notin Reports
  /\ Concurrency \in Nat \ {0}
  /\ MaxAttempts \in Nat \ {0}
  /\ MaxStalledCount \in Nat
  /\ MaxChanges \in Nat
  /\ MaxFailures \in Nat

VARIABLES
  status,       \* status[r], "absent" before the insert
  due,          \* due[r]: expires_at <= NOW()
  evaluations,  \* confirmations and disputes counted on r
  confidence,   \* confidence_score of r, as the assessment it came from
  sources,      \* sources[s][r]: what r contributes to the stored risk of s
  requests,     \* requests[r]: handlers between their commit and queue.add
  pc,           \* where each job and the sweep are
  report,       \* the report each of them refreshes
  context,      \* the assessment each of them read and has still to store
  attempts,     \* attempts already failed
  stalls,       \* times the worker died with the job
  tasks,        \* segment tasks in flight (the members of Promise.all)
  toExpire,     \* expired reports the sweep has still to refresh
  toRefresh,    \* active reports the sweep has still to refresh
  dirty,        \* segments replaced since the last version bump
  unheard,      \* segments replaced that no later event has announced
  observed,     \* history: what the newest listing of s returned
  lost,         \* history: reports whose refresh was dropped by a failure
  muted,        \* history: segments whose increment or event a failure dropped
  changes, failures

reportVars == <<status, due, evaluations, confidence>>
jobVars    == <<pc, report, context, attempts, stalls>>
sweepVars  == <<toExpire, toRefresh>>
cacheVars  == <<dirty, unheard>>
counters   == <<changes, failures>>
vars == <<reportVars, jobVars, sweepVars, cacheVars, counters,
          sources, requests, tasks, observed, lost, muted>>

-----------------------------------------------------------------------------
(* Reports, assessments, owners of refreshes *)

ActiveStatus == {"PENDING", "VERIFIED"}
Status == {"absent", "REJECTED", "EXPIRED"} \cup ActiveStatus
Owners == Jobs \cup {Sweep}

Assessment == [status : {"none", "default"} \cup ActiveStatus, evaluations : Nat]
Zero         == [status |-> "none", evaluations |-> 0]
DefaultScore == [status |-> "default", evaluations |-> 0]

\* calculateConfidence: rejected and expired reports score zero
Assess(r) == IF status[r] \in ActiveStatus
             THEN [status |-> status[r], evaluations |-> evaluations[r]]
             ELSE Zero

Active(r)  == status[r] \in ActiveStatus /\ ~due[r]
Overdue(r) == status[r] \in ActiveStatus /\ due[r]

\* listActiveReportsForSegment, already turned into the rows replaceSegmentRisk stores
Listing(s) == [r \in Reports |->
                 IF s \in Near[r] /\ Active(r) THEN Assess(r) ELSE Zero]

Nothing == [r \in Reports |-> Zero]

Phase == {"list", "replace"}
Task == [owner : Owners, orphan : 0 .. MaxFailures, segment : Segments,
         phase : Phase, read : [Reports -> Assessment]]

\* a task that holds the listing it read; a task whose Promise.all has rejected
Holding(t, listing) == [t EXCEPT !.phase = "replace", !.read = listing]
Orphaned(t, failure) == [t EXCEPT !.orphan = failure]

Refreshing == {"context", "confidence", "segments", "await"}
Running == Refreshing \cup {"invalidate", "publish"}
JobPc   == {"unused", "waiting"} \cup Running
SweepPc == {"idle", "list", "next"} \cup Running

TypeOK ==
  /\ status \in [Reports -> Status]
  /\ due \in [Reports -> BOOLEAN]
  /\ evaluations \in [Reports -> Nat]
  /\ confidence \in [Reports -> Assessment]
  /\ sources \in [Segments -> [Reports -> Assessment]]
  /\ observed \in [Segments -> [Reports -> Assessment]]
  /\ requests \in [Reports -> Nat]
  /\ pc \in [Owners -> JobPc \cup SweepPc]
  /\ \A j \in Jobs : pc[j] \in JobPc
  /\ pc[Sweep] \in SweepPc
  /\ report \in [Owners -> Reports \cup {NoReport}]
  /\ \A j \in Jobs : report[j] = NoReport <=> pc[j] = "unused"
  /\ report[Sweep] # NoReport <=> pc[Sweep] \in Refreshing
  /\ context \in [Owners -> Assessment]
  /\ attempts \in [Jobs -> 0 .. MaxAttempts - 1]
  /\ stalls \in [Jobs -> 0 .. MaxStalledCount]
  /\ tasks \subseteq Task
  /\ \A t \in tasks : t.orphan = 0 =>
       pc[t.owner] = "await" /\ t.segment \in Near[report[t.owner]]
  /\ toExpire \subseteq Reports
  /\ toRefresh \subseteq Reports
  /\ dirty \subseteq Segments
  /\ unheard \subseteq Segments
  /\ lost \subseteq Reports
  /\ muted \subseteq Segments
  /\ changes \in 0 .. MaxChanges
  /\ failures \in 0 .. MaxFailures

Init ==
  /\ status = [r \in Reports |-> "absent"]
  /\ due = [r \in Reports |-> FALSE]
  /\ evaluations = [r \in Reports |-> 0]
  /\ confidence = [r \in Reports |-> Zero]
  /\ sources = [s \in Segments |-> Nothing]
  /\ observed = [s \in Segments |-> Nothing]
  /\ requests = [r \in Reports |-> 0]
  /\ pc = [o \in Owners |-> IF o = Sweep THEN "idle" ELSE "unused"]
  /\ report = [o \in Owners |-> NoReport]
  /\ context = [o \in Owners |-> Zero]
  /\ attempts = [j \in Jobs |-> 0]
  /\ stalls = [j \in Jobs |-> 0]
  /\ tasks = {} /\ toExpire = {} /\ toRefresh = {}
  /\ dirty = {} /\ unheard = {} /\ lost = {} /\ muted = {}
  /\ changes = 0 /\ failures = 0

-----------------------------------------------------------------------------
(* API: IncidentService, one commit and then one queue.add *)

\* The row is committed; the handler still has to schedule the refresh.
Committed(r) ==
  /\ changes < MaxChanges
  /\ changes' = changes + 1
  /\ requests' = [requests EXCEPT ![r] = @ + 1]
  /\ UNCHANGED <<due, jobVars, sweepVars, cacheVars, failures,
                 sources, tasks, observed, lost, muted>>

Create(r) ==
  /\ status[r] = "absent"
  /\ status' = [status EXCEPT ![r] = "PENDING"]
  /\ confidence' = [confidence EXCEPT ![r] = DefaultScore]
  /\ UNCHANGED evaluations
  /\ Committed(r)

\* recordDecision checks neither status nor expiry
Evaluate(r) ==
  /\ status[r] # "absent"
  /\ evaluations' = [evaluations EXCEPT ![r] = @ + 1]
  /\ UNCHANGED <<status, confidence>>
  /\ Committed(r)

\* Mutant: the status changes and no refresh is scheduled.
ModerateUnscheduled(r, verdict) ==
  /\ status[r] # "absent"
  /\ changes < MaxChanges
  /\ status' = [status EXCEPT ![r] = verdict]
  /\ changes' = changes + 1
  /\ UNCHANGED <<due, evaluations, confidence, jobVars, sweepVars, cacheVars,
                 failures, sources, requests, tasks, observed, lost, muted>>

\* updateStatus has no guard on the old status: expired rows can be moderated
Moderate(r, verdict) ==
  /\ status[r] # "absent"
  /\ status' = [status EXCEPT ![r] = verdict]
  /\ UNCHANGED <<evaluations, confidence>>
  /\ Committed(r)

\* SafetyJobDispatcher.scheduleIncidentRefresh
Enqueue(r, j) ==
  /\ requests[r] > 0
  /\ pc[j] = "unused"
  /\ requests' = [requests EXCEPT ![r] = @ - 1]
  /\ pc' = [pc EXCEPT ![j] = "waiting"]
  /\ report' = [report EXCEPT ![j] = r]
  /\ attempts' = [attempts EXCEPT ![j] = 0]
  /\ stalls' = [stalls EXCEPT ![j] = 0]
  /\ UNCHANGED <<reportVars, context, sweepVars, cacheVars, counters,
                 sources, tasks, observed, lost, muted>>

\* queue.add throws, or the API process dies first: the commit stands
EnqueueFails(r) ==
  /\ requests[r] > 0
  /\ failures < MaxFailures
  /\ requests' = [requests EXCEPT ![r] = @ - 1]
  /\ lost' = lost \cup {r}
  /\ UNCHANGED muted
  /\ failures' = failures + 1
  /\ UNCHANGED <<reportVars, jobVars, sweepVars, cacheVars, changes,
                 sources, tasks, observed>>

\* NOW() passes the expires_at of r
TimePasses(r) ==
  /\ status[r] # "absent"
  /\ ~due[r]
  /\ due' = [due EXCEPT ![r] = TRUE]
  /\ UNCHANGED <<status, evaluations, confidence, jobVars, sweepVars,
                 cacheVars, counters, sources, requests, tasks, observed, lost, muted>>

-----------------------------------------------------------------------------
(* refreshIncident, run by a job or by the sweep *)

Goto(o, next) == pc' = [pc EXCEPT ![o] = next]

StartJob(j) ==
  /\ pc[j] = "waiting"
  /\ Cardinality({k \in Jobs : pc[k] \in Running}) < Concurrency
  /\ Goto(j, "context")
  /\ UNCHANGED <<reportVars, report, context, attempts, stalls, sweepVars, cacheVars,
                 counters, sources, requests, tasks, observed, lost, muted>>

\* getReportContext and confidenceFor
ReadContext(o) ==
  /\ pc[o] = "context"
  /\ context' = [context EXCEPT ![o] = Assess(report[o])]
  /\ Goto(o, "confidence")
  /\ UNCHANGED <<reportVars, report, attempts, stalls, sweepVars, cacheVars, counters,
                 sources, requests, tasks, observed, lost, muted>>

\* Mutant: only reports that nobody has moderated get a new score.
WritePendingConfidence(o) ==
  /\ pc[o] = "confidence"
  /\ confidence' = [confidence EXCEPT ![report[o]] = IF status[report[o]] = "PENDING" THEN context[o] ELSE @]
  /\ context' = [context EXCEPT ![o] = Zero]
  /\ Goto(o, "segments")
  /\ UNCHANGED <<status, due, evaluations, report, attempts, stalls, sweepVars,
                 cacheVars, counters, sources, requests, tasks, observed, lost, muted>>

\* updateConfidence: an UPDATE by id, whatever the report's status is by now
WriteConfidence(o) ==
  /\ pc[o] = "confidence"
  /\ confidence' = [confidence EXCEPT ![report[o]] = context[o]]
  /\ context' = [context EXCEPT ![o] = Zero]
  /\ Goto(o, "segments")
  /\ UNCHANGED <<status, due, evaluations, report, attempts, stalls, sweepVars,
                 cacheVars, counters, sources, requests, tasks, observed, lost, muted>>

\* findAffectedSegmentIds, then Promise.all starts one task per segment
FindSegments(o) ==
  /\ pc[o] = "segments"
  /\ tasks' = tasks \cup
       [owner : {o}, orphan : {0}, segment : Near[report[o]],
        phase : {"list"}, read : {Nothing}]
  /\ Goto(o, "await")
  /\ UNCHANGED <<reportVars, report, context, attempts, stalls, sweepVars, cacheVars,
                 counters, sources, requests, observed, lost, muted>>

\* listActiveReportsForSegment: one SELECT
ListReports(t) ==
  /\ t.phase = "list"
  /\ tasks' = (tasks \ {t}) \cup {Holding(t, Listing(t.segment))}
  /\ observed' = [observed EXCEPT ![t.segment] = Listing(t.segment)]
  /\ UNCHANGED <<reportVars, jobVars, sweepVars, cacheVars, counters,
                 sources, requests, lost, muted>>

\* replaceSegmentRisk: one transaction; it locks the segment only now
ReplaceRisk(t) ==
  /\ t.phase = "replace"
  /\ tasks' = tasks \ {t}
  /\ sources' = [sources EXCEPT ![t.segment] = t.read]
  /\ dirty' = dirty \cup {t.segment}
  /\ unheard' = unheard \cup {t.segment}
  /\ UNCHANGED <<reportVars, jobVars, sweepVars, counters,
                 requests, observed, lost, muted>>

\* Mutant: the segments' tasks are started and not awaited.
AllSettledUnawaited(o) ==
  /\ pc[o] = "await"
  /\ IF o = Sweep
     THEN /\ Goto(o, "next")
          /\ toExpire' = toExpire \ {report[o]}
          /\ toRefresh' = toRefresh \ {report[o]}
          /\ report' = [report EXCEPT ![o] = NoReport]
     ELSE Goto(o, "invalidate") /\ UNCHANGED <<report, sweepVars>>
  /\ UNCHANGED <<reportVars, context, attempts, stalls, cacheVars, counters,
                 sources, requests, tasks, observed, lost, muted>>

\* Promise.all resolves: a job goes on to the cache, the sweep to its next report
AllSettled(o) ==
  /\ pc[o] = "await"
  /\ ~ \E t \in tasks : t.owner = o /\ t.orphan = 0
  /\ IF o = Sweep
     THEN /\ Goto(o, "next")
          /\ toExpire' = toExpire \ {report[o]}
          /\ toRefresh' = toRefresh \ {report[o]}
          /\ report' = [report EXCEPT ![o] = NoReport]
     ELSE Goto(o, "invalidate") /\ UNCHANGED <<report, sweepVars>>
  /\ UNCHANGED <<reportVars, context, attempts, stalls, cacheVars, counters,
                 sources, requests, tasks, observed, lost, muted>>

\* routeCache.invalidateGraph: INCR of the graph version
InvalidateGraph(o) ==
  /\ pc[o] = "invalidate"
  /\ dirty' = {}
  /\ Goto(o, "publish")
  /\ UNCHANGED <<reportVars, report, context, attempts, stalls, sweepVars, unheard,
                 counters, sources, requests, tasks, observed, lost, muted>>

\* realtime.publish: clients fetch routes again, so an event announces only
\* what the cache can no longer hide
Publish(o) ==
  /\ pc[o] = "publish"
  /\ unheard' = unheard \cap dirty
  /\ Goto(o, IF o = Sweep THEN "idle" ELSE "unused")
  /\ report' = [report EXCEPT ![o] = NoReport]
  /\ UNCHANGED <<reportVars, context, attempts, stalls, sweepVars, dirty, counters,
                 sources, requests, tasks, observed, lost, muted>>

-----------------------------------------------------------------------------
(* The sweep: IncidentMaintenanceService.refreshTimeSensitiveRisk *)

\* Mutant: only pending reports are looked at.
DuePendingReports == {r \in Reports : status[r] = "PENDING" /\ due[r]}

\* the rows that expireDueReports updates
DueReports == {r \in Reports : Overdue(r)}

\* expireDueReports: one UPDATE ... RETURNING id
ExpireDueReports ==
  /\ pc[Sweep] = "idle"
  /\ toExpire' = DueReports
  /\ toRefresh' = {}
  /\ status' = [r \in Reports |-> IF r \in DueReports THEN "EXPIRED" ELSE status[r]]
  /\ confidence' = [r \in Reports |-> IF r \in DueReports THEN Zero ELSE confidence[r]]
  /\ Goto(Sweep, "list")
  /\ UNCHANGED <<due, evaluations, report, context, attempts, stalls, cacheVars, counters,
                 sources, requests, tasks, observed, lost, muted>>

\* Mutant: only what has just expired is refreshed.
ListNothingMore ==
  /\ pc[Sweep] = "list"
  /\ toRefresh' = {}
  /\ Goto(Sweep, IF toExpire = {} THEN "idle" ELSE "next")
  /\ UNCHANGED <<reportVars, report, context, attempts, stalls, toExpire, cacheVars,
                 counters, sources, requests, tasks, observed, lost, muted>>

\* listActiveReportIds; with nothing to refresh the job is done
ListActiveReports ==
  /\ pc[Sweep] = "list"
  /\ toRefresh' = {r \in Reports : Active(r)}
  /\ Goto(Sweep, IF toExpire \cup toRefresh' = {} THEN "idle" ELSE "next")
  /\ UNCHANGED <<reportVars, report, context, attempts, stalls, toExpire, cacheVars,
                 counters, sources, requests, tasks, observed, lost, muted>>

\* the for loop: expired reports first, each report once
RefreshNext(r) ==
  /\ pc[Sweep] = "next"
  /\ r \in IF toExpire # {} THEN toExpire ELSE toRefresh
  /\ report' = [report EXCEPT ![Sweep] = r]
  /\ Goto(Sweep, "context")
  /\ UNCHANGED <<reportVars, context, attempts, stalls, sweepVars, cacheVars, counters,
                 sources, requests, tasks, observed, lost, muted>>

\* Mutant: the sweep ends without an increment and an event.
SweepDoneSilently ==
  /\ pc[Sweep] = "next"
  /\ toExpire \cup toRefresh = {}
  /\ Goto(Sweep, "idle")
  /\ UNCHANGED <<reportVars, report, context, attempts, stalls, sweepVars, cacheVars,
                 counters, sources, requests, tasks, observed, lost, muted>>

\* refreshedCount > 0: the worker goes on to the cache and the event
SweepDone ==
  /\ pc[Sweep] = "next"
  /\ toExpire \cup toRefresh = {}
  /\ Goto(Sweep, "invalidate")
  /\ UNCHANGED <<reportVars, report, context, attempts, stalls, sweepVars, cacheVars,
                 counters, sources, requests, tasks, observed, lost, muted>>

-----------------------------------------------------------------------------
(* Failures *)

\* What o has still to do: to bump the cache version, or also to publish an event.  A
\* job that is tried again replaces its segments and does both once more.
TriedAgain(j) == attempts[j] > 0 \/ stalls[j] > 0

BeforeBump(o) ==
  IF o = Sweep THEN SweepPc \ {"idle", "list", "publish"}
  ELSE {"await", "invalidate"} \cup IF TriedAgain(o) THEN {"waiting"} \cup Refreshing ELSE {}
BeforeEvent(o) == BeforeBump(o) \cup {"publish"}

\* o has this to do after segment s was replaced.
OwedBy(s, o, phases) == pc[o] \in phases /\ (o = Sweep \/ s \in Near[report[o]])
Owed(o) == {s \in unheard : OwedBy(s, o, BeforeEvent(o))}

\* Mutant: a job that fails once is dropped from the queue.
RejectForgotten(o, running) ==
  /\ failures < MaxFailures
  /\ failures' = failures + 1
  /\ Goto(o, IF o = Sweep THEN "idle" ELSE "unused")
  /\ report' = [report EXCEPT ![o] = NoReport]
  /\ lost' = lost \cup IF o = Sweep THEN toExpire ELSE {}
  /\ muted' = muted \cup running
  /\ toExpire' = IF o = Sweep THEN {} ELSE toExpire
  /\ toRefresh' = IF o = Sweep THEN {} ELSE toRefresh
  /\ UNCHANGED <<reportVars, context, attempts, stalls, cacheVars, changes,
                 sources, requests, observed>>

\* The processor of o rejects, with tasks for some segments still running.  A job
\* waits for its next attempt, or has had its last; the sweep starts over, and its
\* retry finds nothing left to expire.
Reject(o, running) ==
  /\ failures < MaxFailures
  /\ failures' = failures + 1
  /\ IF o # Sweep /\ attempts[o] + 1 < MaxAttempts
     THEN /\ attempts' = [attempts EXCEPT ![o] = @ + 1]
          /\ Goto(o, "waiting")
          /\ muted' = muted \cup running
          /\ UNCHANGED <<report, sweepVars, lost>>
     ELSE /\ Goto(o, IF o = Sweep THEN "idle" ELSE "unused")
          /\ report' = [report EXCEPT ![o] = NoReport]
          /\ lost' = lost \cup IF o = Sweep THEN toExpire ELSE {report[o]}
          /\ muted' = muted \cup running \cup Owed(o)
          /\ toExpire' = IF o = Sweep THEN {} ELSE toExpire
          /\ toRefresh' = IF o = Sweep THEN {} ELSE toRefresh
          /\ UNCHANGED attempts
  /\ UNCHANGED <<reportVars, context, stalls, cacheVars, changes,
                 sources, requests, observed>>

\* a call of the processor itself throws
StepFails(o) ==
  /\ pc[o] \in (Running \ {"await"}) \cup {"list"}
  /\ UNCHANGED tasks
  /\ Reject(o, {})

\* One member of Promise.all throws.  The processor rejects at once, but the
\* other members keep running: they are orphans of this failed attempt.
TaskFails(t) ==
  /\ t.orphan = 0
  /\ tasks' = {IF u.owner = t.owner /\ u.orphan = 0
               THEN Orphaned(u, failures + 1) ELSE u : u \in tasks \ {t}}
  /\ Reject(t.owner, {u.segment : u \in {v \in tasks \ {t} : v.owner = t.owner /\ v.orphan = 0}})

\* an orphan's rejection reaches nobody (it needs no bound: orphans only go)
OrphanFails(t) ==
  /\ t.orphan # 0
  /\ tasks' = tasks \ {t}
  /\ UNCHANGED <<reportVars, jobVars, sweepVars, cacheVars, counters,
                 sources, requests, observed, lost, muted>>

\* The jobs a crash finds running, and those of them that BullMQ fails for good
\* because they stalled as often as it allows.
UnderWay == {j \in Jobs : pc[j] \in Running}
GivenUp == {j \in UnderWay : stalls[j] = MaxStalledCount}

\* The worker process dies.  BullMQ finds its jobs stalled and hands them out again,
\* which is no attempt.  The sweep starts over, as a stalled job or the next of the
\* repeated ones.
WorkerCrash ==
  /\ failures < MaxFailures
  /\ failures' = failures + 1
  /\ tasks' = {}
  /\ stalls' = [j \in Jobs |-> IF j \in UnderWay \ GivenUp THEN stalls[j] + 1 ELSE stalls[j]]
  /\ pc' = [o \in Owners |-> IF o = Sweep THEN "idle"
                             ELSE IF o \in GivenUp THEN "unused"
                             ELSE IF o \in UnderWay THEN "waiting" ELSE pc[o]]
  /\ report' = [o \in Owners |-> IF pc'[o] = "waiting" THEN report[o] ELSE NoReport]
  /\ lost' = lost \cup toExpire \cup {report[j] : j \in GivenUp}
  /\ muted' = muted \cup UNION {Owed(o) : o \in GivenUp \cup {Sweep}}
  /\ toExpire' = {} /\ toRefresh' = {}
  /\ UNCHANGED <<reportVars, context, attempts, cacheVars, changes,
                 sources, requests, observed>>

-----------------------------------------------------------------------------
Api(r) ==
  \/ Create(r)
  \/ Evaluate(r)
  \/ \E verdict \in {"VERIFIED", "REJECTED"} : Moderate(r, verdict)
  \/ \E j \in Jobs : Enqueue(r, j)
  \/ EnqueueFails(r)
  \/ TimePasses(r)

Step(o) ==
  \/ ReadContext(o)
  \/ WriteConfidence(o)
  \/ FindSegments(o)
  \/ AllSettled(o)
  \/ InvalidateGraph(o)
  \/ Publish(o)

SweepStep ==
  \/ ExpireDueReports
  \/ ListActiveReports
  \/ \E r \in Reports : RefreshNext(r)
  \/ SweepDone

TaskStep(t) == ListReports(t) \/ ReplaceRisk(t)

Next ==
  \/ \E r \in Reports : Api(r)
  \/ \E j \in Jobs : StartJob(j)
  \/ \E o \in Owners : Step(o) \/ StepFails(o)
  \/ \E t \in tasks : TaskStep(t) \/ TaskFails(t) \/ OrphanFails(t)
  \/ SweepStep
  \/ WorkerCrash

Spec == Init /\ [][Next]_vars

\* Every handler, job, task and timer that can go on does: Node's event loop,
\* BullMQ's polling and the repeatable maintenance job.  Users, failures and
\* the passing of an expiry date are never forced.
Fairness ==
  /\ \A r \in Reports : WF_vars(\E j \in Jobs : Enqueue(r, j))
  /\ WF_vars(\E j \in Jobs : StartJob(j))
  /\ \A o \in Owners : WF_vars(Step(o))
  /\ WF_vars(SweepStep)
  /\ \A o \in Owners, k \in 0 .. MaxFailures, s \in Segments :
       WF_vars(\E t \in tasks : /\ t.owner = o /\ t.orphan = k /\ t.segment = s
                                /\ TaskStep(t))

FairSpec == Spec /\ Fairness

-----------------------------------------------------------------------------
(* Safety *)

\* o is still going to list segment s for the report it refreshes
WillList(o, s) ==
  \/ pc[o] \in {"waiting", "context", "confidence", "segments"}
  \/ /\ pc[o] = "await"
     /\ \E t \in tasks : /\ t.owner = o /\ t.orphan = 0
                         /\ t.segment = s /\ t.phase = "list"

\* somebody is still going to look at segment s because of report r
Outstanding(r, s) ==
  \/ requests[r] > 0
  \/ \E j \in Jobs : report[j] = r /\ WillList(j, s)
  \/ Overdue(r)
  \/ r \in toExpire /\ (report[Sweep] = r => WillList(Sweep, s))

\* No change of a report is forgotten: if the newest listing of a segment does
\* not show report r as it now is, then a handler, a job, or the sweep is still
\* going to list that segment because of r, or r is one of the reports whose
\* refresh a failure dropped (enqueue failed, last attempt failed, or a sweep
\* that failed after it had expired r).
Accounted ==
  \A r \in Reports : \A s \in Near[r] :
    observed[s][r] = Listing(s)[r] \/ Outstanding(r, s) \/ r \in lost

\* Every replaced segment has a refresh in progress that will still bump the cache
\* version after the replacement, and one that will still publish an event after
\* that bump; or it is one of those for which a failure dropped these (the last
\* attempt of a job, a sweep that stopped after replacing it, a task that runs on
\* when its Promise.all has rejected).
EveryChangeIsAnnounced ==
  /\ \A s \in dirty \ muted : \E o \in Owners : OwedBy(s, o, BeforeBump(o))
  /\ \A s \in unheard \ muted : \E o \in Owners : OwedBy(s, o, BeforeEvent(o))

-----------------------------------------------------------------------------
(* What the documentation promises once the pipeline has come to rest *)

\* No change, job or task is left, and no periodic sweep will find any report: what
\* is stored when the sweep is through is what stays.
NothingLeft ==
  /\ \A r \in Reports : requests[r] = 0 /\ status[r] \notin ActiveStatus
  /\ \A j \in Jobs : pc[j] = "unused"
  /\ tasks = {}

\* README: "rejected or expired reports contribute zero": to the road risk of any
\* segment, even if nothing ever failed.
RejectedContributesZero ==
  NothingLeft /\ pc[Sweep] = "idle" /\ failures = 0 =>
    \A r \in Reports : status[r] = "REJECTED" =>
      \A s \in Segments : sources[s][r] = Zero

\* The same of expired reports, when "the worker retries transient failures": the
\* maintenance job has run again since, and its UPDATE has returned no row.
ExpiredContributesZero ==
  NothingLeft /\ pc[Sweep] = "list" /\ toExpire = {} =>
    \A r \in Reports : status[r] = "EXPIRED" =>
      \A s \in Segments : sources[s][r] = Zero

-----------------------------------------------------------------------------
(* Liveness *)

\* The periodic sweep heals every segment that has an active report nearby:
\* whatever raced or failed before, from some point on the stored risk of such
\* a segment is the one its reports call for.
SegmentsConverge ==
  \A s \in Segments :
    <>[]((\E r \in Reports : s \in Near[r] /\ Active(r)) => sources[s] = Listing(s))

\* A score computed from a report as it was may overwrite a newer one.  While a
\* report is active the sweep comes back to it, so that from some point on it
\* shows the score its status and evaluations call for.
ActiveConfidenceConverges ==
  \A r \in Reports : <>[](Active(r) => confidence[r] = Assess(r))

\* A report that is due does not stay active.
DueReportsExpire == \A r \in Reports : Overdue(r) ~> ~Overdue(r)

=============================================================================
