------------------------- MODULE RiskPipelineProofs -------------------------
(* What RiskPipeline guarantees for any number of reports, segments and jobs. *)
EXTENDS RiskPipeline, TLAPS

\* The module's tuples of variables, expanded wherever a step leaves them alone.
USE DEF reportVars, jobVars, sweepVars, cacheVars, counters

-----------------------------------------------------------------------------
(* Type correctness *)

\* Listing returns one assessment per report.
LEMMA ListingType ==
  ASSUME PipelineAssumption, TypeOK, NEW s \in Segments
  PROVE  Listing(s) \in [Reports -> Assessment]
BY DEF PipelineAssumption, TypeOK, Listing, Assess, Assessment, Zero, ActiveStatus, Status

LEMMA AssessType ==
  ASSUME TypeOK, NEW r \in Reports
  PROVE  Assess(r) \in Assessment
BY DEF TypeOK, Assess, Assessment, Zero, ActiveStatus, Status

\* The constant assessments are assessments.
LEMMA ZeroType == Zero \in Assessment /\ DefaultScore \in Assessment /\ Nothing \in [Reports -> Assessment]
BY DEF Zero, DefaultScore, Nothing, Assessment

LEMMA TypeInit == ASSUME PipelineAssumption, Init PROVE TypeOK
<1>1. Sweep \in Owners /\ \A j \in Jobs : j \in Owners /\ j # Sweep
  BY DEF PipelineAssumption, Owners
<1> QED
  BY <1>1, ZeroType DEF PipelineAssumption, Init, TypeOK, JobPc, SweepPc, Running, Refreshing, Status

\* Records of tasks stay tasks when a step relabels them.
LEMMA TaskType ==
  ASSUME NEW u \in Task
  PROVE  /\ u.owner \in Owners /\ u.segment \in Segments
         /\ u.orphan \in 0 .. MaxFailures /\ u.read \in [Reports -> Assessment]
         /\ \A k \in 0 .. MaxFailures :
              /\ Orphaned(u, k) \in Task
              /\ Orphaned(u, k).orphan = k
         /\ \A listing \in [Reports -> Assessment] :
              /\ Holding(u, listing) \in Task
              /\ Holding(u, listing).owner = u.owner
              /\ Holding(u, listing).orphan = u.orphan
              /\ Holding(u, listing).segment = u.segment
              /\ Holding(u, listing).phase = "replace"
BY DEF Task, Phase, Orphaned, Holding

\* Whatever o was doing, its rejection leaves every variable well typed, if
\* none of the tasks that still count was its own.
LEMMA RejectType ==
  ASSUME PipelineAssumption, TypeOK, NEW o \in Owners,
         NEW running \in SUBSET Segments, Reject(o, running),
         pc[o] \in Running \cup {"list"},
         tasks' \subseteq Task,
         \A t \in tasks' : t.orphan = 0 => t \in tasks /\ t.owner # o
  PROVE  TypeOK'
<1> USE DEF Goto, Reject, JobPc, SweepPc, Running, Refreshing
<1>0. /\ Owners = Jobs \cup {Sweep}
      /\ Sweep \notin Jobs
      /\ NoReport \notin Reports
  BY DEF PipelineAssumption, Owners
<1>t. /\ pc \in [Owners -> JobPc \cup SweepPc]
      /\ \A j \in Jobs : pc[j] \in JobPc
      /\ pc[Sweep] \in SweepPc
      /\ report \in [Owners -> Reports \cup {NoReport}]
      /\ \A j \in Jobs : report[j] = NoReport <=> pc[j] = "unused"
      /\ report[Sweep] # NoReport <=> pc[Sweep] \in Refreshing
  BY DEF TypeOK
<1>1. \A u \in Owners \ {o} : pc'[u] = pc[u] /\ report'[u] = report[u]
  BY <1>t
<1>2. \A t \in tasks' : t.orphan = 0 =>
        pc'[t.owner] = "await" /\ t.segment \in Near[report'[t.owner]]
  BY <1>1 DEF TypeOK, Task
<1>3. /\ pc'[o] \in IF o = Sweep THEN {"idle"} ELSE {"waiting", "unused"}
      /\ report'[o] = NoReport <=> pc'[o] # "waiting"
      /\ pc' \in [Owners -> JobPc \cup SweepPc]
      /\ report' \in [Owners -> Reports \cup {NoReport}]
  <2>1. CASE o = Sweep
    BY <1>0, <1>t, <2>1
  <2>2. CASE o \in Jobs
    <3>1. report[o] \in Reports
      BY <1>0, <1>t, <2>2
    <3>2. CASE attempts[o] + 1 < MaxAttempts
      BY <1>0, <1>t, <2>2, <3>1, <3>2
    <3>3. CASE ~(attempts[o] + 1 < MaxAttempts)
      BY <1>0, <1>t, <2>2, <3>1, <3>3
    <3> QED BY <3>2, <3>3
  <2> QED BY <1>0, <2>1, <2>2
<1>4. /\ \A j \in Jobs : pc'[j] \in JobPc /\ (report'[j] = NoReport <=> pc'[j] = "unused")
      /\ pc'[Sweep] \in SweepPc
      /\ report'[Sweep] # NoReport <=> pc'[Sweep] \in Refreshing
  <2>1. CASE o = Sweep
    BY <1>0, <1>1, <1>3, <1>t, <2>1
  <2>2. CASE o \in Jobs
    BY <1>0, <1>1, <1>3, <1>t, <2>2
  <2> QED BY <1>0, <2>1, <2>2
<1>5. attempts' \in [Jobs -> 0 .. MaxAttempts - 1]
  <2>1. CASE o # Sweep /\ attempts[o] + 1 < MaxAttempts
    <3>1. attempts' = [attempts EXCEPT ![o] = @ + 1] /\ o \in Jobs
      BY <1>0, <2>1
    <3>2. attempts[o] + 1 \in 0 .. MaxAttempts - 1
      BY <2>1, <3>1 DEF TypeOK, PipelineAssumption
    <3> QED BY <3>1, <3>2 DEF TypeOK
  <2>2. CASE ~(o # Sweep /\ attempts[o] + 1 < MaxAttempts)
    BY <2>2 DEF TypeOK
  <2> QED BY <2>1, <2>2
<1>6. toExpire' \subseteq Reports /\ toRefresh' \subseteq Reports
  BY DEF TypeOK
<1>7. lost' \subseteq Reports /\ muted' \subseteq Segments
  BY <1>0 DEF TypeOK, Owed
<1>8. failures' \in 0 .. MaxFailures
  BY DEF TypeOK, PipelineAssumption
<1> QED BY <1>2, <1>3, <1>4, <1>5, <1>6, <1>7, <1>8 DEF TypeOK

LEMMA TypeStep == ASSUME PipelineAssumption, TypeOK, [Next]_vars PROVE TypeOK'
<1> USE DEF Goto
<1>0. /\ Owners = Jobs \cup {Sweep}
      /\ Sweep \notin Jobs
      /\ NoReport \notin Reports
  BY DEF PipelineAssumption, Owners
<1>1. ASSUME NEW r \in Reports, Api(r) PROVE TypeOK'
  <2>1. CASE Create(r)
    BY <2>1, ZeroType DEF Create, Committed, TypeOK, PipelineAssumption, Status, ActiveStatus
  <2>2. CASE Evaluate(r)
    BY <2>2 DEF Evaluate, Committed, TypeOK, PipelineAssumption
  <2>3. ASSUME NEW verdict \in {"VERIFIED", "REJECTED"}, Moderate(r, verdict)
        PROVE  TypeOK'
    BY <2>3 DEF Moderate, Committed, TypeOK, PipelineAssumption, Status, ActiveStatus
  <2>4. ASSUME NEW j \in Jobs, Enqueue(r, j) PROVE TypeOK'
    BY <2>4, <1>0 DEF Enqueue, TypeOK, PipelineAssumption, JobPc
  <2>5. CASE EnqueueFails(r)
    BY <2>5 DEF EnqueueFails, TypeOK, PipelineAssumption
  <2>6. CASE TimePasses(r)
    BY <2>6 DEF TimePasses, TypeOK
  <2> QED
    BY <1>1, <2>1, <2>2, <2>3, <2>4, <2>5, <2>6 DEF Api
<1>2. ASSUME NEW j \in Jobs, StartJob(j) PROVE TypeOK'
  BY <1>2, <1>0 DEF StartJob, TypeOK, JobPc, Running, Refreshing
<1>3. ASSUME NEW o \in Owners, Step(o) PROVE TypeOK'
  <2> USE <1>0 DEF JobPc, SweepPc, Running, Refreshing
  <2>0. pc[o] \in {"context", "confidence", "segments"} => report[o] \in Reports
    BY DEF TypeOK
  <2>1. CASE ReadContext(o)
    <3>1. Assess(report[o]) \in Assessment
      BY <2>0, <2>1, AssessType DEF ReadContext
    <3> QED BY <2>1, <3>1 DEF ReadContext, TypeOK
  <2>2. CASE WriteConfidence(o)
    BY <2>2, ZeroType DEF WriteConfidence, TypeOK
  <2>3. CASE FindSegments(o)
    <3>1. [owner : {o}, orphan : {0}, segment : Near[report[o]],
           phase : {"list"}, read : {Nothing}] \subseteq Task
      BY <2>0, <2>3, ZeroType DEF FindSegments, PipelineAssumption, Task, Phase
    <3> QED BY <2>3, <3>1 DEF FindSegments, TypeOK
  <2>4. CASE AllSettled(o)
    <3>1. CASE o = Sweep
      <4>1. \A t \in tasks : t.orphan = 0 =>
              pc'[t.owner] = "await" /\ t.segment \in Near[report'[t.owner]]
        BY <2>4, <3>1, TaskType DEF AllSettled, TypeOK
      <4>2. /\ pc' = [pc EXCEPT ![Sweep] = "next"]
            /\ report' = [report EXCEPT ![Sweep] = NoReport]
            /\ toExpire' \subseteq toExpire /\ toRefresh' \subseteq toRefresh
        BY <2>4, <3>1 DEF AllSettled
      <4>3. /\ pc' \in [Owners -> JobPc \cup SweepPc] /\ pc'[Sweep] = "next"
            /\ report' \in [Owners -> Reports \cup {NoReport}] /\ report'[Sweep] = NoReport
            /\ \A j \in Jobs : pc'[j] = pc[j] /\ report'[j] = report[j]
        BY <4>2 DEF TypeOK
      <4> QED BY <2>4, <4>1, <4>2, <4>3 DEF AllSettled, TypeOK
    <3>2. CASE o \in Jobs
      <4>1. \A t \in tasks : t.orphan = 0 =>
              pc'[t.owner] = "await" /\ t.segment \in Near[report'[t.owner]]
        BY <2>4, <3>2, TaskType DEF AllSettled, TypeOK
      <4>2. /\ pc' = [pc EXCEPT ![o] = "invalidate"]
            /\ UNCHANGED <<report, toExpire, toRefresh>>
        BY <2>4, <3>2 DEF AllSettled
      <4>3. /\ pc' \in [Owners -> JobPc \cup SweepPc] /\ pc'[Sweep] = pc[Sweep]
            /\ \A j \in Jobs : /\ pc'[j] \in JobPc
                              /\ report[j] = NoReport <=> pc'[j] = "unused"
        BY <2>4, <3>2, <4>2 DEF AllSettled, TypeOK
      <4> QED BY <2>4, <4>1, <4>2, <4>3 DEF AllSettled, TypeOK
    <3> QED BY <1>0, <3>1, <3>2
  <2>5. CASE InvalidateGraph(o)
    BY <2>5 DEF InvalidateGraph, TypeOK
  <2>6. CASE Publish(o)
    BY <2>6 DEF Publish, TypeOK
  <2> QED
    BY <1>3, <2>1, <2>2, <2>3, <2>4, <2>5, <2>6 DEF Step
<1>4. ASSUME NEW o \in Owners, StepFails(o) PROVE TypeOK'
  <2>1. \A t \in tasks : t.orphan = 0 => t.owner # o
    BY <1>4 DEF StepFails, TypeOK, Running, Refreshing
  <2>2. Reject(o, {}) /\ pc[o] \in Running \cup {"list"} /\ tasks' = tasks
    BY <1>4 DEF StepFails
  <2>3. tasks \subseteq Task
    BY DEF TypeOK
  <2> QED BY <2>1, <2>2, <2>3, RejectType
<1>5. ASSUME NEW t \in tasks, TaskStep(t) PROVE TypeOK'
  <2>0. t \in Task
    BY DEF TypeOK
  <2>1. CASE ListReports(t)
    <3>1. Listing(t.segment) \in [Reports -> Assessment]
      BY <2>0, ListingType DEF Task
    <3>2. Holding(t, Listing(t.segment)) \in Task
      BY <2>0, <3>1, TaskType
    <3>3. tasks' \subseteq Task
      BY <2>1, <3>2 DEF ListReports, TypeOK
    <3>4. \A u \in tasks' : u.orphan = 0 =>
            pc[u.owner] = "await" /\ u.segment \in Near[report[u.owner]]
      <4>1. \A u \in tasks' : u \in tasks \/ u = Holding(t, Listing(t.segment))
        BY <2>1 DEF ListReports
      <4>2. pc' = pc /\ report' = report
        BY <2>1 DEF ListReports
      <4>3. \A u \in tasks : u.orphan = 0 => pc[u.owner] = "await" /\ u.segment \in Near[report[u.owner]]
        BY DEF TypeOK
      <4>4. LET u == Holding(t, Listing(t.segment))
            IN  u.owner = t.owner /\ u.orphan = t.orphan /\ u.segment = t.segment
        BY <2>0, <3>1, TaskType
      <4> QED BY <4>1, <4>2, <4>3, <4>4
    <3> QED BY <2>1, <2>0, <3>1, <3>3, <3>4 DEF ListReports, TypeOK, Task
  <2>2. CASE ReplaceRisk(t)
    BY <2>2, <2>0 DEF ReplaceRisk, TypeOK, Task
  <2> QED BY <1>5, <2>1, <2>2 DEF TaskStep
<1>6. ASSUME NEW t \in tasks, TaskFails(t) PROVE TypeOK'
  <2>0. failures \in Nat /\ failures < MaxFailures
    BY <1>6 DEF TaskFails, Reject, TypeOK
  <2>f. failures + 1 \in 0 .. MaxFailures /\ failures + 1 # 0
    BY <2>0 DEF PipelineAssumption
  <2>1. \A u \in tasks : /\ u \in Task /\ Orphaned(u, failures + 1) \in Task
                         /\ Orphaned(u, failures + 1).orphan = failures + 1
    BY <2>f, TaskType DEF TypeOK
  <2>2. tasks' \subseteq Task
    BY <1>6, <2>1 DEF TaskFails
  <2>3. \A u \in tasks' : u.orphan = 0 => u \in tasks /\ u.owner # t.owner
    <3> SUFFICES ASSUME NEW u \in tasks', u.orphan = 0
                 PROVE  u \in tasks /\ u.owner # t.owner
      OBVIOUS
    <3>1. PICK v \in tasks \ {t} :
            u = IF v.owner = t.owner /\ v.orphan = 0 THEN Orphaned(v, failures + 1) ELSE v
      BY <1>6 DEF TaskFails
    <3>2. Orphaned(v, failures + 1).orphan # 0
      BY <2>f, <2>1
    <3> QED BY <3>1, <3>2
  <2>4. t.owner \in Owners /\ pc[t.owner] = "await"
    BY <1>6, <2>1 DEF TaskFails, TypeOK, Task
  <2> DEFINE running == {u.segment : u \in {v \in tasks \ {t} : v.owner = t.owner /\ v.orphan = 0}}
  <2>5. running \subseteq Segments
    BY <2>1, TaskType
  <2>6. Reject(t.owner, running)
    BY <1>6 DEF TaskFails
  <2> HIDE DEF running
  <2> QED
    BY <2>2, <2>3, <2>4, <2>5, <2>6, RejectType DEF Running, Refreshing
<1>7. ASSUME NEW t \in tasks, OrphanFails(t) PROVE TypeOK'
  BY <1>7 DEF OrphanFails, TypeOK, PipelineAssumption
<1>8. CASE SweepStep
  <2> USE <1>0 DEF JobPc, SweepPc, Running, Refreshing
  <2>1. CASE ExpireDueReports
    BY <2>1, ZeroType DEF ExpireDueReports, DueReports, TypeOK, Status
  <2>2. CASE ListActiveReports
    BY <2>2 DEF ListActiveReports, TypeOK
  <2>3. ASSUME NEW r \in Reports, RefreshNext(r) PROVE TypeOK'
    BY <2>3 DEF RefreshNext, TypeOK
  <2>4. CASE SweepDone
    BY <2>4 DEF SweepDone, TypeOK
  <2> QED BY <1>8, <2>1, <2>2, <2>3, <2>4 DEF SweepStep
<1>9. CASE WorkerCrash
  <2> USE <1>0 DEF JobPc, SweepPc, Running, Refreshing
  <2>1. GivenUp \subseteq UnderWay /\ UnderWay \subseteq Jobs
    BY DEF GivenUp, UnderWay
  <2>2. /\ pc' \in [Owners -> JobPc \cup SweepPc] /\ pc'[Sweep] = "idle"
        /\ \A j \in Jobs : pc'[j] \in {"unused", "waiting"}
    BY <1>9, <2>1 DEF WorkerCrash, UnderWay, TypeOK
  <2>3. \A j \in Jobs : pc'[j] = "waiting" => report[j] \in Reports
    BY <1>9, <2>1 DEF WorkerCrash, UnderWay, TypeOK
  <2>4. /\ report' \in [Owners -> Reports \cup {NoReport}] /\ report'[Sweep] = NoReport
        /\ \A j \in Jobs : report'[j] = NoReport <=> pc'[j] = "unused"
    BY <1>9, <2>2, <2>3 DEF WorkerCrash, TypeOK
  <2>5. stalls' \in [Jobs -> 0 .. MaxStalledCount]
    <3>1. \A j \in UnderWay \ GivenUp : stalls[j] + 1 \in 0 .. MaxStalledCount
      <4>1. stalls \in [Jobs -> 0 .. MaxStalledCount] /\ MaxStalledCount \in Nat
        BY DEF TypeOK, PipelineAssumption
      <4>2. \A j \in UnderWay \ GivenUp : j \in Jobs /\ stalls[j] # MaxStalledCount
        BY <2>1 DEF GivenUp
      <4> QED BY <4>1, <4>2
    <3>2. stalls' = [j \in Jobs |-> IF j \in UnderWay \ GivenUp THEN stalls[j] + 1 ELSE stalls[j]]
      BY <1>9 DEF WorkerCrash
    <3> QED BY <3>1, <3>2 DEF TypeOK
  <2>6. lost' \subseteq Reports
    <3>1. {report[j] : j \in GivenUp} \subseteq Reports
      <4>1. \A j \in Jobs : pc[j] # "unused" => report[j] \in Reports
        BY DEF TypeOK
      <4>2. \A j \in GivenUp : j \in Jobs /\ pc[j] # "unused"
        BY <2>1 DEF UnderWay
      <4> QED BY <4>1, <4>2
    <3>2. lost' = lost \cup toExpire \cup {report[j] : j \in GivenUp}
      BY <1>9 DEF WorkerCrash
    <3> QED BY <3>1, <3>2 DEF TypeOK
  <2>7. muted' \subseteq Segments
    BY <1>9 DEF WorkerCrash, Owed, TypeOK
  <2>8. failures' \in 0 .. MaxFailures
    BY <1>9 DEF WorkerCrash, TypeOK, PipelineAssumption
  <2> QED BY <1>9, <2>2, <2>4, <2>5, <2>6, <2>7, <2>8 DEF WorkerCrash, TypeOK
<1>10. CASE UNCHANGED vars
  BY <1>10 DEF vars, TypeOK
<1> QED
  BY <1>1, <1>2, <1>3, <1>4, <1>5, <1>6, <1>7, <1>8, <1>9, <1>10 DEF Next

\* Every variable keeps its type; in particular a job names a report exactly
\* while its slot is in use, and the sweep exactly while it refreshes one.
THEOREM TypeCorrect == Spec => []TypeOK
<1>1. Init => TypeOK
  BY TypeInit, PipelineAssumption
<1>2. TypeOK /\ [Next]_vars => TypeOK'
  BY TypeStep, PipelineAssumption
<1> QED
  BY <1>1, <1>2, PTL DEF Spec

-----------------------------------------------------------------------------
(* No change is forgotten *)

\* The sweep has nothing left to refresh when it is not in its loop.
SweepClean == pc[Sweep] \in {"idle", "invalidate", "publish"} => toExpire = {}

\* What Accounted says of one report and one segment.
Account(r, s) ==
  observed[s][r] = Listing(s)[r] \/ Outstanding(r, s) \/ r \in lost

LEMMA SweepCleanStep ==
  ASSUME PipelineAssumption, TypeOK, SweepClean, [Next]_vars
  PROVE  SweepClean'
<1> USE DEF SweepClean, Goto
<1>0. /\ Sweep \in Owners /\ Sweep \notin Jobs
      /\ pc \in [Owners -> JobPc \cup SweepPc]
      /\ pc[Sweep] \in SweepPc
      /\ toExpire \subseteq Reports
  BY DEF PipelineAssumption, Owners, TypeOK
<1>1. ASSUME NEW o \in Owners, NEW running, Reject(o, running) PROVE SweepClean'
  <2>1. CASE o = Sweep
    BY <1>1, <1>0, <2>1 DEF Reject
  <2>2. CASE o # Sweep
    BY <1>1, <1>0, <2>2 DEF Reject
  <2> QED BY <2>1, <2>2
<1>2. ASSUME NEW r \in Reports, Api(r) PROVE SweepClean'
  BY <1>2, <1>0 DEF Api, Create, Evaluate, Moderate, Committed, Enqueue, EnqueueFails, TimePasses
<1>3. ASSUME NEW j \in Jobs, StartJob(j) PROVE SweepClean'
  BY <1>3, <1>0 DEF StartJob
<1>4. ASSUME NEW o \in Owners, Step(o) PROVE SweepClean'
  <2>1. CASE AllSettled(o)
    BY <1>0, <2>1 DEF AllSettled
  <2>2. CASE ReadContext(o) \/ WriteConfidence(o) \/ FindSegments(o) \/ InvalidateGraph(o) \/ Publish(o)
    BY <1>0, <2>2 DEF ReadContext, WriteConfidence, FindSegments, InvalidateGraph, Publish
  <2> QED BY <1>4, <2>1, <2>2 DEF Step
<1>5. ASSUME NEW o \in Owners, StepFails(o) PROVE SweepClean'
  BY <1>5, <1>1 DEF StepFails
<1>6. ASSUME NEW t \in tasks, TaskFails(t) PROVE SweepClean'
  BY <1>6, <1>1, TaskType DEF TaskFails, TypeOK
<1>7. ASSUME NEW t \in tasks, TaskStep(t) \/ OrphanFails(t) PROVE SweepClean'
  BY <1>7 DEF TaskStep, ListReports, ReplaceRisk, OrphanFails
<1>8. CASE SweepStep
  BY <1>8, <1>0 DEF SweepStep, ExpireDueReports, ListActiveReports, RefreshNext, SweepDone
<1>9. CASE WorkerCrash
  BY <1>9 DEF WorkerCrash
<1>10. CASE UNCHANGED vars
  BY <1>10 DEF vars
<1> QED
  BY <1>2, <1>3, <1>4, <1>5, <1>6, <1>7, <1>8, <1>9, <1>10 DEF Next

\* A listing depends on nothing but the status, expiry and evaluations of the
\* reports: the entry of one report on that report alone.
LEMMA ListingOf ==
  ASSUME NEW r \in Reports, NEW s \in Near[r]
  PROVE  /\ Listing(s)[r] = IF Active(r) THEN Assess(r) ELSE Zero
         /\ (status'[r] = status[r] /\ due'[r] = due[r] /\ evaluations'[r] = evaluations[r])
              => Listing(s)'[r] = Listing(s)[r] /\ (Overdue(r)' <=> Overdue(r))
         /\ (status'[r] = status[r] /\ status[r] \notin ActiveStatus)
              => Listing(s)'[r] = Listing(s)[r]
BY DEF Listing, Active, Assess, Overdue

\* A step that leaves the reports alone keeps the account of r and s, if whoever
\* was going to list s because of r still is, or r is given up.
LEMMA AccountKept ==
  ASSUME NEW r \in Reports, NEW s \in Near[r], Account(r, s), Sweep \in Owners,
         \A j \in Jobs : j \in Owners,
         UNCHANGED <<status, due, evaluations, requests>>,
         observed'[s] = observed[s],
         lost \subseteq lost',
         \A o \in Owners : report[o] = r /\ WillList(o, s)
            => (report'[o] = r /\ WillList(o, s)') \/ r \in lost',
         r \in toExpire
            => r \in toExpire' \/ r \in lost' \/ (report[Sweep] = r /\ ~WillList(Sweep, s)),
         report'[Sweep] = r => report[Sweep] = r \/ WillList(Sweep, s)'
  PROVE  Account(r, s)'
<1>1. CASE observed[s][r] = Listing(s)[r]
  BY <1>1, ListingOf DEF Account
<1>2. CASE r \in lost
  BY <1>2 DEF Account
<1>3. CASE Outstanding(r, s)
  <2>1. Overdue(r) => Overdue(r)'
    BY DEF Overdue
  <2>2. CASE requests[r] > 0 \/ Overdue(r)
    BY <2>1, <2>2 DEF Account, Outstanding
  <2>3. CASE \E j \in Jobs : report[j] = r /\ WillList(j, s)
    BY <2>3 DEF Account, Outstanding
  <2>4. CASE r \in toExpire /\ (report[Sweep] = r => WillList(Sweep, s))
    BY <2>4 DEF Account, Outstanding
  <2> QED BY <1>3, <2>2, <2>3, <2>4 DEF Outstanding
<1> QED BY <1>1, <1>2, <1>3 DEF Account

\* A rejected attempt waits to run again, or gives its report up; a rejected
\* sweep gives up all it has expired.
LEMMA RejectKeepsAccount ==
  ASSUME PipelineAssumption, TypeOK, NEW r \in Reports, NEW s \in Near[r], Account(r, s),
         NEW o \in Owners, NEW running, Reject(o, running),
         \A t \in tasks : t.owner # o => t \in tasks'
  PROVE  Account(r, s)'
<1> USE DEF Reject, Goto
<1>0. /\ Sweep \in Owners /\ Sweep \notin Jobs /\ Owners = Jobs \cup {Sweep}
      /\ pc \in [Owners -> JobPc \cup SweepPc]
      /\ report \in [Owners -> Reports \cup {NoReport}]
      /\ NoReport \notin Reports
      /\ toExpire \subseteq Reports
  BY DEF PipelineAssumption, Owners, TypeOK
<1>1. ASSUME NEW u \in Owners, u # o
      PROVE  /\ report'[u] = report[u]
             /\ WillList(u, s) => WillList(u, s)'
  BY <1>0, <1>1 DEF WillList
<1>2. CASE o = Sweep
  <2>1. r \in toExpire => r \in lost'
    BY <1>2
  <2>2. report'[Sweep] # r
    BY <1>0, <1>2
  <2>3. CASE report[Sweep] = r
    <3>1. CASE r \in toExpire
      BY <2>1, <3>1 DEF Account
    <3>2. CASE r \notin toExpire
      <4>1. Outstanding(r, s) => Outstanding(r, s)'
        BY <1>0, <1>1, <1>2, <3>2 DEF Outstanding, Overdue
      <4> QED BY <4>1, <1>2, ListingOf DEF Account
    <3> QED BY <3>1, <3>2
  <2>4. CASE report[Sweep] # r
    BY <1>0, <1>1, <1>2, <2>1, <2>2, <2>4, AccountKept
  <2> QED BY <2>3, <2>4
<1>3. CASE o \in Jobs
  <2>1. report[o] = r => r \in lost' \/ (report'[o] = r /\ WillList(o, s)')
    BY <1>0, <1>3 DEF WillList
  <2>2. report'[Sweep] = report[Sweep]
    BY <1>0, <1>1, <1>3
  <2>3. lost \subseteq lost' /\ toExpire' = toExpire
    BY <1>0, <1>3
  <2> QED BY <1>0, <1>1, <1>3, <2>1, <2>2, <2>3, AccountKept
<1> QED BY <1>0, <1>2, <1>3

LEMMA AccountStep ==
  ASSUME PipelineAssumption, TypeOK, SweepClean, [Next]_vars,
         NEW r \in Reports, NEW s \in Near[r], Account(r, s)
  PROVE  Account(r, s)'
<1> USE DEF Goto
<1>0. /\ Sweep \in Owners /\ Sweep \notin Jobs /\ Owners = Jobs \cup {Sweep}
      /\ \A j \in Jobs : j \in Owners /\ j # Sweep
      /\ s \in Segments
      /\ NoReport \notin Reports
  BY DEF PipelineAssumption, Owners
<1>t. /\ pc \in [Owners -> JobPc \cup SweepPc]
      /\ report \in [Owners -> Reports \cup {NoReport}]
      /\ requests \in [Reports -> Nat]
      /\ status \in [Reports -> Status] /\ due \in [Reports -> BOOLEAN]
      /\ evaluations \in [Reports -> Nat]
      /\ observed \in [Segments -> [Reports -> Assessment]]
      /\ tasks \subseteq Task
      /\ toExpire \subseteq Reports
  BY DEF TypeOK
<1>1. ASSUME NEW q \in Reports, Api(q) PROVE Account(r, s)'
  <2>1. ASSUME Committed(q),
               \A p \in Reports \ {q} : status'[p] = status[p] /\ evaluations'[p] = evaluations[p]
        PROVE  Account(r, s)'
    <3>1. CASE r = q
      BY <1>t, <2>1, <3>1 DEF Committed, Account, Outstanding
    <3>2. CASE r # q
      <4>1. /\ status'[r] = status[r] /\ due'[r] = due[r]
            /\ evaluations'[r] = evaluations[r] /\ requests'[r] = requests[r]
            /\ UNCHANGED <<pc, report, tasks, toExpire, observed, lost>>
        BY <1>t, <2>1, <3>2 DEF Committed
      <4>2. Outstanding(r, s) => Outstanding(r, s)'
        BY <4>1, ListingOf DEF Outstanding, WillList
      <4> QED BY <4>1, <4>2, ListingOf DEF Account
    <3> QED BY <3>1, <3>2
  <2>2. CASE Create(q)
    BY <2>1, <2>2, <1>t DEF Create
  <2>3. CASE Evaluate(q)
    BY <2>1, <2>3, <1>t DEF Evaluate
  <2>4. ASSUME NEW verdict \in {"VERIFIED", "REJECTED"}, Moderate(q, verdict)
        PROVE  Account(r, s)'
    BY <2>1, <2>4, <1>t DEF Moderate
  <2>5. ASSUME NEW j \in Jobs, Enqueue(q, j) PROVE Account(r, s)'
    <3>1. /\ report[j] = NoReport /\ report'[j] = q /\ pc'[j] = "waiting"
          /\ \A o \in Owners \ {j} : pc'[o] = pc[o] /\ report'[o] = report[o]
          /\ UNCHANGED <<status, due, evaluations, tasks, toExpire, observed, lost>>
      BY <1>0, <1>t, <2>5 DEF Enqueue, TypeOK
    <3>2. CASE r = q
      BY <3>1, <3>2 DEF Account, Outstanding, WillList
    <3>3. CASE r # q
      <4>1. requests'[r] = requests[r]
        BY <1>t, <2>5, <3>3 DEF Enqueue
      <4>2. Outstanding(r, s) => Outstanding(r, s)'
        BY <1>0, <3>1, <4>1 DEF Outstanding, WillList, Overdue
      <4> QED BY <3>1, <4>2, ListingOf DEF Account
    <3> QED BY <3>2, <3>3
  <2>6. CASE EnqueueFails(q)
    <3>1. CASE r = q
      BY <2>6, <3>1 DEF EnqueueFails, Account
    <3>2. CASE r # q
      <4>1. Outstanding(r, s) => Outstanding(r, s)'
        BY <1>t, <2>6, <3>2 DEF EnqueueFails, Outstanding, WillList, Overdue
      <4> QED BY <2>6, <4>1, ListingOf DEF EnqueueFails, Account
    <3> QED BY <3>1, <3>2
  <2>7. CASE TimePasses(q)
    <3>1. CASE r = q /\ status[r] \in ActiveStatus
      BY <1>t, <2>7, <3>1 DEF TimePasses, Account, Outstanding, Overdue
    <3>2. CASE r = q /\ status[r] \notin ActiveStatus
      <4>1. Outstanding(r, s) => Outstanding(r, s)'
        BY <2>7, <3>2 DEF TimePasses, Outstanding, WillList, Overdue
      <4> QED BY <2>7, <3>2, <4>1, ListingOf DEF TimePasses, Account
    <3>3. CASE r # q
      <4>1. due'[r] = due[r]
        BY <1>t, <2>7, <3>3 DEF TimePasses
      <4>2. Outstanding(r, s) => Outstanding(r, s)'
        BY <2>7, <4>1 DEF TimePasses, Outstanding, WillList, Overdue
      <4> QED BY <2>7, <4>1, <4>2, ListingOf DEF TimePasses, Account
    <3> QED BY <3>1, <3>2, <3>3
  <2> QED BY <1>1, <2>2, <2>3, <2>4, <2>5, <2>6, <2>7 DEF Api
<1>2. ASSUME NEW j \in Jobs, StartJob(j) PROVE Account(r, s)'
  <2>1. \A o \in Owners : WillList(o, s) => WillList(o, s)'
    BY <1>0, <1>t, <1>2 DEF StartJob, WillList
  <2> QED BY <1>0, <1>2, <2>1, AccountKept DEF StartJob
<1>3. ASSUME NEW o \in Owners, Step(o) PROVE Account(r, s)'
  <2>1. CASE ReadContext(o) \/ WriteConfidence(o)
    <3>1. \A u \in Owners : WillList(u, s) => WillList(u, s)'
      BY <1>t, <2>1 DEF ReadContext, WriteConfidence, WillList
    <3> QED BY <1>0, <2>1, <3>1, AccountKept DEF ReadContext, WriteConfidence
  <2>2. CASE FindSegments(o)
    <3>1. \A u \in Owners \ {o} : WillList(u, s) => WillList(u, s)'
      BY <1>t, <2>2 DEF FindSegments, WillList
    <3>2. report[o] = r => WillList(o, s)'
      <4> SUFFICES ASSUME report[o] = r PROVE WillList(o, s)'
        OBVIOUS
      <4> DEFINE t == [owner |-> o, orphan |-> 0, segment |-> s, phase |-> "list", read |-> Nothing]
      <4>1. t \in tasks' /\ pc'[o] = "await"
        BY <1>t, <2>2 DEF FindSegments
      <4>2. t.owner = o /\ t.orphan = 0 /\ t.segment = s /\ t.phase = "list"
        OBVIOUS
      <4> HIDE DEF t
      <4> QED BY <4>1, <4>2 DEF WillList
    <3> QED BY <1>0, <2>2, <3>1, <3>2, AccountKept DEF FindSegments
  <2>3. CASE AllSettled(o)
    <3>1. \A u \in Owners \ {o} : WillList(u, s) => WillList(u, s)'
      BY <1>t, <2>3 DEF AllSettled, WillList
    <3>2. ~WillList(o, s)
      BY <2>3 DEF AllSettled, WillList
    <3>3. \A u \in Owners \ {o} : report'[u] = report[u]
      BY <1>t, <2>3 DEF AllSettled
    <3>4. CASE o = Sweep
      <4>1. report'[Sweep] = NoReport /\ toExpire' = toExpire \ {report[Sweep]}
        BY <1>t, <1>0, <2>3, <3>4 DEF AllSettled
      <4> QED BY <1>0, <2>3, <3>1, <3>2, <3>3, <3>4, <4>1, AccountKept DEF AllSettled
    <3>5. CASE o # Sweep
      BY <1>0, <2>3, <3>1, <3>2, <3>3, <3>5, AccountKept DEF AllSettled
    <3> QED BY <3>4, <3>5
  <2>4. CASE InvalidateGraph(o)
    <3>1. \A u \in Owners : WillList(u, s) => WillList(u, s)'
      BY <1>t, <2>4 DEF InvalidateGraph, WillList
    <3> QED BY <1>0, <2>4, <3>1, AccountKept DEF InvalidateGraph
  <2>5. CASE Publish(o)
    <3>1. \A u \in Owners : WillList(u, s) => u # o /\ report'[u] = report[u] /\ WillList(u, s)'
      BY <1>t, <2>5 DEF Publish, WillList
    <3>2. report'[Sweep] = r => report[Sweep] = r
      BY <1>0, <1>t, <2>5 DEF Publish
    <3> QED BY <1>0, <2>5, <3>1, <3>2, AccountKept DEF Publish
  <2> QED BY <1>3, <2>1, <2>2, <2>3, <2>4, <2>5 DEF Step
<1>4. ASSUME NEW o \in Owners, StepFails(o) PROVE Account(r, s)'
  BY <1>4, RejectKeepsAccount DEF StepFails
<1>5. ASSUME NEW t \in tasks, TaskStep(t) PROVE Account(r, s)'
  <2>1. CASE ListReports(t)
    <3>1. CASE t.segment = s
      <4>1. observed'[s] = Listing(s)
        BY <1>0, <1>t, <2>1, <3>1 DEF ListReports
      <4>2. Listing(s)'[r] = Listing(s)[r]
        BY <2>1, ListingOf DEF ListReports
      <4> QED BY <4>1, <4>2 DEF Account
    <3>2. CASE t.segment # s
      <4>1. \A o \in Owners : WillList(o, s) => WillList(o, s)'
        BY <2>1, <3>2 DEF ListReports, WillList
      <4>2. observed'[s] = observed[s]
        BY <1>0, <1>t, <2>1, <3>2 DEF ListReports
      <4> QED BY <1>0, <2>1, <4>1, <4>2, AccountKept DEF ListReports
    <3> QED BY <3>1, <3>2
  <2>2. CASE ReplaceRisk(t)
    <3>1. \A o \in Owners : WillList(o, s) => WillList(o, s)'
      BY <2>2 DEF ReplaceRisk, WillList
    <3> QED BY <1>0, <2>2, <3>1, AccountKept DEF ReplaceRisk
  <2> QED BY <1>5, <2>1, <2>2 DEF TaskStep
<1>6. ASSUME NEW t \in tasks, TaskFails(t) PROVE Account(r, s)'
  <2>1. t.owner \in Owners
    BY <1>t, TaskType
  <2>2. \A u \in tasks : u.owner # t.owner => u \in tasks'
    BY <1>6 DEF TaskFails
  <2> QED BY <1>6, <2>1, <2>2, RejectKeepsAccount DEF TaskFails
<1>7. ASSUME NEW t \in tasks, OrphanFails(t) PROVE Account(r, s)'
  <2>1. \A o \in Owners : WillList(o, s) => WillList(o, s)'
    BY <1>7 DEF OrphanFails, WillList
  <2> QED BY <1>0, <1>7, <2>1, AccountKept DEF OrphanFails
<1>8. CASE SweepStep
  <2>1. CASE ExpireDueReports
    <3>1. /\ pc[Sweep] = "idle" /\ toExpire = {} /\ report[Sweep] = NoReport
      BY <2>1 DEF ExpireDueReports, SweepClean, TypeOK, Refreshing
    <3>2. CASE Overdue(r)
      BY <1>0, <2>1, <3>1, <3>2 DEF ExpireDueReports, DueReports, Account, Outstanding
    <3>3. CASE ~Overdue(r)
      <4>1. status'[r] = status[r]
        BY <1>t, <2>1, <3>3 DEF ExpireDueReports, DueReports
      <4>2. \A j \in Jobs : WillList(j, s) => WillList(j, s)'
        BY <1>0, <1>t, <2>1 DEF ExpireDueReports, WillList
      <4>3. Outstanding(r, s) => Outstanding(r, s)'
        BY <2>1, <3>1, <3>3, <4>2 DEF ExpireDueReports, Outstanding
      <4> QED BY <2>1, <4>1, <4>3, ListingOf DEF ExpireDueReports, Account
    <3> QED BY <3>2, <3>3
  <2>2. CASE ListActiveReports \/ SweepDone
    <3>1. \A o \in Owners : WillList(o, s) => WillList(o, s)'
      BY <1>t, <2>2 DEF ListActiveReports, SweepDone, WillList
    <3> QED BY <1>0, <2>2, <3>1, AccountKept DEF ListActiveReports, SweepDone
  <2>3. ASSUME NEW q \in Reports, RefreshNext(q) PROVE Account(r, s)'
    <3>1. /\ pc'[Sweep] = "context" /\ report'[Sweep] = q
          /\ \A j \in Jobs : report'[j] = report[j] /\ (WillList(j, s) => WillList(j, s)')
      BY <1>0, <1>t, <2>3 DEF RefreshNext, WillList
    <3>2. ~WillList(Sweep, s) /\ WillList(Sweep, s)'
      BY <2>3, <3>1 DEF RefreshNext, WillList
    <3> QED BY <1>0, <2>3, <3>1, <3>2, AccountKept DEF RefreshNext
  <2> QED BY <1>8, <2>1, <2>2, <2>3 DEF SweepStep
<1>9. CASE WorkerCrash
  <2>1. report'[Sweep] = NoReport /\ toExpire \subseteq lost' /\ lost \subseteq lost'
    BY <1>0, <1>9 DEF WorkerCrash
  <2>2. ASSUME NEW j \in Jobs, report[j] = r, WillList(j, s)
        PROVE  (report'[j] = r /\ WillList(j, s)') \/ r \in lost'
    <3>1. CASE j \in GivenUp
      BY <1>9, <2>2, <3>1 DEF WorkerCrash
    <3>2. CASE j \notin GivenUp
      <4>1. pc[j] = "waiting" \/ j \in UnderWay
        BY <2>2 DEF WillList, UnderWay, Running, Refreshing
      <4>2. pc'[j] = "waiting" /\ report'[j] = r
        BY <1>0, <1>9, <2>2, <3>2, <4>1 DEF WorkerCrash
      <4> QED BY <4>2 DEF WillList
    <3> QED BY <3>1, <3>2
  <2>3. UNCHANGED <<status, due, evaluations, requests, observed>>
    BY <1>9 DEF WorkerCrash
  <2>4. Overdue(r)' <=> Overdue(r)
    BY <2>3 DEF Overdue
  <2>5. Outstanding(r, s) => Outstanding(r, s)' \/ r \in lost'
    BY <2>1, <2>2, <2>3, <2>4 DEF Outstanding
  <2> QED BY <2>1, <2>3, <2>5, ListingOf DEF Account
<1>10. CASE UNCHANGED vars
  <2>1. Outstanding(r, s) => Outstanding(r, s)'
    BY <1>10 DEF vars, Outstanding, WillList, Overdue
  <2> QED BY <1>10, <2>1, ListingOf DEF vars, Account
<1> QED
  BY <1>1, <1>2, <1>3, <1>4, <1>5, <1>6, <1>7, <1>8, <1>9, <1>10 DEF Next

\* The inductive invariant: types, the sweep's bookkeeping, the account.
PipelineInv == TypeOK /\ SweepClean /\ Accounted

LEMMA AccountedIsAccount ==
  Accounted <=> \A r \in Reports : \A s \in Near[r] : Account(r, s)
BY DEF Accounted, Account

\* No change of a report is ever forgotten: while the newest listing of a
\* segment does not show it, somebody is still going to list that segment
\* because of it, or its refresh was dropped by one of the named failures.
THEOREM NothingForgotten == Spec => []Accounted
<1>1. Init => PipelineInv
  <2> SUFFICES ASSUME Init PROVE PipelineInv
    OBVIOUS
  <2>1. TypeOK
    BY TypeInit, PipelineAssumption
  <2>2. SweepClean
    BY DEF Init, SweepClean
  <2>3. \A r \in Reports : \A s \in Near[r] : observed[s][r] = Listing(s)[r]
    BY PipelineAssumption DEF PipelineAssumption, Init, Listing, Active, ActiveStatus, Nothing
  <2> QED BY <2>1, <2>2, <2>3 DEF PipelineInv, Accounted
<1>2. PipelineInv /\ [Next]_vars => PipelineInv'
  <2> SUFFICES ASSUME PipelineInv, [Next]_vars PROVE PipelineInv'
    OBVIOUS
  <2>1. TypeOK' /\ SweepClean'
    BY TypeStep, SweepCleanStep, PipelineAssumption DEF PipelineInv
  <2>2. \A r \in Reports : \A s \in Near[r] : Account(r, s)'
    BY AccountStep, AccountedIsAccount, PipelineAssumption DEF PipelineInv
  <2>3. Accounted'
    BY <2>2 DEF Accounted, Account
  <2> QED BY <2>1, <2>3 DEF PipelineInv
<1>3. PipelineInv => Accounted
  BY DEF PipelineInv
<1> QED
  BY <1>1, <1>2, <1>3, PTL DEF Spec

-----------------------------------------------------------------------------
(* Every change of road weights is announced *)

\* A task that runs on after its Promise.all has rejected works on a segment that
\* nobody may announce.
OrphansMuted == \A t \in tasks : t.orphan # 0 => t.segment \in muted

\* The inductive invariant: besides, a version bump is never owed without an event.
AnnounceInv == OrphansMuted /\ dirty \subseteq unheard /\ EveryChangeIsAnnounced

LEMMA OrphansMutedStep ==
  ASSUME PipelineAssumption, TypeOK, OrphansMuted, [Next]_vars
  PROVE  OrphansMuted'
<1> USE DEF OrphansMuted
<1>t. \A t \in tasks : t \in Task
  BY DEF TypeOK
<1>1. ASSUME NEW o \in Owners, FindSegments(o) PROVE OrphansMuted'
  BY <1>1 DEF FindSegments
<1>2. ASSUME NEW t \in tasks, ListReports(t) PROVE OrphansMuted'
  <2>1. LET u == Holding(t, Listing(t.segment))
        IN  u.orphan = t.orphan /\ u.segment = t.segment
    BY <1>t, TaskType, ListingType
  <2> QED BY <1>2, <2>1 DEF ListReports
<1>3. ASSUME NEW t \in tasks, ReplaceRisk(t) \/ OrphanFails(t) PROVE OrphansMuted'
  BY <1>3 DEF ReplaceRisk, OrphanFails
<1>4. ASSUME NEW o \in Owners, StepFails(o) PROVE OrphansMuted'
  BY <1>4 DEF StepFails, Reject
<1>5. ASSUME NEW t \in tasks, TaskFails(t) PROVE OrphansMuted'
  <2> DEFINE left == {v \in tasks \ {t} : v.owner = t.owner /\ v.orphan = 0}
             running == {u.segment : u \in left}
  <2>1. muted \cup running \subseteq muted'
    BY <1>5 DEF TaskFails, Reject
  <2>2. ASSUME NEW u \in tasks', u.orphan # 0 PROVE u.segment \in muted'
    <3>1. PICK v \in tasks \ {t} : u = IF v \in left THEN Orphaned(v, failures + 1) ELSE v
      BY <1>5, <2>2 DEF TaskFails
    <3>2. CASE v \in left
      <4>1. u.segment = v.segment
        BY <1>t, <3>1, <3>2 DEF Orphaned, Task
      <4> QED BY <2>1, <3>2, <4>1
    <3>3. CASE v \notin left
      BY <2>1, <2>2, <3>1, <3>3
    <3> QED BY <3>2, <3>3
  <2> QED BY <2>2
<1>6. CASE WorkerCrash
  BY <1>6 DEF WorkerCrash
<1>7. CASE UNCHANGED <<tasks, muted>>
  BY <1>7
<1> QED
  BY <1>1, <1>2, <1>3, <1>4, <1>5, <1>6, <1>7
  DEF Next, Api, Create, Evaluate, Moderate, Committed, Enqueue, EnqueueFails, TimePasses,
     StartJob, Step, ReadContext, WriteConfidence, AllSettled, InvalidateGraph, Publish,
     TaskStep, SweepStep, ExpireDueReports, ListActiveReports, RefreshNext, SweepDone, vars

\* An owner that goes on owing what it owed keeps what is announced announced.
LEMMA AnnouncedKept ==
  ASSUME AnnounceInv, UNCHANGED <<dirty, unheard>>, muted \subseteq muted',
         \A s \in unheard \ muted', o \in Owners :
           /\ OwedBy(s, o, BeforeBump(o)) => OwedBy(s, o, BeforeBump(o))'
           /\ OwedBy(s, o, BeforeEvent(o)) => OwedBy(s, o, BeforeEvent(o))'
  PROVE  dirty' \subseteq unheard' /\ EveryChangeIsAnnounced'
<1>1. \A s \in dirty' \ muted' : \E o \in Owners : OwedBy(s, o, BeforeBump(o))'
  BY DEF AnnounceInv, EveryChangeIsAnnounced
<1>2. \A s \in unheard' \ muted' : \E o \in Owners : OwedBy(s, o, BeforeEvent(o))'
  BY DEF AnnounceInv, EveryChangeIsAnnounced
<1> QED BY <1>1, <1>2 DEF AnnounceInv, EveryChangeIsAnnounced

\* An owner that neither moves nor changes its report goes on owing.
LEMMA StillOwes ==
  ASSUME NEW s, NEW o,
         pc'[o] = pc[o], report'[o] = report[o],
         o # Sweep => attempts'[o] = attempts[o] /\ stalls'[o] = stalls[o]
  PROVE  /\ OwedBy(s, o, BeforeBump(o)) => OwedBy(s, o, BeforeBump(o))'
         /\ OwedBy(s, o, BeforeEvent(o)) => OwedBy(s, o, BeforeEvent(o))'
BY DEF OwedBy, BeforeEvent, BeforeBump, TriedAgain

\* A rejected attempt waits to do everything again, or what it owed is muted.
LEMMA RejectKeepsAnnounced ==
  ASSUME PipelineAssumption, TypeOK, AnnounceInv, NEW o \in Owners, NEW running,
         Reject(o, running)
  PROVE  dirty' \subseteq unheard' /\ EveryChangeIsAnnounced'
<1> USE DEF Reject, Goto
<1>0. /\ Sweep \in Owners /\ Sweep \notin Jobs /\ Owners = Jobs \cup {Sweep}
      /\ pc \in [Owners -> JobPc \cup SweepPc]
      /\ report \in [Owners -> Reports \cup {NoReport}]
      /\ attempts \in [Jobs -> 0 .. MaxAttempts - 1]
  BY DEF PipelineAssumption, Owners, TypeOK
<1>1. UNCHANGED <<dirty, unheard>> /\ muted \subseteq muted'
  OBVIOUS
<1>2. ASSUME NEW u \in Owners, u # o
      PROVE  /\ pc'[u] = pc[u] /\ report'[u] = report[u]
             /\ u # Sweep => attempts'[u] = attempts[u] /\ stalls'[u] = stalls[u]
  BY <1>0, <1>2
<1>3. ASSUME NEW s \in unheard \ muted'
      PROVE  /\ OwedBy(s, o, BeforeBump(o)) => OwedBy(s, o, BeforeBump(o))'
             /\ OwedBy(s, o, BeforeEvent(o)) => OwedBy(s, o, BeforeEvent(o))'
  <2>1. OwedBy(s, o, BeforeBump(o)) => OwedBy(s, o, BeforeEvent(o))
    BY DEF OwedBy, BeforeEvent
  <2>2. CASE o # Sweep /\ attempts[o] + 1 < MaxAttempts
    <3>1. /\ pc'[o] = "waiting" /\ report'[o] = report[o] /\ attempts'[o] = attempts[o] + 1
          /\ attempts[o] \in Nat
      BY <1>0, <2>2
    <3>2. TriedAgain(o)'
      BY <3>1 DEF TriedAgain
    <3>3. OwedBy(s, o, BeforeEvent(o)) => s \in Near[report[o]]
      BY <2>2 DEF OwedBy
    <3> QED BY <2>1, <2>2, <3>1, <3>2, <3>3 DEF OwedBy, BeforeBump, BeforeEvent
  <2>3. CASE ~(o # Sweep /\ attempts[o] + 1 < MaxAttempts)
    <3>1. s \notin Owed(o)
      BY <1>3, <2>3
    <3>2. ~OwedBy(s, o, BeforeEvent(o))
      BY <1>3, <3>1 DEF Owed
    <3> QED BY <2>1, <3>2
  <2> QED BY <2>2, <2>3
<1>4. ASSUME NEW s \in unheard \ muted', NEW u \in Owners
      PROVE  /\ OwedBy(s, u, BeforeBump(u)) => OwedBy(s, u, BeforeBump(u))'
             /\ OwedBy(s, u, BeforeEvent(u)) => OwedBy(s, u, BeforeEvent(u))'
  <2>1. CASE u = o
    BY <1>3, <2>1
  <2>2. CASE u # o
    BY <1>2, <2>2, StillOwes
  <2> QED BY <2>1, <2>2
<1> HIDE DEF Reject
<1> QED BY <1>1, <1>4, AnnouncedKept

LEMMA AnnouncedStep ==
  ASSUME PipelineAssumption, TypeOK, AnnounceInv, [Next]_vars
  PROVE  dirty' \subseteq unheard' /\ EveryChangeIsAnnounced'
<1> USE DEF Goto
<1> DEFINE Goal == dirty' \subseteq unheard' /\ EveryChangeIsAnnounced'
           Still(s, u) == /\ OwedBy(s, u, BeforeBump(u)) => OwedBy(s, u, BeforeBump(u))'
                          /\ OwedBy(s, u, BeforeEvent(u)) => OwedBy(s, u, BeforeEvent(u))'
<1>t. /\ Sweep \in Owners /\ Sweep \notin Jobs /\ Owners = Jobs \cup {Sweep}
      /\ pc \in [Owners -> JobPc \cup SweepPc]
      /\ report \in [Owners -> Reports \cup {NoReport}]
      /\ attempts \in [Jobs -> 0 .. MaxAttempts - 1]
      /\ stalls \in [Jobs -> 0 .. MaxStalledCount]
  BY DEF PipelineAssumption, Owners, TypeOK
<1>p. {"context", "confidence", "segments", "await", "next", "invalidate", "publish"} \subseteq SweepPc
  BY DEF SweepPc, Running, Refreshing
<1>1. ASSUME NEW o \in Owners,
             UNCHANGED <<dirty, unheard, muted, stalls>>,
             \A u \in Owners \ {o} : pc'[u] = pc[u] /\ report'[u] = report[u],
             \A j \in Jobs \ {o} : attempts'[j] = attempts[j],
             \A s \in unheard : Still(s, o)
      PROVE  Goal
  <2>1. ASSUME NEW s \in unheard \ muted', NEW u \in Owners PROVE Still(s, u)
    <3>1. CASE u = o
      BY <1>1, <2>1, <3>1
    <3>2. CASE u # o
      BY <1>1, <1>t, <3>2, StillOwes
    <3> QED BY <3>1, <3>2
  <2> QED BY <1>1, <2>1, AnnouncedKept
<1>2. ASSUME UNCHANGED <<pc, report, attempts, stalls, dirty, unheard, muted>> PROVE Goal
  BY <1>2, <1>1, <1>t, StillOwes
<1>3. ASSUME NEW r \in Reports, NEW j \in Jobs, Enqueue(r, j) PROVE Goal
  <2>1. /\ UNCHANGED <<dirty, unheard>> /\ muted \subseteq muted'
        /\ \A u \in Owners \ {j} : /\ pc'[u] = pc[u] /\ report'[u] = report[u]
                                   /\ u # Sweep => attempts'[u] = attempts[u] /\ stalls'[u] = stalls[u]
    BY <1>3, <1>t DEF Enqueue
  <2>2. \A s : ~OwedBy(s, j, BeforeBump(j)) /\ ~OwedBy(s, j, BeforeEvent(j))
    BY <1>3, <1>t DEF Enqueue, OwedBy, BeforeBump, BeforeEvent, Refreshing
  <2>3. \A s \in unheard \ muted', u \in Owners : Still(s, u)
    BY <2>1, <2>2, StillOwes
  <2> QED BY <2>1, <2>3, AnnouncedKept
<1>4. ASSUME NEW j \in Jobs, StartJob(j) PROVE Goal
  <2>1. /\ UNCHANGED <<dirty, unheard, muted, stalls, attempts, report>>
        /\ \A u \in Owners \ {j} : pc'[u] = pc[u]
        /\ pc[j] = "waiting" /\ pc'[j] = "context"
    BY <1>4, <1>t DEF StartJob
  <2>2. \A s \in unheard : Still(s, j)
    BY <1>t, <2>1 DEF OwedBy, BeforeBump, BeforeEvent, TriedAgain, Refreshing
  <2> QED BY <1>1, <1>t, <2>1, <2>2
<1>5. ASSUME NEW o \in Owners, ReadContext(o) \/ WriteConfidence(o) \/ FindSegments(o)
      PROVE  Goal
  <2>1. /\ UNCHANGED <<dirty, unheard, muted, stalls, attempts, report>>
        /\ \A u \in Owners \ {o} : pc'[u] = pc[u]
        /\ pc[o] \in {"context", "confidence", "segments"}
        /\ pc'[o] \in {"confidence", "segments", "await"}
    BY <1>5, <1>t DEF ReadContext, WriteConfidence, FindSegments
  <2>2. \A s \in unheard : Still(s, o)
    BY <1>p, <2>1 DEF OwedBy, BeforeBump, BeforeEvent, TriedAgain, Refreshing
  <2> QED BY <1>1, <2>1, <2>2
<1>6. ASSUME NEW o \in Owners, AllSettled(o) PROVE Goal
  <2>1. /\ UNCHANGED <<dirty, unheard, muted, stalls, attempts>>
        /\ \A u \in Owners \ {o} : pc'[u] = pc[u] /\ report'[u] = report[u]
        /\ o = Sweep => pc'[o] = "next"
        /\ o # Sweep => pc'[o] = "invalidate" /\ report'[o] = report[o]
    BY <1>6, <1>t DEF AllSettled
  <2>2. \A s \in unheard : Still(s, o)
    BY <1>p, <2>1 DEF OwedBy, BeforeBump, BeforeEvent
  <2> QED BY <1>1, <2>1, <2>2
<1>7. ASSUME NEW o \in Owners, InvalidateGraph(o) PROVE Goal
  <2>1. /\ dirty' = {} /\ UNCHANGED <<unheard, muted, stalls, attempts, report>>
        /\ pc'[o] = "publish" /\ \A u \in Owners \ {o} : pc'[u] = pc[u]
        /\ pc[o] = "invalidate"
    BY <1>7, <1>t DEF InvalidateGraph
  <2>2. ASSUME NEW s, NEW u \in Owners, OwedBy(s, u, BeforeEvent(u))
        PROVE  OwedBy(s, u, BeforeEvent(u))'
    <3>1. CASE u = o
      BY <2>1, <2>2, <3>1 DEF OwedBy, BeforeEvent
    <3>2. CASE u # o
      BY <2>1, <2>2, <3>2, StillOwes
    <3> QED BY <3>1, <3>2
  <2>3. \A s \in unheard' \ muted' : \E u \in Owners : OwedBy(s, u, BeforeEvent(u))'
    BY <2>1, <2>2 DEF AnnounceInv, EveryChangeIsAnnounced
  <2> QED BY <2>1, <2>3 DEF EveryChangeIsAnnounced
<1>8. ASSUME NEW o \in Owners, Publish(o) PROVE Goal
  <2>1. /\ pc[o] = "publish" /\ unheard' = unheard \cap dirty
        /\ UNCHANGED <<dirty, muted, stalls, attempts>>
        /\ \A u \in Owners \ {o} : pc'[u] = pc[u] /\ report'[u] = report[u]
    BY <1>8, <1>t DEF Publish
  <2>2. ASSUME NEW s, NEW u \in Owners, OwedBy(s, u, BeforeBump(u))
        PROVE  OwedBy(s, u, BeforeBump(u))' /\ OwedBy(s, u, BeforeEvent(u))'
    <3>1. u # o
      BY <2>1, <2>2 DEF OwedBy, BeforeBump, Refreshing
    <3>2. OwedBy(s, u, BeforeEvent(u))
      BY <2>2 DEF OwedBy, BeforeEvent
    <3> QED BY <2>1, <2>2, <3>1, <3>2, StillOwes
  <2>3. \A s \in dirty \ muted : \E u \in Owners : OwedBy(s, u, BeforeBump(u))
    BY DEF AnnounceInv, EveryChangeIsAnnounced
  <2>4. /\ \A s \in dirty' \ muted' : \E u \in Owners : OwedBy(s, u, BeforeBump(u))'
        /\ \A s \in unheard' \ muted' : \E u \in Owners : OwedBy(s, u, BeforeEvent(u))'
    BY <2>1, <2>2, <2>3
  <2>5. dirty' \subseteq unheard'
    BY <2>1 DEF AnnounceInv
  <2> QED BY <2>4, <2>5 DEF EveryChangeIsAnnounced
<1>9. ASSUME NEW t \in tasks, ReplaceRisk(t) PROVE Goal
  <2>1. /\ UNCHANGED <<pc, report, attempts, stalls, muted>>
        /\ dirty' = dirty \cup {t.segment} /\ unheard' = unheard \cup {t.segment}
    BY <1>9 DEF ReplaceRisk
  <2>2. \A s : \A u \in Owners : Still(s, u)
    BY <2>1 DEF OwedBy, BeforeEvent, BeforeBump, TriedAgain
  <2>3. t.segment \notin muted =>
          \E u \in Owners : OwedBy(t.segment, u, BeforeBump(u))' /\ OwedBy(t.segment, u, BeforeEvent(u))'
    <3> SUFFICES ASSUME t.segment \notin muted
                 PROVE  /\ t.owner \in Owners
                        /\ OwedBy(t.segment, t.owner, BeforeBump(t.owner))'
                        /\ OwedBy(t.segment, t.owner, BeforeEvent(t.owner))'
      OBVIOUS
    <3>1. /\ t.owner \in Owners
          /\ pc[t.owner] = "await" /\ t.segment \in Near[report[t.owner]]
      BY TaskType DEF AnnounceInv, OrphansMuted, TypeOK
    <3> QED BY <1>p, <2>1, <3>1 DEF OwedBy, BeforeEvent, BeforeBump
  <2>4. /\ \A s \in dirty \ muted : \E u \in Owners : OwedBy(s, u, BeforeBump(u))
        /\ \A s \in unheard \ muted : \E u \in Owners : OwedBy(s, u, BeforeEvent(u))
    BY DEF AnnounceInv, EveryChangeIsAnnounced
  <2>5. /\ \A s \in dirty' \ muted' : \E u \in Owners : OwedBy(s, u, BeforeBump(u))'
        /\ \A s \in unheard' \ muted' : \E u \in Owners : OwedBy(s, u, BeforeEvent(u))'
    BY <2>1, <2>2, <2>3, <2>4
  <2> QED BY <2>1, <2>5 DEF AnnounceInv, EveryChangeIsAnnounced
<1>10. ASSUME SweepStep PROVE Goal
  <2>1. /\ UNCHANGED <<dirty, unheard, muted, stalls, attempts>>
        /\ \A j \in Jobs : pc'[j] = pc[j] /\ report'[j] = report[j]
        /\ pc[Sweep] \in {"idle", "list"} \/ pc'[Sweep] \in {"context", "invalidate"}
    BY <1>10, <1>t DEF SweepStep, ExpireDueReports, ListActiveReports, RefreshNext, SweepDone
  <2>2. \A s \in unheard : Still(s, Sweep)
    BY <1>p, <2>1 DEF OwedBy, BeforeEvent, BeforeBump
  <2> QED BY <1>1, <1>t, <2>1, <2>2
<1>11. ASSUME NEW o \in Owners, StepFails(o) PROVE Goal
  BY <1>11, RejectKeepsAnnounced DEF StepFails
<1>12. ASSUME NEW t \in tasks, TaskFails(t) PROVE Goal
  <2>1. t.owner \in Owners
    BY TaskType DEF TypeOK
  <2> QED BY <1>12, <2>1, RejectKeepsAnnounced DEF TaskFails
<1>13. ASSUME WorkerCrash PROVE Goal
  <2>0. GivenUp \subseteq UnderWay /\ UnderWay \subseteq Jobs
    BY DEF GivenUp, UnderWay
  <2>1. /\ UNCHANGED <<dirty, unheard, attempts>>
        /\ muted' = muted \cup UNION {Owed(o) : o \in GivenUp \cup {Sweep}}
        /\ \A j \in Jobs \ UnderWay : pc'[j] = pc[j] /\ stalls'[j] = stalls[j]
        /\ \A j \in UnderWay \ GivenUp : pc'[j] = "waiting" /\ stalls'[j] = stalls[j] + 1
        /\ \A j \in Jobs : pc'[j] = "waiting" => report'[j] = report[j]
    BY <1>13, <1>t, <2>0 DEF WorkerCrash
  <2>2. ASSUME NEW s \in unheard \ muted', NEW u \in Owners PROVE Still(s, u)
    <3>1. CASE u \in GivenUp \cup {Sweep}
      <4>1. s \notin Owed(u)
        BY <2>1, <2>2, <3>1
      <4>2. ~OwedBy(s, u, BeforeEvent(u)) /\ ~OwedBy(s, u, BeforeBump(u))
        BY <2>2, <4>1 DEF Owed, OwedBy, BeforeEvent
      <4> QED BY <4>2
    <3>2. CASE u \in UnderWay \ GivenUp
      <4>1. TriedAgain(u)' /\ pc'[u] = "waiting" /\ report'[u] = report[u] /\ u # Sweep
        BY <1>t, <2>0, <2>1, <3>2 DEF TriedAgain
      <4> QED BY <4>1 DEF OwedBy, BeforeEvent, BeforeBump
    <3>3. CASE u \in Jobs \ UnderWay
      <4>1. pc'[u] = pc[u] /\ attempts'[u] = attempts[u] /\ stalls'[u] = stalls[u] /\ u # Sweep
        BY <1>t, <2>1, <3>3
      <4>2. CASE pc[u] = "waiting"
        BY <2>1, <3>3, <4>1, <4>2, StillOwes
      <4>3. CASE pc[u] # "waiting"
        BY <3>3, <4>1, <4>3 DEF OwedBy, BeforeEvent, BeforeBump, UnderWay, Running, Refreshing
      <4> QED BY <4>2, <4>3
    <3> QED BY <1>t, <3>1, <3>2, <3>3
  <2>3. muted \subseteq muted'
    BY <2>1
  <2> QED BY <2>1, <2>2, <2>3, AnnouncedKept
<1> QED
  <2>1. ASSUME NEW r \in Reports, Api(r) PROVE Goal
    BY <2>1, <1>2, <1>3 DEF Api, Create, Evaluate, Moderate, Committed, EnqueueFails, TimePasses
  <2>2. ASSUME NEW t \in tasks, ListReports(t) \/ OrphanFails(t) PROVE Goal
    BY <2>2, <1>2 DEF ListReports, OrphanFails
  <2>3. ASSUME UNCHANGED vars PROVE Goal
    BY <2>3, <1>2 DEF vars
  <2>4. Goal
    <3> HIDE DEF Goal
    <3> QED
      BY <2>1, <2>2, <2>3, <1>4, <1>5, <1>6, <1>7, <1>8, <1>9, <1>10, <1>11, <1>12, <1>13
      DEF Next, Step, TaskStep
  <2> QED BY <2>4

\* Every replaced segment has a refresh in progress that will still increment the
\* cache version after it, and one that will still publish an event after that, or a
\* failure dropped these for it.
THEOREM ChangesAnnounced == Spec => []EveryChangeIsAnnounced
<1>1. Init => TypeOK /\ AnnounceInv
  <2> SUFFICES ASSUME Init PROVE TypeOK /\ AnnounceInv
    OBVIOUS
  <2>1. TypeOK
    BY TypeInit, PipelineAssumption
  <2> QED BY <2>1 DEF Init, AnnounceInv, OrphansMuted, EveryChangeIsAnnounced
<1>2. TypeOK /\ AnnounceInv /\ [Next]_vars => TypeOK' /\ AnnounceInv'
  BY TypeStep, OrphansMutedStep, AnnouncedStep, PipelineAssumption DEF AnnounceInv
<1>3. AnnounceInv => EveryChangeIsAnnounced
  BY DEF AnnounceInv
<1> QED BY <1>1, <1>2, <1>3, PTL DEF Spec

=============================================================================
