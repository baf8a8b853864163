--------------------------- MODULE PlatformProofs ---------------------------
(***************************************************************************)
(* Theorems of Platform, for any containers, migration files, places for   *)
(* requests, accounts and reports.                                         *)
(*                                                                         *)
(* Of the containers: the advisory lock is held through the loop of        *)
(* migrate(), so at most one container is between the check of a file and  *)
(* its COMMIT; what it has passed is recorded, so the next file it commits *)
(* is the one behind the last that was applied; and it leaves the loop     *)
(* without an error only when all its files are recorded, which nothing    *)
(* takes back.                                                             *)
(*                                                                         *)
(* Of the refinement: a decision is checked against the row and the other  *)
(* decisions while its transaction holds the row's lock, and nobody else   *)
(* can then decide on the report, so that what was checked is still true   *)
(* at the COMMIT, where the abstract decision happens.  Every other        *)
(* statement that writes is by itself an abstract step.                    *)
(***************************************************************************)
EXTENDS Platform, FiniteSetTheorems, TLAPS

-----------------------------------------------------------------------------
(* The containers *)

\* Only the holder of the advisory lock is in the loop.
LoopIsLocked == \A i \in Instances : phase[i] \in {"check", "script", "commit"} => advisoryLock = i

\* The files before the one a container is at are recorded.
PassedIsRecorded == \A i \in Instances : file[i] # 0 /\ \A k \in 1 .. file[i] : k # file[i] => k \in recorded

\* It applies only files of its image, and unlocks without an error only with all.
LoopIsDone ==
  \A i \in Instances :
    /\ phase[i] \in {"script", "commit"} => file[i] <= Image[i]
    /\ phase[i] = "unlock" /\ i \notin failed => 1 .. Image[i] \subseteq recorded

DeploymentInv ==
  /\ DeploymentTypeOK
  /\ SchemaInOrder
  /\ LoopIsLocked
  /\ PassedIsRecorded
  /\ LoopIsDone
  /\ RunsOnItsSchema
  /\ NobodyAppliesTwice

\* A schema whose scripts are in order holds the numbers up to its length.
LEMMA InOrder ==
  ASSUME schema \in Seq(Nat), \A k \in DOMAIN schema : schema[k] = k
  PROVE  Applied = 1 .. Len(schema)
BY DEF Applied

\* The COMMIT of a file applies the next script of the order.
LEMMA NextScript ==
  ASSUME DeploymentInv, NEW i \in Instances, phase[i] = "commit",
         schema' = Append(schema, file[i]), recorded' = recorded \cup {file[i]}
  PROVE  /\ schema' \in Seq(Nat) /\ recorded' \subseteq Nat
         /\ SchemaInOrder'
         /\ Applied' = Applied \cup {file[i]}
<1>1. /\ schema \in Seq(Nat) /\ file[i] \in Nat /\ recorded \subseteq Nat
      /\ \A k \in DOMAIN schema : schema[k] = k
      /\ recorded = Applied
  BY DEF DeploymentInv, DeploymentTypeOK, SchemaInOrder
<1>2. Applied = 1 .. Len(schema)
  BY <1>1, InOrder
<1>3. file[i] # 0 /\ file[i] \notin Applied /\ \A k \in 1 .. file[i] : k # file[i] => k \in Applied
  BY <1>1 DEF DeploymentInv, PassedIsRecorded, NobodyAppliesTwice
<1>4. file[i] = Len(schema) + 1
  <2>1. ~(file[i] <= Len(schema))
    BY <1>1, <1>2, <1>3
  <2>2. ~(file[i] > Len(schema) + 1)
    BY <1>1, <1>2, <1>3
  <2> QED BY <1>1, <2>1, <2>2
<1>5. schema' \in Seq(Nat) /\ Len(schema') = Len(schema) + 1
  BY <1>1
<1>6. \A k \in DOMAIN schema' : schema'[k] = k
  BY <1>1, <1>4
<1>7. Applied' = 1 .. Len(schema')
  BY <1>5, <1>6 DEF Applied
<1>8. Applied' = Applied \cup {file[i]}
  BY <1>1, <1>2, <1>4, <1>5, <1>7
<1> QED BY <1>1, <1>5, <1>6, <1>8 DEF SchemaInOrder

LEMMA DeploymentInitInv == DeploymentInit => DeploymentInv
<1> SUFFICES ASSUME DeploymentInit PROVE DeploymentInv OBVIOUS
<1> USE DEF DeploymentInit
<1>1. DeploymentTypeOK
  BY DEF DeploymentTypeOK, Phase, Migrating, Closing
<1>2. SchemaInOrder
  BY DEF SchemaInOrder, Applied
<1>3. LoopIsLocked /\ PassedIsRecorded /\ LoopIsDone /\ RunsOnItsSchema /\ NobodyAppliesTwice
  BY DEF LoopIsLocked, PassedIsRecorded, LoopIsDone, RunsOnItsSchema, NobodyAppliesTwice, Closing
<1> QED BY <1>1, <1>2, <1>3 DEF DeploymentInv

-----------------------------------------------------------------------------
(* Every action of the containers preserves DeploymentInv *)

USE DEF Migrating, Closing, GoOn, Rewind, Released

\* What applies no file leaves the schema alone, whoever moves on.
LEMMA SchemaKept ==
  ASSUME DeploymentInv, UNCHANGED <<schema, recorded>>
  PROVE  SchemaInOrder' /\ Applied' = Applied
BY DEF DeploymentInv, SchemaInOrder, Applied

\* The loop of migrate().
LEMMA MigrateStep ==
  ASSUME DeploymentAssumption, DeploymentInv, NEW i \in Instances,
         Start(i) \/ Migrate(i), ~Commit(i)
  PROVE  DeploymentInv'
<1>0. /\ Start(i) \/ AcquireLock(i) \/ Check(i) \/ RunScript(i) \/ Unlock(i)
      /\ UNCHANGED <<schema, recorded>>
  BY DEF Migrate, Start, AcquireLock, Check, RunScript, Unlock
<1>1. SchemaInOrder' /\ Applied' = Applied
  BY <1>0, SchemaKept
<1> USE <1>0 DEF DeploymentAssumption, DeploymentInv, DeploymentTypeOK, Start, AcquireLock, Check,
                 RunScript, Unlock
<1>2. DeploymentTypeOK'
  <2>1. CASE Start(i)
    BY <2>1 DEF Phase
  <2>2. CASE AcquireLock(i)
    BY <2>2 DEF Phase
  <2>3. CASE Check(i)
    <3>1. phase' \in [Instances -> Phase] /\ file' \in [Instances -> Nat]
      <4>1. CASE file[i] > Image[i]
        <5>1. phase' = [phase EXCEPT ![i] = "unlock"] /\ file' = [file EXCEPT ![i] = 1]
          BY <2>3, <4>1
        <5> QED BY <5>1 DEF Phase
      <4>2. CASE ~(file[i] > Image[i]) /\ file[i] \in recorded
        BY <2>3, <4>2 DEF Phase
      <4>3. CASE ~(file[i] > Image[i]) /\ file[i] \notin recorded
        BY <2>3, <4>3 DEF Phase
      <4> QED BY <4>1, <4>2, <4>3
    <3>2. failed' \subseteq Instances /\ advisoryLock' \in Instances \cup {Nobody}
      BY <2>3
    <3>3. \A j \in failed' : phase'[j] = "unlock"
      BY <2>3
    <3>4. \A j \in Instances : phase'[j] \notin Migrating => file'[j] = 1
      BY <2>3
    <3> QED BY <3>1, <3>2, <3>3, <3>4
  <2>4. CASE RunScript(i)
    <3>1. phase' \in [Instances -> Phase] /\ file' \in [Instances -> Nat]
      <4>1. CASE file[i] \in Applied
        <5>1. phase' = [phase EXCEPT ![i] = "unlock"] /\ file' = [file EXCEPT ![i] = 1]
          BY <2>4, <4>1
        <5> QED BY <5>1 DEF Phase
      <4>2. CASE file[i] \notin Applied
        BY <2>4, <4>2 DEF Phase
      <4> QED BY <4>1, <4>2
    <3>2. failed' \subseteq Instances /\ advisoryLock' \in Instances \cup {Nobody}
      BY <2>4
    <3>3. \A j \in failed' : phase'[j] = "unlock"
      BY <2>4
    <3>4. \A j \in Instances : phase'[j] \notin Migrating => file'[j] = 1
      BY <2>4
    <3> QED BY <3>1, <3>2, <3>3, <3>4
  <2>5. CASE Unlock(i)
    BY <2>5 DEF Phase
  <2> QED BY <2>1, <2>2, <2>3, <2>4, <2>5
<1>3. LoopIsLocked'
  BY DEF LoopIsLocked
<1>4. PassedIsRecorded'
  <2>1. CASE Start(i)
    BY <2>1 DEF PassedIsRecorded
  <2>2. CASE AcquireLock(i)
    BY <2>2 DEF PassedIsRecorded
  <2>3. CASE Check(i)
    BY <2>3 DEF PassedIsRecorded
  <2>4. CASE RunScript(i)
    BY <2>4 DEF PassedIsRecorded
  <2>5. CASE Unlock(i)
    BY <2>5 DEF PassedIsRecorded
  <2> QED BY <2>1, <2>2, <2>3, <2>4, <2>5
<1>5. LoopIsDone'
  <2>1. CASE Start(i)
    BY <2>1 DEF LoopIsDone, PassedIsRecorded
  <2>2. CASE AcquireLock(i)
    BY <2>2 DEF LoopIsDone, PassedIsRecorded
  <2>3. CASE Check(i)
    <3>1. CASE file[i] > Image[i]
      <4>1. 1 .. Image[i] \subseteq recorded
        BY <3>1 DEF PassedIsRecorded
      <4> QED BY <2>3, <3>1, <4>1 DEF LoopIsDone
    <3>2. CASE ~(file[i] > Image[i])
      <4>1. CASE file[i] \in recorded
        BY <2>3, <3>2, <4>1 DEF LoopIsDone
      <4>2. CASE file[i] \notin recorded
        BY <2>3, <3>2, <4>2 DEF LoopIsDone
      <4> QED BY <4>1, <4>2
    <3> QED BY <3>1, <3>2
  <2>4. CASE RunScript(i)
    BY <2>4 DEF LoopIsDone, PassedIsRecorded
  <2>5. CASE Unlock(i)
    BY <2>5 DEF LoopIsDone, PassedIsRecorded
  <2> QED BY <2>1, <2>2, <2>3, <2>4, <2>5
<1>6. RunsOnItsSchema'
  <2> DEFINE Runs == {"serving"} \cup Closing
  <2>1. CASE Start(i) \/ AcquireLock(i) \/ Check(i) \/ RunScript(i)
    <3>1. \A j \in Instances : phase'[j] \in Runs => phase[j] \in Runs
      BY <2>1
    <3> QED BY <1>1, <3>1 DEF RunsOnItsSchema
  <2>2. CASE Unlock(i)
    BY <2>2, <1>1 DEF RunsOnItsSchema, LoopIsDone, SchemaInOrder
  <2> QED BY <2>1, <2>2
<1>7. NobodyAppliesTwice'
  BY <1>1 DEF NobodyAppliesTwice, SchemaInOrder
<1> QED BY <1>1, <1>2, <1>3, <1>4, <1>5, <1>6, <1>7

\* The COMMIT, and the end of a loop that may have lost the answer to it.
LEMMA CommitStep ==
  ASSUME DeploymentAssumption, DeploymentInv, NEW i \in Instances,
         Commit(i) \/ MigrationFails(i)
  PROVE  DeploymentInv'
<1>1. /\ schema' \in Seq(Nat) /\ recorded' \subseteq Nat
      /\ SchemaInOrder'
      /\ Applied \subseteq Applied' /\ recorded \subseteq recorded'
  <2>1. CASE UNCHANGED <<schema, recorded>>
    BY <2>1, SchemaKept DEF DeploymentInv, DeploymentTypeOK
  <2>2. CASE phase[i] = "commit" /\ schema' = Append(schema, file[i]) /\ recorded' = recorded \cup {file[i]}
    BY <2>2, NextScript
  <2> QED BY <2>1, <2>2 DEF Commit, MigrationFails
<1>2. \A j \in Instances : phase'[j] \in {"script", "commit"} => j # i /\ UNCHANGED <<schema, recorded>>
  <2> SUFFICES ASSUME NEW j \in Instances, phase'[j] \in {"script", "commit"}
               PROVE  j # i /\ UNCHANGED <<schema, recorded>>
    OBVIOUS
  <2>1. j # i /\ phase[j] = phase'[j]
    BY DEF Commit, MigrationFails, DeploymentInv, DeploymentTypeOK
  <2>2. phase[i] # "commit"
    BY <2>1 DEF DeploymentInv, LoopIsLocked
  <2> QED BY <2>1, <2>2 DEF Commit, MigrationFails
<1> USE DEF DeploymentInv, DeploymentTypeOK, Commit, MigrationFails
<1>3. DeploymentTypeOK'
  <2>1. CASE Commit(i)
    BY <2>1, <1>1 DEF Phase
  <2>2. CASE MigrationFails(i)
    BY <2>2, <1>1 DEF Phase
  <2> QED BY <2>1, <2>2
<1>4. LoopIsLocked'
  BY DEF LoopIsLocked
<1>5. PassedIsRecorded'
  BY <1>1 DEF PassedIsRecorded
<1>6. LoopIsDone'
  BY <1>1, <1>2 DEF LoopIsDone
<1>7. RunsOnItsSchema'
  BY <1>1 DEF RunsOnItsSchema
<1>8. NobodyAppliesTwice'
  BY <1>2 DEF NobodyAppliesTwice, Applied
<1> QED BY <1>1, <1>3, <1>4, <1>5, <1>6, <1>7, <1>8

\* The shutdown and the end of a process.
LEMMA ShutdownStep ==
  ASSUME DeploymentAssumption, DeploymentInv, NEW i \in Instances,
         Signal(i) \/ RealtimeClosed(i) \/ Drained(i) \/ Ends(i)
  PROVE  DeploymentInv'
<1>0. /\ Signal(i) \/ RealtimeClosed(i) \/ Drained(i) \/ Exit(i)
      /\ UNCHANGED <<schema, recorded>>
  BY DEF Signal, RealtimeClosed, Drained, Ends, PoolsClosed, SecondShutdown, Deadline, Crash, Exit
<1>1. SchemaInOrder' /\ Applied' = Applied
  BY <1>0, SchemaKept
<1> USE <1>0 DEF DeploymentAssumption, DeploymentInv, DeploymentTypeOK, Signal, RealtimeClosed, Drained, Exit
<1>2. DeploymentTypeOK'
  <2>1. CASE Signal(i)
    BY <2>1 DEF Phase
  <2>2. CASE RealtimeClosed(i)
    BY <2>2 DEF Phase
  <2>3. CASE Drained(i)
    BY <2>3 DEF Phase
  <2>4. CASE Exit(i)
    <3>1. phase' \in [Instances -> Phase] /\ file' \in [Instances -> Nat]
      BY <2>4 DEF Phase
    <3>2. failed' \subseteq Instances /\ advisoryLock' \in Instances \cup {Nobody}
      BY <2>4
    <3>3. \A j \in failed' : phase'[j] = "unlock"
      BY <2>4
    <3>4. \A j \in Instances : phase'[j] \notin Migrating => file'[j] = 1
      BY <2>4
    <3> QED BY <3>1, <3>2, <3>3, <3>4
  <2> QED BY <2>1, <2>2, <2>3, <2>4
<1>3. LoopIsLocked'
  BY DEF LoopIsLocked
<1>4. PassedIsRecorded'
  BY DEF PassedIsRecorded
<1>5. LoopIsDone'
  BY DEF LoopIsDone
<1>6. RunsOnItsSchema'
  BY <1>1 DEF RunsOnItsSchema
<1>7. NobodyAppliesTwice'
  BY <1>1 DEF NobodyAppliesTwice
<1> QED BY <1>1, <1>2, <1>3, <1>4, <1>5, <1>6, <1>7

LEMMA DeploymentStep ==
  ASSUME DeploymentAssumption, DeploymentInv, [DeploymentNext]_deploymentVars
  PROVE  DeploymentInv'
<1>1. CASE UNCHANGED deploymentVars
  BY <1>1 DEF deploymentVars, DeploymentInv, DeploymentTypeOK, SchemaInOrder, LoopIsLocked, PassedIsRecorded,
              LoopIsDone, RunsOnItsSchema, NobodyAppliesTwice, Applied
<1>2. CASE \E i \in Instances : Goes(i) \/ Ends(i)
  <2>1. PICK i \in Instances : Goes(i) \/ Ends(i)
    BY <1>2
  <2>2. CASE (Start(i) \/ Migrate(i)) /\ ~Commit(i)
    BY <2>2, MigrateStep
  <2>3. CASE Commit(i) \/ MigrationFails(i)
    BY <2>3, CommitStep
  <2>4. CASE Signal(i) \/ RealtimeClosed(i) \/ Drained(i) \/ Ends(i)
    BY <2>4, ShutdownStep
  <2> QED BY <2>1, <2>2, <2>3, <2>4 DEF Goes
<1> QED BY <1>1, <1>2 DEF DeploymentNext

\* Whatever starts together and wherever processes die, the schema is that of the
\* files applied, in order, each once and recorded (migrate.ts); a server or worker
\* runs only on one that has all its files, and nobody applies, or collides with, what
\* another has applied.
THEOREM SchemaCorrect ==
  DeploymentSpec => [](DeploymentTypeOK /\ SchemaInOrder /\ RunsOnItsSchema /\ NobodyAppliesTwice)
<1>1. DeploymentInit => DeploymentInv
  BY DeploymentInitInv
<1>2. DeploymentInv /\ [DeploymentNext]_deploymentVars => DeploymentInv'
  BY DeploymentStep, DeploymentAssumption
<1>3. DeploymentInv => DeploymentTypeOK /\ SchemaInOrder /\ RunsOnItsSchema /\ NobodyAppliesTwice
  BY DEF DeploymentInv
<1> QED BY <1>1, <1>2, <1>3, PTL DEF DeploymentSpec

HIDE DEF Migrating, Closing, GoOn, Rewind, Released

-----------------------------------------------------------------------------
(* What the promise of Community implies *)

LEMMA StatusTypes ==
  /\ {"absent", "PENDING", "VERIFIED", "REJECTED", "EXPIRED"} \subseteq Promise!Status
  /\ Promise!Verdicts \subseteq Promise!Status
BY DEF Promise!Status, Promise!ActiveStatus, Promise!Verdicts

\* Community counts as its instance does.
LEMMA SameCardinality == \A S : Promise!Cardinality(S) = Cardinality(S)
BY DEF Promise!Cardinality, Cardinality

CommunityInv == Promise!TypeOK /\ IsFiniteSet(decisions) /\ Promise!CountsAreDecisions

\* A new decision is one more among those of its report and kind, and no other.
LEMMA DecideCounts ==
  ASSUME CommunityInv, NEW d \in Promise!Decisions, Promise!Decide(d)
  PROVE  CommunityInv'
<1> USE DEF CommunityInv
<1>1. d \notin decisions
  BY DEF Promise!Decide, Promise!HasDecided
<1>2. Promise!TypeOK'
  BY DEF Promise!TypeOK, Promise!Decide, Promise!Decisions
<1>3. IsFiniteSet(decisions')
  BY FS_AddElement DEF Promise!Decide
<1>4. \A r \in Reports, e \in Promise!Decision : counts'[r][e] = Cardinality(Promise!On(r, e)')
  <2> SUFFICES ASSUME NEW r \in Reports, NEW e \in Promise!Decision
               PROVE  counts'[r][e] = Cardinality(Promise!On(r, e)')
    OBVIOUS
  <2>1. IsFiniteSet(Promise!On(r, e))
    BY FS_Subset DEF Promise!On
  <2>2. counts[r][e] = Cardinality(Promise!On(r, e))
    BY SameCardinality DEF Promise!CountsAreDecisions
  <2>3. CASE d.report = r /\ d.decision = e
    <3>1. Promise!On(r, e)' = Promise!On(r, e) \cup {d} /\ d \notin Promise!On(r, e)
      BY <1>1, <2>3 DEF Promise!On, Promise!Decide
    <3>2. Cardinality(Promise!On(r, e)') = Cardinality(Promise!On(r, e)) + 1
      BY <2>1, <3>1, FS_AddElement
    <3>3. counts'[r][e] = counts[r][e] + 1
      BY <2>3 DEF Promise!Decide, Promise!TypeOK
    <3> QED BY <2>2, <3>2, <3>3
  <2>4. CASE ~(d.report = r /\ d.decision = e)
    <3>1. Promise!On(r, e)' = Promise!On(r, e)
      BY <2>4 DEF Promise!On, Promise!Decide
    <3>2. counts'[r][e] = counts[r][e]
      BY <2>4 DEF Promise!Decide, Promise!TypeOK
    <3> QED BY <2>2, <3>1, <3>2
  <2> QED BY <2>3, <2>4
<1>5. /\ \A e, f \in decisions' : e.report = f.report /\ e.user = f.user => e = f
      /\ \A e \in decisions' : Reporter[e.report] # e.user
  BY DEF Promise!CountsAreDecisions, Promise!Decide, Promise!HasDecided
<1> QED BY <1>2, <1>3, <1>4, <1>5, SameCardinality DEF Promise!CountsAreDecisions

LEMMA CommunityStep == CommunityInv /\ [Promise!Next]_(Promise!vars) => CommunityInv'
<1> SUFFICES ASSUME CommunityInv, [Promise!Next]_(Promise!vars) PROVE CommunityInv' OBVIOUS
<1>1. ASSUME UNCHANGED <<decisions, counts>>, Promise!TypeOK' PROVE CommunityInv'
  BY <1>1 DEF CommunityInv, Promise!CountsAreDecisions, Promise!On
<1>2. CASE UNCHANGED Promise!vars
  BY <1>1, <1>2 DEF Promise!vars, Promise!TypeOK, CommunityInv
<1>3. CASE \E a \in Addresses : Promise!Register(a)
  BY <1>1, <1>3 DEF Promise!Register, Promise!TypeOK, CommunityInv
<1>4. ASSUME NEW r \in Reports, Promise!Report(r) PROVE CommunityInv'
  BY <1>1, <1>4, StatusTypes DEF Promise!Report, Promise!TypeOK, CommunityInv
<1>5. ASSUME NEW due \in SUBSET Reports, Promise!Expire(due) PROVE CommunityInv'
  BY <1>1, <1>5, StatusTypes DEF Promise!Expire, Promise!TypeOK, CommunityInv
<1>6. ASSUME NEW r \in Reports, NEW verdict \in Promise!Verdicts, Promise!Moderate(r, verdict) PROVE CommunityInv'
  BY <1>1, <1>6, StatusTypes DEF Promise!Moderate, Promise!TypeOK, CommunityInv
<1>7. ASSUME NEW d \in Promise!Decisions, Promise!Decide(d) PROVE CommunityInv'
  BY <1>7, DecideCounts
<1> QED BY <1>2, <1>3, <1>4, <1>5, <1>6, <1>7 DEF Promise!Next

LEMMA CountsCorrect == Promise!Spec => [](Promise!TypeOK /\ Promise!CountsAreDecisions)
<1>1. Promise!Init => CommunityInv
  <2> SUFFICES ASSUME Promise!Init PROVE CommunityInv OBVIOUS
  <2>1. Promise!TypeOK
    BY StatusTypes DEF Promise!Init, Promise!TypeOK, Promise!Decision
  <2>2. IsFiniteSet(decisions)
    BY FS_EmptySet DEF Promise!Init
  <2>3. \A r \in Reports, d \in Promise!Decision : Promise!On(r, d) = {}
    BY DEF Promise!Init, Promise!On
  <2>4. Promise!CountsAreDecisions
    BY <2>3, FS_EmptySet, SameCardinality DEF Promise!Init, Promise!CountsAreDecisions
  <2> QED BY <2>1, <2>2, <2>4 DEF CommunityInv
<1>2. CommunityInv => Promise!TypeOK /\ Promise!CountsAreDecisions
  BY DEF CommunityInv
<1> QED BY <1>1, <1>2, CommunityStep, PTL DEF Promise!Spec

LEMMA OneAccountEach == Promise!Spec => []Promise!OneAccount
<1>1. Promise!Init => Promise!OneAccount
  BY DEF Promise!Init, Promise!OneAccount
<1>2. Promise!TypeOK /\ Promise!OneAccount /\ [Promise!Next]_(Promise!vars) => Promise!OneAccount'
  <2> SUFFICES ASSUME Promise!TypeOK, Promise!OneAccount, [Promise!Next]_(Promise!vars) PROVE Promise!OneAccount' OBVIOUS
  <2>1. CASE UNCHANGED accounts
    BY <2>1 DEF Promise!OneAccount
  <2>2. CASE \E a \in Addresses : Promise!Register(a)
    BY <2>2 DEF Promise!OneAccount, Promise!TypeOK, Promise!Register
  <2>3. UNCHANGED accounts \/ \E a \in Addresses : Promise!Register(a)
    BY DEF Promise!Next, Promise!vars, Promise!Report, Promise!Decide, Promise!Moderate, Promise!Expire
  <2> QED BY <2>1, <2>2, <2>3
<1>3. Promise!Spec => []Promise!TypeOK
  BY CountsCorrect, PTL
<1> QED BY <1>1, <1>2, <1>3, PTL DEF Promise!Spec

-----------------------------------------------------------------------------
(* The handlers *)

\* What a handler is at fits what it was asked for.
Fits(h) ==
  /\ at[h] \in {"find", "account", "session"} => request[h] \in Registrations
  /\ at[h] = "insert" => request[h] \in Creations
  /\ at[h] \in {"select"} \cup Transaction => request[h] \in Evaluations
  /\ at[h] = "update" => request[h] \in Moderations
  /\ at[h] = "expire" => request[h] \in Expiries

\* A transaction that goes on to decide holds the row, and what it checked holds.
Decides(h) ==
  at[h] \in {"confirm", "commit"} =>
    /\ rowLock[Report(h)] = h
    /\ status[Report(h)] # "absent"
    /\ Reporter[Report(h)] # request[h].user
    /\ at[h] = "commit" => ~Promise!HasDecided(request[h].user, Report(h))

\* A report is created by one request, which finds no such row.
Creates(h) ==
  request[h] \in Creations =>
    /\ at[h] \in {"receive", "insert"} => status[Report(h)] = "absent"
    /\ \A k \in Handlers : request[k] = request[h] => k = h

ApiInv ==
  /\ ApiTypeOK
  /\ \A h \in Handlers : Fits(h) /\ Decides(h) /\ Creates(h)

USE DEF rows, handlerVars, GoTo, Report, Transaction

LEMMA ApiInitInv == ApiInit => ApiInv
<1> SUFFICES ASSUME ApiInit PROVE ApiInv OBVIOUS
<1>1. Promise!TypeOK
  BY DEF ApiInit, Promise!Init, Promise!TypeOK, Promise!Status, Promise!Decision, Promise!Decisions
<1>2. ApiTypeOK
  BY <1>1 DEF ApiInit, ApiTypeOK, At
<1>3. \A h \in Handlers : Fits(h) /\ Decides(h)
  BY DEF ApiInit, Fits, Decides
<1>4. \A h \in Handlers : Creates(h)
  BY HandlersAssumption DEF ApiInit, Creates, Requests
<1> QED BY <1>2, <1>3, <1>4 DEF ApiInv

LEMMA GaugeType ==
  ASSUME httpInFlight \in [Instances -> Nat], NEW i, NEW waiting \in BOOLEAN, Completed(i, waiting)
  PROVE  httpInFlight' \in [Instances -> Nat]
<1>1. ASSUME NEW n \in Nat PROVE (IF waiting /\ n > 0 THEN n - 1 ELSE n) \in Nat
  OBVIOUS
<1> QED BY <1>1 DEF Completed

\* A handler that does nothing is not disturbed by what others do to rows it has not
\* locked.
LEMMA OthersKeep ==
  ASSUME ApiInv, NEW k \in Handlers, at'[k] = at[k], request'[k] = request[k],
         \A r \in Reports : rowLock[r] = k => rowLock'[r] = k /\ \A d \in decisions' : d.report = r => d \in decisions,
         \A r \in Reports : status[r] # "absent" => status'[r] # "absent"
  PROVE  Fits(k)' /\ Decides(k)'
<1>1. Fits(k) /\ Decides(k)
  BY DEF ApiInv
<1>2. Fits(k)'
  BY <1>1 DEF Fits
<1>3. ASSUME at[k] \in {"confirm", "commit"} PROVE request[k].report \in Reports
  BY <1>1, <1>3 DEF Fits, Evaluations
<1>4. Decides(k)'
  BY <1>1, <1>3 DEF Decides, Promise!HasDecided
<1> QED BY <1>2, <1>4

\* Outside a transaction there is no row to let go.
LEMMA NothingHeld ==
  ASSUME HandlersAssumption, ApiInv, NEW h \in Handlers, at[h] \notin Transaction
  PROVE  Free(h) = rowLock
<1>1. \A r \in Reports : rowLock[r] # h
  BY DEF ApiInv, ApiTypeOK, HandlersAssumption
<1>2. rowLock \in [Reports -> Handlers \cup {Nobody}]
  BY DEF ApiInv, ApiTypeOK
<1> QED BY <1>1, <1>2 DEF Free

\* The end of a request, with a statement that makes no row and decides nothing.
LEMMA EndStep ==
  ASSUME DeploymentAssumption, HandlersAssumption, ApiInv, NEW h \in Handlers,
         Reply(h), rowLock' = Free(h), UNCHANGED decisions, Promise!TypeOK',
         \A r \in Reports : status[r] = "absent" <=> status'[r] = "absent"
  PROVE  ApiInv'
<1> USE DEF ApiInv, ApiTypeOK, Reply, HandlersAssumption
<1>2. httpInFlight' \in [Instances -> Nat]
  BY GaugeType
<1>3. rowLock' \in [Reports -> Handlers \cup {Nobody}]
  BY DEF Free
<1>4. /\ at' \in [Handlers -> At] /\ on' \in [Handlers -> Instances \cup {Nobody}]
      /\ request' \in [Handlers -> Requests \cup {Nobody}] /\ client' \in [Handlers -> BOOLEAN]
  BY DEF At
<1>5. \A k \in Handlers :
        /\ at'[k] = "idle" <=> on'[k] = Nobody
        /\ at'[k] = "idle" <=> request'[k] = Nobody
        /\ client'[k] => at'[k] # "idle"
  OBVIOUS
<1>6. \A r \in Reports : rowLock'[r] # Nobody =>
        at'[rowLock'[r]] \in Transaction /\ request'[rowLock'[r]].report = r
  BY DEF Free
<1>7. ApiTypeOK'
  BY <1>2, <1>3, <1>4, <1>5, <1>6
<1>8. \A k \in Handlers : Fits(k)'
  BY DEF Fits
<1>9. \A k \in Handlers : Decides(k)'
  <2> SUFFICES ASSUME NEW k \in Handlers PROVE Decides(k)' OBVIOUS
  <2>1. CASE k = h
    BY <2>1 DEF Decides
  <2>2. CASE k # h
    <3>1. at'[k] = at[k] /\ request'[k] = request[k]
      BY <2>2
    <3>2. \A r \in Reports : rowLock[r] = k => rowLock'[r] = k
      BY <2>2 DEF Free
    <3> QED BY <3>1, <3>2, OthersKeep
  <2> QED BY <2>1, <2>2
<1>10. \A k \in Handlers : Creates(k)'
  <2> SUFFICES ASSUME NEW k \in Handlers, request'[k] \in Creations PROVE Creates(k)' BY DEF Creates
  <2>1. k # h /\ request'[k] = request[k] /\ at'[k] = at[k] /\ request[k].report \in Reports
    BY DEF Requests, Creations
  <2>2. Creates(k) /\ \A j \in Handlers : request'[j] = request'[k] => request[j] = request[k]
    BY <2>1 DEF Requests
  <2> QED BY <2>1, <2>2 DEF Creates
<1> QED BY <1>7, <1>8, <1>9, <1>10

LEMMA ReplyStep ==
  ASSUME DeploymentAssumption, HandlersAssumption, ApiInv, NEW h \in Handlers,
         Reply(h), UNCHANGED rows, rowLock' = Free(h)
  PROVE  ApiInv'
<1>1. Promise!TypeOK'
  BY DEF ApiInv, ApiTypeOK, Promise!TypeOK
<1> QED BY <1>1, EndStep

\* A statement after which the handler goes on, seen from the others: it locks only
\* the row of its report, writes only rows that nobody else has locked, and makes a
\* row only for its own creation.
LEMMA ContinueStep ==
  ASSUME HandlersAssumption, ApiInv, NEW h \in Handlers,
         NEW next \in At \ {"idle", "receive", "insert"}, at[h] # "idle", Continues(h, next),
         Promise!TypeOK', Fits(h)', Decides(h)',
         rowLock' \in [Reports -> Handlers \cup {Nobody}],
         \A r \in Reports : \/ rowLock'[r] = rowLock[r] /\ rowLock[r] # h
                            \/ rowLock'[r] = h /\ next \in Transaction /\ Report(h) = r /\ rowLock[r] \in {h, Nobody}
                            \/ rowLock'[r] = Nobody /\ rowLock[r] \in {h, Nobody},
         \A r \in Reports : rowLock[r] \notin {h, Nobody} => \A d \in decisions' : d.report = r => d \in decisions,
         \A r \in Reports : status[r] # "absent" => status'[r] # "absent",
         \A r \in Reports : status[r] = "absent" => status'[r] = "absent" \/ request[h] = [op |-> "create", report |-> r]
  PROVE  ApiInv'
<1> USE DEF Continues
<1>1. /\ at' \in [Handlers -> At] /\ UNCHANGED <<on, request, client, httpInFlight>>
      /\ \A k \in Handlers : at'[k] = IF k = h THEN next ELSE at[k]
  BY DEF ApiInv, ApiTypeOK
<1>2. \A k \in Handlers : (at'[k] = "idle" <=> on'[k] = Nobody) /\ (at'[k] = "idle" <=> request'[k] = Nobody)
                          /\ (client'[k] => at'[k] # "idle")
  BY <1>1 DEF ApiInv, ApiTypeOK
<1>3. \A r \in Reports : rowLock'[r] # Nobody =>
        at'[rowLock'[r]] \in Transaction /\ request'[rowLock'[r]].report = r
  BY <1>1 DEF ApiInv, ApiTypeOK, HandlersAssumption
<1>4. ApiTypeOK'
  BY <1>1, <1>2, <1>3 DEF ApiInv, ApiTypeOK
<1>5. ASSUME NEW k \in Handlers, k # h PROVE Fits(k)' /\ Decides(k)'
  <2>1. \A r \in Reports : rowLock[r] = k =>
          rowLock'[r] = k /\ \A d \in decisions' : d.report = r => d \in decisions
    BY <1>5, HandlersAssumption DEF HandlersAssumption
  <2> QED BY <1>1, <1>5, <2>1, OthersKeep
<1>6. ASSUME NEW k \in Handlers PROVE Creates(k)'
  <2>1. Creates(k)
    BY DEF ApiInv
  <2>2. ASSUME request[k] \in Creations, at'[k] \in {"receive", "insert"} PROVE status'[Report(k)] = "absent"
    <3>1. k # h /\ at[k] = at'[k]
      BY <1>1, <2>2
    <3>2. Report(k) \in Reports /\ request[k] = [op |-> "create", report |-> Report(k)]
      BY <2>2 DEF Creations
    <3>3. status[Report(k)] = "absent" /\ request[h] # request[k]
      BY <2>1, <2>2, <3>1 DEF Creates
    <3> QED BY <3>2, <3>3
  <2> QED BY <1>1, <2>1, <2>2 DEF Creates
<1> QED BY <1>4, <1>5, <1>6 DEF ApiInv

\* A statement that writes no row and locks none.
LEMMA QuietStep ==
  ASSUME HandlersAssumption, ApiInv, NEW h \in Handlers,
         NEW next \in At \ ({"idle", "receive", "insert"} \cup Transaction),
         at[h] \notin {"idle"} \cup Transaction, Continues(h, next), Fits(h)', UNCHANGED <<rows, rowLock>>
  PROVE  ApiInv'
<1>1. Promise!TypeOK'
  BY DEF ApiInv, ApiTypeOK, Promise!TypeOK
<1>2. Decides(h)'
  BY DEF Decides, Continues, ApiInv, ApiTypeOK
<1>3. \A r \in Reports : rowLock'[r] = rowLock[r] /\ rowLock[r] # h
  BY DEF ApiInv, ApiTypeOK, HandlersAssumption
<1>4. rowLock' \in [Reports -> Handlers \cup {Nobody}]
  BY DEF ApiInv, ApiTypeOK
<1> QED BY <1>1, <1>2, <1>3, <1>4, ContinueStep

-----------------------------------------------------------------------------
(* The statements: each keeps ApiInv, and is a step of Community or changes no row *)

Simulates == Promise!Next \/ UNCHANGED rows

LEMMA RegisterStep ==
  ASSUME DeploymentAssumption, HandlersAssumption, ApiInv, NEW h \in Handlers,
         FindAddress(h) \/ InsertUser(h) \/ IssueSession(h)
  PROVE  ApiInv' /\ Simulates
<1>1. at[h] \in {"find", "account", "session"} /\ request[h] \in Registrations /\ request[h].address \in Addresses
  BY DEF FindAddress, InsertUser, IssueSession, ApiInv, Fits, Registrations
<1>2. UNCHANGED rowLock /\ rowLock' = Free(h)
  BY <1>1, NothingHeld DEF FindAddress, InsertUser, IssueSession
<1>3. CASE Reply(h) /\ UNCHANGED rows
  BY <1>2, <1>3, ReplyStep DEF Simulates
<1>4. CASE FindAddress(h) /\ Continues(h, "account")
  <2>1. Fits(h)'
    BY <1>1, <1>4 DEF Fits, Continues, ApiInv, ApiTypeOK
  <2> QED BY <1>1, <1>4, <2>1, QuietStep DEF FindAddress, At, Simulates
<1>5. CASE InsertUser(h) /\ Continues(h, "session") /\ accounts[request[h].address] = 0
  <2>1. Promise!Register(request[h].address)
    BY <1>5 DEF InsertUser, Promise!Register, ApiInv, ApiTypeOK, Promise!TypeOK, Continues
  <2>2. Fits(h)'
    BY <1>1, <1>5 DEF Fits, Continues, ApiInv, ApiTypeOK
  <2>3. Promise!TypeOK'
    BY <1>1, <2>1 DEF ApiInv, ApiTypeOK, Promise!TypeOK, Promise!Register
  <2>4. UNCHANGED <<status, decisions>> /\ Decides(h)'
    BY <1>5 DEF InsertUser, Decides, Continues, ApiInv, ApiTypeOK
  <2>5. \A r \in Reports : rowLock'[r] = rowLock[r] /\ rowLock[r] # h
    BY <1>1, <1>2, HandlersAssumption DEF ApiInv, ApiTypeOK, HandlersAssumption
  <2>6. ApiInv'
    BY <1>1, <1>2, <1>5, <2>2, <2>3, <2>4, <2>5, ContinueStep DEF ApiInv, ApiTypeOK, At
  <2> QED BY <1>1, <2>1, <2>6 DEF Simulates, Promise!Next
<1>6. CASE InsertUser(h) /\ accounts[request[h].address] > 0
  BY <1>3, <1>6 DEF InsertUser
<1>7. accounts[request[h].address] \in Nat
  BY <1>1 DEF ApiInv, ApiTypeOK, Promise!TypeOK
<1> QED BY <1>3, <1>4, <1>5, <1>6, <1>7 DEF FindAddress, InsertUser, IssueSession

LEMMA CreateStep ==
  ASSUME DeploymentAssumption, HandlersAssumption, ApiInv, NEW h \in Handlers,
         InsertReport(h) \/ Schedule(h)
  PROVE  ApiInv' /\ Simulates
<1>1. CASE Schedule(h)
  <2>1. rowLock' = Free(h) /\ Reply(h) /\ UNCHANGED rows
    BY <1>1, NothingHeld DEF Schedule
  <2> QED BY <2>1, ReplyStep DEF Simulates
<1>2. CASE InsertReport(h)
  <2>1. /\ at[h] = "insert" /\ request[h] \in Creations /\ Report(h) \in Reports
        /\ request[h] = [op |-> "create", report |-> Report(h)]
        /\ status[Report(h)] = "absent"
    BY <1>2 DEF InsertReport, ApiInv, Fits, Creates, Creations
  <2>2. Promise!Report(Report(h))
    BY <1>2, <2>1 DEF InsertReport, Promise!Report
  <2>3. Promise!TypeOK'
    BY <2>1, <2>2, StatusTypes DEF ApiInv, ApiTypeOK, Promise!TypeOK, Promise!Report
  <2>4. Continues(h, "schedule") /\ UNCHANGED <<rowLock, decisions>>
    BY <1>2 DEF InsertReport
  <2>5. Fits(h)' /\ Decides(h)'
    BY <2>1, <2>4 DEF Fits, Decides, Continues, ApiInv, ApiTypeOK
  <2>6. /\ \A r \in Reports : rowLock'[r] = rowLock[r] /\ rowLock[r] # h
        /\ rowLock' \in [Reports -> Handlers \cup {Nobody}]
    BY <2>1, <2>4 DEF ApiInv, ApiTypeOK, HandlersAssumption
  <2>7. \A r \in Reports : status'[r] = status[r] \/ (r = Report(h) /\ status'[r] # "absent")
    <3>1. status \in [Reports -> Promise!Status]
      BY DEF ApiInv, ApiTypeOK, Promise!TypeOK
    <3>2. status' = [status EXCEPT ![Report(h)] = "PENDING"]
      BY <1>2 DEF InsertReport
    <3> QED BY <2>1, <3>1, <3>2
  <2>8. ApiInv'
    BY <2>1, <2>3, <2>4, <2>5, <2>6, <2>7, ContinueStep DEF At
  <2> QED BY <2>1, <2>2, <2>8 DEF Simulates, Promise!Next
<1> QED BY <1>1, <1>2

\* recordDecision up to its COMMIT: nothing is seen of it but the lock.
LEMMA TransactionStep ==
  ASSUME HandlersAssumption, ApiInv, NEW h \in Handlers,
         SelectReport(h) \/ Confirm(h)
  PROVE  ApiInv' /\ Simulates
<1> DEFINE next == at'[h]
<1>1. /\ at[h] \in {"select", "confirm"} /\ request[h] \in Evaluations
      /\ Report(h) \in Reports /\ UNCHANGED rows
  BY DEF SelectReport, Confirm, ApiInv, Fits, Evaluations
<1>2. next \in Transaction /\ Continues(h, next)
  BY DEF SelectReport, Confirm, Continues, ApiInv, ApiTypeOK
<1>3. Promise!TypeOK'
  BY <1>1 DEF ApiInv, ApiTypeOK, Promise!TypeOK
<1>4. Fits(h)'
  BY <1>1, <1>2 DEF Fits, Continues
<1>5. Decides(h)'
  <2>1. CASE SelectReport(h)
    BY <1>1, <1>2, <2>1 DEF Decides, SelectReport, Continues, ApiInv, ApiTypeOK
  <2>2. CASE Confirm(h)
    BY <1>1, <1>2, <2>2 DEF Decides, Confirm, Continues, ApiInv, ApiTypeOK, Promise!HasDecided
  <2> QED BY <2>1, <2>2
<1>6. /\ rowLock' \in [Reports -> Handlers \cup {Nobody}]
      /\ \A r \in Reports : \/ rowLock'[r] = rowLock[r] /\ rowLock[r] # h
                            \/ rowLock'[r] = h /\ Report(h) = r /\ rowLock[r] \in {h, Nobody}
  <2>1. CASE SelectReport(h)
    BY <1>1, <2>1, HandlersAssumption DEF SelectReport, ApiInv, ApiTypeOK, HandlersAssumption
  <2>2. CASE Confirm(h)
    BY <1>1, <2>2, HandlersAssumption DEF Confirm, ApiInv, ApiTypeOK, HandlersAssumption
  <2> QED BY <2>1, <2>2
<1>7. ApiInv'
  BY <1>1, <1>2, <1>3, <1>4, <1>5, <1>6, ContinueStep DEF At
<1> QED BY <1>1, <1>7 DEF Simulates

\* The COMMIT, whether its answer arrives or not: what was checked still holds.
LEMMA StoreStep ==
  ASSUME HandlersAssumption, ApiInv, NEW h \in Handlers, NEW next \in {"schedule", "rollback"},
         at[h] = "commit", Stored(h), rowLock' = Free(h), Continues(h, next)
  PROVE  ApiInv' /\ Simulates
<1>1. /\ request[h] \in Evaluations /\ Report(h) \in Reports
      /\ rowLock[Report(h)] = h /\ status[Report(h)] # "absent"
      /\ Reporter[Report(h)] # request[h].user
      /\ ~Promise!HasDecided(request[h].user, Report(h))
  BY DEF ApiInv, Fits, Decides, Evaluations
<1>2. Made(h) \in Promise!Decisions /\ Made(h).report = Report(h) /\ request[h].decision \in Promise!Decision
  BY <1>1 DEF Made, Evaluations, Promise!Decisions
<1>3. Promise!Decide(Made(h))
  BY <1>1 DEF Stored, Made, Promise!Decide
<1>4. Promise!TypeOK'
  BY <1>1, <1>2 DEF ApiInv, ApiTypeOK, Promise!TypeOK, Stored
<1>5. Fits(h)' /\ Decides(h)'
  BY <1>1 DEF Fits, Decides, Continues, ApiInv, ApiTypeOK
<1>6. /\ rowLock' \in [Reports -> Handlers \cup {Nobody}]
      /\ \A r \in Reports : \/ rowLock'[r] = rowLock[r] /\ rowLock[r] # h
                            \/ rowLock'[r] = Nobody /\ rowLock[r] = h
  BY DEF Free, ApiInv, ApiTypeOK
<1>7. \A r \in Reports : rowLock[r] \notin {h, Nobody} => \A d \in decisions' : d.report = r => d \in decisions
  BY <1>1, <1>2 DEF Stored
<1>8. ApiInv'
  BY <1>1, <1>4, <1>5, <1>6, <1>7, ContinueStep DEF At, Stored
<1> QED BY <1>2, <1>3, <1>8 DEF Simulates, Promise!Next

LEMMA ModerateStep ==
  ASSUME DeploymentAssumption, HandlersAssumption, ApiInv, NEW h \in Handlers, UpdateStatus(h)
  PROVE  ApiInv' /\ Simulates
<1>1. /\ at[h] = "update" /\ request[h] \in Moderations /\ Report(h) \in Reports
      /\ request[h].verdict \in Promise!Verdicts
  BY DEF UpdateStatus, ApiInv, Fits, Moderations
<1>2. CASE status[Report(h)] = "absent"
  <2>1. Reply(h) /\ UNCHANGED rows /\ rowLock' = Free(h)
    BY <1>1, <1>2, NothingHeld DEF UpdateStatus
  <2> QED BY <2>1, ReplyStep DEF Simulates
<1>3. CASE status[Report(h)] # "absent"
  <2>1. Continues(h, "schedule") /\ UNCHANGED <<rowLock, decisions>>
    BY <1>3 DEF UpdateStatus
  <2>2. Promise!Moderate(Report(h), request[h].verdict)
    BY <1>3 DEF UpdateStatus, Promise!Moderate
  <2>3. Promise!TypeOK'
    BY <1>1, <2>2, StatusTypes DEF ApiInv, ApiTypeOK, Promise!TypeOK, Promise!Moderate
  <2>4. Fits(h)' /\ Decides(h)'
    BY <1>1, <2>1 DEF Fits, Decides, Continues, ApiInv, ApiTypeOK
  <2>5. /\ rowLock' \in [Reports -> Handlers \cup {Nobody}]
        /\ \A r \in Reports : rowLock'[r] = rowLock[r] /\ rowLock[r] # h
    BY <1>1, <2>1 DEF ApiInv, ApiTypeOK, HandlersAssumption
  <2>6. \A r \in Reports : status'[r] = status[r] \/ (status[r] # "absent" /\ status'[r] # "absent")
    <3>1. request[h].verdict # "absent"
      BY <1>1 DEF Promise!Verdicts
    <3>2. status \in [Reports -> Promise!Status] /\ status' = [status EXCEPT ![Report(h)] = request[h].verdict]
      BY <2>2 DEF ApiInv, ApiTypeOK, Promise!TypeOK, Promise!Moderate
    <3> QED BY <1>1, <1>3, <3>1, <3>2
  <2>7. ApiInv'
    BY <1>1, <2>1, <2>3, <2>4, <2>5, <2>6, ContinueStep DEF At
  <2> QED BY <1>1, <2>2, <2>7 DEF Simulates, Promise!Next
<1> QED BY <1>2, <1>3

LEMMA RollbackStep ==
  ASSUME DeploymentAssumption, HandlersAssumption, ApiInv, NEW h \in Handlers, Rollback(h)
  PROVE  ApiInv' /\ Simulates
BY ReplyStep DEF Rollback, Simulates

LEMMA ExpireStep ==
  ASSUME DeploymentAssumption, HandlersAssumption, ApiInv, NEW h \in Handlers, ExpireReports(h)
  PROVE  ApiInv' /\ Simulates
<1> DEFINE due == {r \in request[h].due : status[r] \in Promise!ActiveStatus}
<1>1. at[h] = "expire" /\ request[h].due \in SUBSET Reports
  BY DEF ExpireReports, ApiInv, Fits, Expiries
<1>2. Reply(h) /\ rowLock' = Free(h) /\ UNCHANGED <<accounts, decisions, counts>>
  BY <1>1, NothingHeld DEF ExpireReports
<1>3. status \in [Reports -> Promise!Status]
  BY DEF ApiInv, ApiTypeOK, Promise!TypeOK
<1>4. status' = [r \in Reports |-> IF r \in due THEN "EXPIRED" ELSE status[r]]
  BY DEF ExpireReports
<1>5. due \in SUBSET Reports /\ \A r \in due : status[r] \in Promise!ActiveStatus
  BY <1>1
<1> HIDE DEF due
<1>6. Promise!Expire(due)
  BY <1>2, <1>4, <1>5 DEF Promise!Expire
<1>7. Promise!TypeOK'
  BY <1>2, <1>3, <1>4, StatusTypes DEF ApiInv, ApiTypeOK, Promise!TypeOK
<1>8. \A r \in Reports : status[r] = "absent" <=> status'[r] = "absent"
  BY <1>3, <1>4, <1>5 DEF Promise!ActiveStatus
<1>9. ApiInv'
  BY <1>2, <1>7, <1>8, EndStep
<1> QED BY <1>5, <1>6, <1>9 DEF Simulates, Promise!Next

\* A statement that rejects.
LEMMA FailureStep ==
  ASSUME DeploymentAssumption, HandlersAssumption, ApiInv, NEW h \in Handlers, StatementFails(h)
  PROVE  ApiInv' /\ Simulates
<1>1. CASE at[h] = "commit" /\ Stored(h) /\ rowLock' = Free(h) /\ Continues(h, "rollback")
  BY <1>1, StoreStep
<1>2. CASE at[h] \in {"select"} \cup Transaction /\ Continues(h, "rollback") /\ UNCHANGED <<rows, rowLock>>
  <2>1. Promise!TypeOK' /\ Fits(h) /\ request[h] \in Evaluations
    BY <1>2 DEF ApiInv, ApiTypeOK, Promise!TypeOK, Fits
  <2>2. Fits(h)' /\ Decides(h)'
    BY <1>2, <2>1 DEF Fits, Decides, Continues, ApiInv, ApiTypeOK
  <2>3. \A r \in Reports : \/ rowLock'[r] = rowLock[r] /\ rowLock[r] # h
                           \/ rowLock'[r] = h /\ Report(h) = r /\ rowLock[r] \in {h, Nobody}
    BY <1>2, HandlersAssumption DEF ApiInv, ApiTypeOK, HandlersAssumption
  <2>4. rowLock' \in [Reports -> Handlers \cup {Nobody}] /\ at[h] # "idle"
    BY <1>2 DEF ApiInv, ApiTypeOK
  <2>5. ApiInv'
    BY <1>2, <2>1, <2>2, <2>3, <2>4, ContinueStep DEF At
  <2> QED BY <1>2, <2>5 DEF Simulates
<1>3. CASE at[h] \notin {"select"} \cup Transaction /\ Reply(h) /\ UNCHANGED <<rows, rowLock>>
  <2>1. rowLock' = Free(h)
    BY <1>3, NothingHeld
  <2> QED BY <1>3, <2>1, ReplyStep DEF Simulates
<1> QED BY <1>1, <1>2, <1>3 DEF StatementFails

LEMMA HandleStep ==
  ASSUME DeploymentAssumption, HandlersAssumption, ApiInv, NEW h \in Handlers,
         Transacts(h) \/ Asks(h)
  PROVE  ApiInv' /\ Simulates
<1>1. CASE FindAddress(h) \/ InsertUser(h) \/ IssueSession(h)
  BY <1>1, RegisterStep
<1>2. CASE InsertReport(h) \/ Schedule(h)
  BY <1>2, CreateStep
<1>3. CASE SelectReport(h) \/ Confirm(h)
  BY <1>3, TransactionStep
<1>4. CASE CommitDecision(h)
  BY <1>4, StoreStep DEF CommitDecision
<1>5. CASE Rollback(h)
  BY <1>5, RollbackStep
<1>6. CASE UpdateStatus(h)
  BY <1>6, ModerateStep
<1>7. CASE ExpireReports(h)
  BY <1>7, ExpireStep
<1> QED BY <1>1, <1>2, <1>3, <1>4, <1>5, <1>6, <1>7 DEF Transacts, Asks, Lock

-----------------------------------------------------------------------------
(* The beginning of requests and jobs, clients that leave and processes that end *)

LEMMA Kinds ==
  ASSUME NEW q \in Requests
  PROVE  /\ q \in Registrations => First(q) = "find"
         /\ q \in Creations => First(q) = "insert"
         /\ q \in Evaluations => First(q) = "select"
         /\ q \in Moderations => First(q) = "update"
         /\ q \in Expiries => First(q) = "expire"
BY DEF First, Requests, Registrations, Creations, Evaluations, Moderations, Expiries

\* A handler takes a free place, with a request or with a job.
LEMMA BeginStep ==
  ASSUME DeploymentAssumption, HandlersAssumption, ApiInv, NEW h \in Handlers, NEW i \in Instances,
         NEW q \in Requests,
         Arrive(h, i, q) \/ (q \in Expiries /\ TakeJob(h, i, q))
  PROVE  ApiInv' /\ UNCHANGED rows
<1> DEFINE next == at'[h]
<1>1. /\ at[h] = "idle" /\ UNCHANGED <<rows, rowLock>>
      /\ next \in {"receive", "expire"} /\ (next = "expire" => q \in Expiries)
      /\ at' = [at EXCEPT ![h] = next] /\ on' = [on EXCEPT ![h] = i] /\ request' = [request EXCEPT ![h] = q]
      /\ client' \in [Handlers -> BOOLEAN] /\ \A k \in Handlers : k # h => client'[k] = client[k]
      /\ httpInFlight' \in [Instances -> Nat]
  <2>1. CASE Arrive(h, i, q)
    BY <2>1 DEF Arrive, ApiInv, ApiTypeOK
  <2>2. CASE q \in Expiries /\ TakeJob(h, i, q)
    BY <2>2, Kinds DEF TakeJob, ApiInv, ApiTypeOK
  <2> QED BY <2>1, <2>2
<1>2. \A k \in Handlers : k # h => at'[k] = at[k] /\ on'[k] = on[k] /\ request'[k] = request[k]
  BY <1>1 DEF ApiInv, ApiTypeOK
<1>3. at'[h] = next /\ on'[h] = i /\ request'[h] = q
  BY <1>1 DEF ApiInv, ApiTypeOK
<1>4. Promise!TypeOK'
  BY <1>1 DEF ApiInv, ApiTypeOK, Promise!TypeOK
<1>5. ApiTypeOK'
  <2>1. /\ at' \in [Handlers -> At] /\ on' \in [Handlers -> Instances \cup {Nobody}]
        /\ request' \in [Handlers -> Requests \cup {Nobody}]
        /\ rowLock' \in [Reports -> Handlers \cup {Nobody}]
    BY <1>1 DEF ApiInv, ApiTypeOK, At
  <2>2. \A k \in Handlers :
          /\ at'[k] = "idle" <=> on'[k] = Nobody
          /\ at'[k] = "idle" <=> request'[k] = Nobody
          /\ client'[k] => at'[k] # "idle"
    BY <1>1, <1>2, <1>3, HandlersAssumption, DeploymentAssumption
       DEF ApiInv, ApiTypeOK, HandlersAssumption, DeploymentAssumption
  <2>3. \A r \in Reports : rowLock'[r] # Nobody =>
          at'[rowLock'[r]] \in Transaction /\ request'[rowLock'[r]].report = r
    BY <1>1, <1>2 DEF ApiInv, ApiTypeOK
  <2> QED BY <1>1, <1>4, <2>1, <2>2, <2>3 DEF ApiTypeOK
<1>6. ASSUME NEW k \in Handlers PROVE Fits(k)' /\ Decides(k)'
  <2>1. CASE k = h
    BY <1>1, <1>3, <2>1 DEF Fits, Decides
  <2>2. CASE k # h
    BY <1>1, <1>2, <2>2, OthersKeep
  <2> QED BY <2>1, <2>2
<1>7. ASSUME NEW k \in Handlers, request'[k] \in Creations
      PROVE  Creates(k)'
  <2>1. CASE q \notin Creations
    BY <1>1, <1>2, <1>3, <1>7, <2>1 DEF ApiInv, Creates
  <2>2. CASE q \in Creations
    <3>1. /\ Arrive(h, i, q) /\ q.op = "create"
          /\ q.report \in Reports /\ q = [op |-> "create", report |-> q.report]
      BY <2>2 DEF Creations, Expiries
    <3>2. status[q.report] = "absent" /\ \A j \in Handlers : request[j] # q
      BY <3>1 DEF Arrive, Unused
    <3> QED BY <1>1, <1>2, <1>3, <1>7, <3>2 DEF ApiInv, Creates
  <2> QED BY <2>1, <2>2
<1> QED BY <1>1, <1>5, <1>6, <1>7 DEF ApiInv, Creates

LEMMA ReceiveStep ==
  ASSUME HandlersAssumption, ApiInv, NEW h \in Handlers, Receive(h)
  PROVE  ApiInv' /\ UNCHANGED rows
<1> DEFINE q == request[h]
<1>1. q \in Requests /\ at[h] = "receive" /\ q # Nobody
  BY HandlersAssumption DEF Receive, ApiInv, ApiTypeOK, HandlersAssumption
<1>2. First(q) \in {"find", "insert", "select", "update", "expire"}
  BY <1>1, Kinds DEF Requests
<1>3. /\ at' = [at EXCEPT ![h] = First(q)] /\ UNCHANGED <<rows, rowLock, on, request, client, httpInFlight>>
      /\ \A k \in Handlers : at'[k] = IF k = h THEN First(q) ELSE at[k]
  BY DEF Receive, ApiInv, ApiTypeOK
<1>4. Promise!TypeOK'
  BY <1>3 DEF ApiInv, ApiTypeOK, Promise!TypeOK
<1>5. ApiTypeOK'
  <2>1. at' \in [Handlers -> At]
    BY <1>2, <1>3 DEF At, ApiInv, ApiTypeOK
  <2>2. \A r \in Reports : rowLock'[r] # Nobody =>
          at'[rowLock'[r]] \in Transaction /\ request'[rowLock'[r]].report = r
    BY <1>1, <1>3 DEF ApiInv, ApiTypeOK
  <2>3. \A k \in Handlers :
          /\ at'[k] = "idle" <=> on'[k] = Nobody
          /\ at'[k] = "idle" <=> request'[k] = Nobody
          /\ client'[k] => at'[k] # "idle"
    BY <1>1, <1>2, <1>3 DEF ApiInv, ApiTypeOK
  <2> QED BY <1>3, <1>4, <2>1, <2>2, <2>3 DEF ApiInv, ApiTypeOK
<1>6. ASSUME NEW k \in Handlers PROVE Fits(k)' /\ Decides(k)'
  <2>1. CASE k = h
    BY <1>1, <1>2, <1>3, <2>1, Kinds DEF Fits, Decides, Requests
  <2>2. CASE k # h
    BY <1>3, <2>2, OthersKeep
  <2> QED BY <2>1, <2>2
<1>7. ASSUME NEW k \in Handlers PROVE Creates(k)'
  BY <1>1, <1>3 DEF ApiInv, Creates
<1> QED BY <1>3, <1>5, <1>6, <1>7 DEF ApiInv

\* Places are emptied, with the locks they held and nothing else.
LEMMA EmptyStep ==
  ASSUME DeploymentAssumption, HandlersAssumption, ApiInv, NEW S \in SUBSET Handlers,
         UNCHANGED rows,
         at' = [h \in Handlers |-> IF h \in S THEN "idle" ELSE at[h]],
         on' = [h \in Handlers |-> IF h \in S THEN Nobody ELSE on[h]],
         request' = [h \in Handlers |-> IF h \in S THEN Nobody ELSE request[h]],
         client' \in [Handlers -> BOOLEAN],
         \A h \in Handlers : client'[h] => client[h] /\ h \notin S,
         rowLock' = [r \in Reports |-> IF rowLock[r] \in S THEN Nobody ELSE rowLock[r]],
         httpInFlight' \in [Instances -> Nat]
  PROVE  ApiInv'
<1>1. Promise!TypeOK'
  BY DEF ApiInv, ApiTypeOK, Promise!TypeOK
<1>2. ApiTypeOK'
  <2>1. /\ at' \in [Handlers -> At] /\ on' \in [Handlers -> Instances \cup {Nobody}]
        /\ request' \in [Handlers -> Requests \cup {Nobody}]
        /\ rowLock' \in [Reports -> Handlers \cup {Nobody}]
    BY DEF ApiInv, ApiTypeOK, At
  <2>2. \A k \in Handlers :
          /\ at'[k] = "idle" <=> on'[k] = Nobody
          /\ at'[k] = "idle" <=> request'[k] = Nobody
          /\ client'[k] => at'[k] # "idle"
    BY DEF ApiInv, ApiTypeOK
  <2>3. \A r \in Reports : rowLock'[r] # Nobody =>
          at'[rowLock'[r]] \in Transaction /\ request'[rowLock'[r]].report = r
    BY DEF ApiInv, ApiTypeOK
  <2> QED BY <1>1, <2>1, <2>2, <2>3 DEF ApiTypeOK
<1>3. ASSUME NEW k \in Handlers PROVE Fits(k)' /\ Decides(k)'
  <2>1. CASE k \in S
    BY <2>1 DEF Fits, Decides
  <2>2. CASE k \notin S
    <3>1. at'[k] = at[k] /\ request'[k] = request[k]
      BY <2>2
    <3>2. \A r \in Reports : rowLock[r] = k => rowLock'[r] = k
      BY <2>2
    <3> QED BY <3>1, <3>2, OthersKeep
  <2> QED BY <2>1, <2>2
<1>4. ASSUME NEW k \in Handlers, request'[k] \in Creations PROVE Creates(k)'
  <2>1. k \notin S /\ at'[k] = at[k] /\ request'[k] = request[k]
    BY <1>4, HandlersAssumption DEF HandlersAssumption, Requests
  <2>2. \A j \in Handlers : request'[j] = request'[k] => request[j] = request[k]
    BY <1>4, <2>1, HandlersAssumption DEF HandlersAssumption, Requests
  <2> QED BY <1>4, <2>1, <2>2 DEF ApiInv, Creates
<1> QED BY <1>2, <1>3, <1>4 DEF ApiInv, Creates

\* Nothing happens to the handlers.
LEMMA QuietApi ==
  ASSUME ApiInv, UNCHANGED apiVars
  PROVE  ApiInv' /\ Simulates
<1>1. ApiTypeOK'
  BY DEF apiVars, ApiInv, ApiTypeOK, Promise!TypeOK
<1>2. ASSUME NEW k \in Handlers PROVE Fits(k)' /\ Decides(k)' /\ Creates(k)'
  BY DEF apiVars, ApiInv, Fits, Decides, Creates, Promise!HasDecided
<1> QED BY <1>1, <1>2 DEF ApiInv, apiVars, Simulates

LEMMA ClientLeavesStep ==
  ASSUME DeploymentAssumption, HandlersAssumption, ApiInv, NEW h \in Handlers, ClientLeaves(h)
  PROVE  ApiInv' /\ UNCHANGED rows
<1>1. /\ UNCHANGED <<rows, rowLock>> /\ client' = [client EXCEPT ![h] = FALSE]
      /\ httpInFlight' \in [Instances -> Nat]
  BY GaugeType DEF ClientLeaves, ApiInv, ApiTypeOK
<1>2. /\ client' \in [Handlers -> BOOLEAN]
      /\ \A k \in Handlers : client'[k] => client[k] /\ k # h
  BY <1>1 DEF ApiInv, ApiTypeOK
<1>3. \A r \in Reports : rowLock[r] \in Handlers \cup {Nobody}
  BY DEF ApiInv, ApiTypeOK
<1>4. CASE at[h] = "receive"
  <2>1. \A r \in Reports : rowLock[r] # h
    BY <1>4, HandlersAssumption DEF ApiInv, ApiTypeOK, HandlersAssumption
  <2>2. rowLock' = [r \in Reports |-> IF rowLock[r] \in {h} THEN Nobody ELSE rowLock[r]]
    BY <1>1, <2>1 DEF ApiInv, ApiTypeOK
  <2>3. /\ at' = [k \in Handlers |-> IF k \in {h} THEN "idle" ELSE at[k]]
        /\ on' = [k \in Handlers |-> IF k \in {h} THEN Nobody ELSE on[k]]
        /\ request' = [k \in Handlers |-> IF k \in {h} THEN Nobody ELSE request[k]]
    BY <1>4 DEF ClientLeaves, ApiInv, ApiTypeOK
  <2>4. \A k \in Handlers : client'[k] => client[k] /\ k \notin {h}
    BY <1>2
  <2>5. {h} \in SUBSET Handlers
    OBVIOUS
  <2> QED BY <1>1, <1>2, <2>2, <2>3, <2>4, <2>5, EmptyStep
<1>5. CASE at[h] # "receive"
  <2>1. UNCHANGED <<at, on, request>>
    BY <1>5 DEF ClientLeaves
  <2>2. ApiTypeOK'
    BY <1>1, <1>2, <2>1 DEF ApiInv, ApiTypeOK, Promise!TypeOK
  <2>3. ASSUME NEW k \in Handlers PROVE Fits(k)' /\ Decides(k)' /\ Creates(k)'
    BY <1>1, <2>1 DEF ApiInv, Fits, Decides, Creates, Promise!HasDecided
  <2> QED BY <1>1, <2>2, <2>3 DEF ApiInv
<1> QED BY <1>1, <1>4, <1>5

\* A process is gone: no other handler is.
LEMMA GoneStep ==
  ASSUME DeploymentAssumption, HandlersAssumption, ApiInv, NEW i \in Instances, Gone(i)
  PROVE  ApiInv' /\ UNCHANGED rows
<1> DEFINE S == {h \in Handlers : on[h] = i}
<1>1. S \in SUBSET Handlers
  OBVIOUS
<1>2. /\ at' = [h \in Handlers |-> IF h \in S THEN "idle" ELSE at[h]]
      /\ on' = [h \in Handlers |-> IF h \in S THEN Nobody ELSE on[h]]
      /\ request' = [h \in Handlers |-> IF h \in S THEN Nobody ELSE request[h]]
  BY DEF Gone
<1>3. /\ client' \in [Handlers -> BOOLEAN]
      /\ \A h \in Handlers : client'[h] => client[h] /\ h \notin S
  BY DEF Gone, ApiInv, ApiTypeOK
<1>4. rowLock' = [r \in Reports |-> IF rowLock[r] \in S THEN Nobody ELSE rowLock[r]]
  <2>1. \A r \in Reports : rowLock[r] # Nobody /\ on[rowLock[r]] = i <=> rowLock[r] \in S
    BY HandlersAssumption DEF ApiInv, ApiTypeOK, HandlersAssumption
  <2> QED BY <2>1 DEF Gone
<1>5. httpInFlight' \in [Instances -> Nat] /\ UNCHANGED rows
  BY DEF Gone, ApiInv, ApiTypeOK
<1> QED BY <1>1, <1>2, <1>3, <1>4, <1>5, EmptyStep

-----------------------------------------------------------------------------
(* The whole *)

\* A step of a container, as Deployment sees it.
LEMMA ContainerStep ==
  ASSUME NEW i \in Instances, Deploys(i) \/ Closes(i) \/ Dies(i)
  PROVE  /\ Goes(i) \/ Ends(i)
         /\ UNCHANGED apiVars \/ Gone(i)
BY DEF Deploys, Migrates, Closes, Dies, Goes, Ends

\* A step of a handler, which no container sees.
LEMMA HandlersStep ==
  ASSUME NEW h \in Handlers,
         \/ \E i \in Instances : Takes(h, i)
         \/ Handles(h)
         \/ (Receive(h) \/ ClientLeaves(h) \/ StatementFails(h)) /\ UNCHANGED deploymentVars
  PROVE  /\ UNCHANGED deploymentVars
         /\ \/ \E i \in Instances, q \in Requests : Arrive(h, i, q) \/ (q \in Expiries /\ TakeJob(h, i, q))
            \/ Transacts(h) \/ Asks(h)
            \/ Receive(h) \/ ClientLeaves(h) \/ StatementFails(h)
<1>1. \A q \in Offered[h] : q \in Requests
  BY OfferedAssumption DEF OfferedAssumption
<1> QED BY <1>1 DEF Takes, Handles, Asks

\* Every step of Platform, as Deployment and as the proofs above see it.
LEMMA PlatformStep ==
  ASSUME ApiInv, [Next]_vars
  PROVE  ApiInv' /\ Simulates /\ [DeploymentNext]_deploymentVars
<1>1. CASE UNCHANGED vars
  <2>1. UNCHANGED deploymentVars /\ UNCHANGED apiVars
    BY <1>1 DEF vars
  <2> QED BY <2>1, QuietApi
<1>2. ASSUME NEW i \in Instances, Deploys(i) \/ Closes(i) \/ Dies(i)
      PROVE  ApiInv' /\ Simulates /\ [DeploymentNext]_deploymentVars
  <2>1. (Goes(i) \/ Ends(i)) /\ (UNCHANGED apiVars \/ Gone(i))
    BY <1>2, ContainerStep
  <2>2. ApiInv' /\ Simulates
    BY <2>1, QuietApi, GoneStep, DeploymentAssumption, HandlersAssumption DEF Simulates
  <2> QED BY <2>1, <2>2 DEF DeploymentNext
<1>3. ASSUME NEW h \in Handlers,
             \/ \E i \in Instances : Takes(h, i)
             \/ Handles(h)
             \/ (Receive(h) \/ ClientLeaves(h) \/ StatementFails(h)) /\ UNCHANGED deploymentVars
      PROVE  ApiInv' /\ Simulates /\ [DeploymentNext]_deploymentVars
  <2> SUFFICES ApiInv' /\ Simulates
    BY <1>3, HandlersStep
  <2>1. CASE \E i \in Instances, q \in Requests : Arrive(h, i, q) \/ (q \in Expiries /\ TakeJob(h, i, q))
    BY <2>1, BeginStep, DeploymentAssumption, HandlersAssumption DEF Simulates
  <2>2. CASE Transacts(h) \/ Asks(h)
    BY <2>2, HandleStep, DeploymentAssumption, HandlersAssumption
  <2>3. CASE Receive(h)
    BY <2>3, ReceiveStep, DeploymentAssumption, HandlersAssumption DEF Simulates
  <2>4. CASE ClientLeaves(h)
    BY <2>4, ClientLeavesStep, DeploymentAssumption, HandlersAssumption DEF Simulates
  <2>5. CASE StatementFails(h)
    BY <2>5, FailureStep, DeploymentAssumption, HandlersAssumption
  <2> QED BY <1>3, <2>1, <2>2, <2>3, <2>4, <2>5, HandlersStep
<1> QED BY <1>1, <1>2, <1>3 DEF Next

-----------------------------------------------------------------------------
(* Theorems *)

\* The containers of Platform behave as those of Deployment alone: what they wait
\* for when they shut down only delays them.
THEOREM ContainersDeploy == Spec => DeploymentSpec /\ []ApiInv
<1>1. Init => ApiInv /\ DeploymentInit
  BY ApiInitInv DEF Init
<1>2. ApiInv /\ [Next]_vars => ApiInv' /\ [DeploymentNext]_deploymentVars
  BY PlatformStep
<1> QED BY <1>1, <1>2, PTL DEF Spec, DeploymentSpec

\* The types of all that containers and handlers keep, and that only a transaction
\* holds a row, and only that of the report it decides on.
THEOREM TypeCorrect == Spec => []TypeOK
<1>1. ApiInv /\ DeploymentTypeOK => TypeOK
  BY DEF ApiInv, TypeOK
<1> QED BY <1>1, ContainersDeploy, SchemaCorrect, PTL

\* With requests and jobs under way as without: the schema is that of the files, each
\* applied once, and every process that runs has all of its own (migrate.ts).
THEOREM SchemaStaysCorrect == Spec => [](SchemaInOrder /\ RunsOnItsSchema)
BY ContainersDeploy, SchemaCorrect, PTL

\* What a container has found missing is still missing when it runs the script, and
\* when it commits it (migrate.ts): none collides with what another has applied.
THEOREM AppliedByOne == Spec => []NobodyAppliesTwice
BY ContainersDeploy, SchemaCorrect, PTL

\* No interleaving of handlers, no statement that rejects and no process that dies is
\* seen in the rows of users, reports and decisions: each operation of
\* AuthService.register and IncidentService is one step or none.
THEOREM Implements == Spec => ImplementsCommunity
<1>1. Init => Promise!Init
  BY DEF Init, ApiInit
<1>2. ApiInv /\ [Next]_vars => [Promise!Next]_(Promise!vars)
  BY PlatformStep DEF Simulates, Promise!vars
<1> QED BY <1>1, <1>2, ContainersDeploy, PTL DEF Spec, ImplementsCommunity, Promise!Spec

\* The counts shown with a report, of which its confidence is made, are the numbers
\* of decisions stored, and nobody has decided twice or on an own report
\* (incident.repository.ts).
THEOREM CountsStayCorrect == Spec => []Promise!CountsAreDecisions
BY Implements, CountsCorrect, PTL DEF ImplementsCommunity

\* An address belongs to at most one account, however many register it at once
\* (user.repository.ts).
THEOREM AccountsStayUnique == Spec => []Promise!OneAccount
BY Implements, OneAccountEach, PTL DEF ImplementsCommunity

-----------------------------------------------------------------------------
(* Those who wait for an answer *)

Waiting(i) == {h \in Handlers : on[h] = i /\ client[h]}

\* The handler h goes on, or is the only one whose client is gone afterwards.
Answers(h) ==
  /\ \A k \in Handlers : k # h => on'[k] = on[k] /\ client'[k] = client[k]
  /\ client'[h] = FALSE
  /\ on'[h] \in {on[h], Nobody}
  /\ Completed(on[h], client[h])

\* What a step of a handler does to those who wait.
LEMMA HandlerEffect ==
  ASSUME ApiInv, NEW h \in Handlers,
         Transacts(h) \/ Asks(h) \/ Receive(h) \/ ClientLeaves(h) \/ StatementFails(h)
  PROVE  UNCHANGED <<on, client, httpInFlight>> \/ Answers(h)
<1>1. CASE \E next \in At : Continues(h, next)
  BY <1>1 DEF Continues
<1>2. CASE Reply(h)
  BY <1>2 DEF Reply, Answers, ApiInv, ApiTypeOK
<1>3. CASE ClientLeaves(h)
  <2>1. client[h] = TRUE
    BY <1>3 DEF ClientLeaves, ApiInv, ApiTypeOK
  <2>2. Completed(on[h], client[h])
    BY <1>3, <2>1 DEF ClientLeaves
  <2>3. /\ \A k \in Handlers : k # h => on'[k] = on[k] /\ client'[k] = client[k]
        /\ client'[h] = FALSE /\ on'[h] \in {on[h], Nobody}
    BY <1>3 DEF ClientLeaves, ApiInv, ApiTypeOK
  <2> QED BY <2>2, <2>3 DEF Answers
<1>4. CASE Receive(h)
  BY <1>4 DEF Receive
<1>5. ASSUME Transacts(h) PROVE Reply(h) \/ \E next \in At : Continues(h, next)
  BY <1>5 DEF Transacts, Confirm, CommitDecision, Rollback, At
<1>6. ASSUME Asks(h) PROVE Reply(h) \/ \E next \in At : Continues(h, next)
  BY <1>6 DEF Asks, Lock, FindAddress, InsertUser, IssueSession, InsertReport, Schedule, SelectReport,
              UpdateStatus, ExpireReports, At
<1>7. ASSUME StatementFails(h) PROVE Reply(h) \/ \E next \in At : Continues(h, next)
  BY <1>7 DEF StatementFails, At
<1> QED BY <1>1, <1>2, <1>3, <1>4, <1>5, <1>6, <1>7

LEMMA WaitingFinite == ASSUME NEW i PROVE IsFiniteSet(Waiting(i)) /\ Cardinality(Waiting(i)) \in Nat
<1>1. IsFiniteSet(Handlers)
  BY OfferedAssumption DEF OfferedAssumption
<1>2. IsFiniteSet(Waiting(i))
  BY <1>1, FS_Subset DEF Waiting
<1> QED BY <1>2, FS_CardinalityType

GaugeInv == \A i \in Instances : httpInFlight[i] = Cardinality(Waiting(i))

LEMMA GaugeKept ==
  ASSUME GaugeInv, UNCHANGED httpInFlight, \A i \in Instances : Waiting(i)' = Waiting(i)
  PROVE  GaugeInv'
BY DEF GaugeInv

\* One answer less is open in the process of h, if one was.
LEMMA GaugeAnswers ==
  ASSUME DeploymentAssumption, HandlersAssumption, ApiInv, GaugeInv, NEW h \in Handlers, Answers(h)
  PROVE  GaugeInv'
<1>1. CASE ~client[h]
  <2>1. UNCHANGED httpInFlight
    BY <1>1 DEF Answers, Completed, ApiInv, ApiTypeOK
  <2>2. ASSUME NEW i \in Instances PROVE Waiting(i)' = Waiting(i)
    BY <1>1 DEF Answers, Waiting
  <2> QED BY <2>1, <2>2, GaugeKept
<1>2. CASE client[h]
  <2>1. on[h] \in Instances /\ h \in Waiting(on[h])
    BY <1>2 DEF ApiInv, ApiTypeOK, Waiting
  <2>2. httpInFlight[on[h]] = Cardinality(Waiting(on[h])) /\ httpInFlight \in [Instances -> Nat]
    BY <2>1 DEF GaugeInv, ApiInv, ApiTypeOK
  <2>3. /\ Cardinality(Waiting(on[h]) \ {h}) = Cardinality(Waiting(on[h])) - 1
        /\ Cardinality(Waiting(on[h])) > 0
    <3>1. IsFiniteSet(Waiting(on[h])) /\ Cardinality(Waiting(on[h])) \in Nat
      BY WaitingFinite
    <3>2. Cardinality(Waiting(on[h]) \ {h}) = Cardinality(Waiting(on[h])) - 1
      BY <2>1, <3>1, FS_RemoveElement
    <3>3. IsFiniteSet(Waiting(on[h]) \ {h})
      BY <3>1, FS_RemoveElement
    <3>4. Cardinality(Waiting(on[h]) \ {h}) \in Nat
      BY <3>3, FS_CardinalityType
    <3> QED BY <3>1, <3>2, <3>4
  <2>4. httpInFlight' = [httpInFlight EXCEPT ![on[h]] = @ - 1]
    BY <1>2, <2>2, <2>3 DEF Answers, Completed
  <2>5. ASSUME NEW i \in Instances PROVE httpInFlight'[i] = Cardinality(Waiting(i)')
    <3>1. Waiting(i)' = Waiting(i) \ {h}
      BY DEF Answers, Waiting
    <3>2. CASE i = on[h]
      BY <2>1, <2>2, <2>3, <2>4, <3>1, <3>2
    <3>3. CASE i # on[h]
      <4>1. Waiting(i) \ {h} = Waiting(i)
        BY <3>3 DEF Waiting
      <4> QED BY <2>2, <2>4, <3>1, <3>3, <4>1 DEF GaugeInv
    <3> QED BY <3>2, <3>3
  <2> QED BY <2>5 DEF GaugeInv
<1> QED BY <1>1, <1>2 DEF ApiInv, ApiTypeOK

\* One answer more, or a job, for which nobody waits.
LEMMA GaugeBegins ==
  ASSUME DeploymentAssumption, HandlersAssumption, ApiInv, GaugeInv, NEW h \in Handlers, NEW i \in Instances,
         NEW q, Arrive(h, i, q) \/ TakeJob(h, i, q)
  PROVE  GaugeInv'
<1>1. ~client[h] /\ on' = [on EXCEPT ![h] = i] /\ \A j \in Instances : h \notin Waiting(j)
  BY DEF Arrive, TakeJob, ApiInv, ApiTypeOK, Waiting
<1>2. CASE TakeJob(h, i, q)
  BY <1>1, <1>2, GaugeKept DEF TakeJob, Waiting, ApiInv, ApiTypeOK
<1>3. CASE Arrive(h, i, q)
  <2>1. /\ httpInFlight' = [httpInFlight EXCEPT ![i] = @ + 1] /\ httpInFlight \in [Instances -> Nat]
        /\ client' = [client EXCEPT ![h] = TRUE]
    BY <1>3 DEF Arrive, ApiInv, ApiTypeOK
  <2>2. ASSUME NEW j \in Instances PROVE httpInFlight'[j] = Cardinality(Waiting(j)')
    <3>1. CASE j = i
      <4>1. Waiting(j)' = Waiting(j) \cup {h}
        BY <1>1, <2>1, <3>1 DEF Waiting, ApiInv, ApiTypeOK
      <4>2. Cardinality(Waiting(j) \cup {h}) = Cardinality(Waiting(j)) + 1
        BY <1>1, WaitingFinite, FS_AddElement
      <4> QED BY <2>1, <3>1, <4>1, <4>2 DEF GaugeInv
    <3>2. CASE j # i
      <4>1. Waiting(j)' = Waiting(j)
        BY <1>1, <2>1, <3>2 DEF Waiting, ApiInv, ApiTypeOK
      <4> QED BY <2>1, <3>2, <4>1 DEF GaugeInv
    <3> QED BY <3>1, <3>2
  <2> QED BY <2>2 DEF GaugeInv
<1> QED BY <1>2, <1>3

LEMMA GaugeGone ==
  ASSUME ApiInv, GaugeInv, NEW i \in Instances, Gone(i), DeploymentAssumption
  PROVE  GaugeInv'
<1>1. httpInFlight' = [httpInFlight EXCEPT ![i] = 0] /\ httpInFlight \in [Instances -> Nat]
  BY DEF Gone, ApiInv, ApiTypeOK
<1>2. ASSUME NEW j \in Instances PROVE httpInFlight'[j] = Cardinality(Waiting(j)')
  <2>1. CASE j = i
    <3>1. Waiting(j)' = {}
      BY <2>1 DEF Gone, Waiting, DeploymentAssumption
    <3> QED BY <1>1, <2>1, <3>1, FS_EmptySet
  <2>2. CASE j # i
    <3>1. Waiting(j)' = Waiting(j)
      BY <2>2 DEF Gone, Waiting, DeploymentAssumption
    <3> QED BY <1>1, <2>2, <3>1 DEF GaugeInv
  <2> QED BY <2>1, <2>2
<1> QED BY <1>2 DEF GaugeInv

\* The gauge of requests in flight is exact in every process (metrics.ts), for any
\* finite number of requests: no answer is counted twice or missed.
THEOREM GaugeCorrect == Spec => []GaugeExact
<1>1. Init => GaugeInv
  <2>1. ASSUME Init, NEW i \in Instances PROVE httpInFlight[i] = Cardinality(Waiting(i))
    <3>1. Waiting(i) = {}
      BY <2>1 DEF Init, ApiInit, Waiting
    <3> QED BY <2>1, <3>1, FS_EmptySet DEF Init, ApiInit
  <2> QED BY <2>1 DEF GaugeInv
<1>2. ApiInv /\ GaugeInv /\ [Next]_vars => GaugeInv'
  <2> SUFFICES ASSUME ApiInv, GaugeInv, [Next]_vars PROVE GaugeInv' OBVIOUS
  <2>1. ASSUME UNCHANGED <<on, client, httpInFlight>> PROVE GaugeInv'
    BY <2>1, GaugeKept DEF Waiting
  <2>2. CASE UNCHANGED vars
    BY <2>1, <2>2 DEF vars, apiVars
  <2>3. ASSUME NEW i \in Instances, Deploys(i) \/ Closes(i) \/ Dies(i) PROVE GaugeInv'
    BY <2>1, <2>3, ContainerStep, GaugeGone, DeploymentAssumption DEF apiVars
  <2>4. ASSUME NEW h \in Handlers,
               \/ \E i \in Instances : Takes(h, i)
               \/ Handles(h)
               \/ (Receive(h) \/ ClientLeaves(h) \/ StatementFails(h)) /\ UNCHANGED deploymentVars
        PROVE  GaugeInv'
    <3>1. CASE \E i \in Instances, q \in Requests : Arrive(h, i, q) \/ (q \in Expiries /\ TakeJob(h, i, q))
      BY <3>1, GaugeBegins, DeploymentAssumption, HandlersAssumption
    <3>2. CASE Transacts(h) \/ Asks(h) \/ Receive(h) \/ ClientLeaves(h) \/ StatementFails(h)
      BY <2>1, <3>2, HandlerEffect, GaugeAnswers, DeploymentAssumption, HandlersAssumption
    <3> QED BY <2>4, <3>1, <3>2, HandlersStep
  <2> QED BY <2>2, <2>3, <2>4 DEF Next
<1>3. GaugeInv => GaugeExact
  BY DEF GaugeInv, GaugeExact, Of, Waiting
<1> QED BY <1>1, <1>2, <1>3, ContainersDeploy, PTL DEF Spec

\* When a process closes its pools no client waits for it and no job is under way
\* (server.ts, worker.ts): neither can begin after what closes before.
THEOREM ClosedPoolsAreUnused == Spec => []NobodyWaitsOnClosedPools
<1> DEFINE Inv == NobodyWaitsOnClosedPools
<1>1. Init => Inv
  BY DEF Init, DeploymentInit, NobodyWaitsOnClosedPools
<1>2. ApiInv /\ DeploymentTypeOK /\ Inv /\ [Next]_vars => Inv'
  <2> SUFFICES ASSUME ApiInv, DeploymentTypeOK, Inv, [Next]_vars PROVE Inv' OBVIOUS
  <2>1. ASSUME UNCHANGED phase,
               \A h \in Handlers, i \in Instances : on'[h] = i /\ phase[i] = "pools" =>
                 on[h] = i /\ (client'[h] => client[h])
        PROVE  Inv'
    BY <2>1 DEF NobodyWaitsOnClosedPools, Of
  <2>2. CASE UNCHANGED vars
    BY <2>1, <2>2 DEF vars, deploymentVars, apiVars, handlerVars
  <2>3. ASSUME NEW i \in Instances, Deploys(i) \/ Closes(i) \/ Dies(i) PROVE Inv'
    <3>1. \A h \in Handlers : on'[h] \in {on[h], Nobody} /\ (client'[h] => client[h])
      BY <2>3, ContainerStep DEF Gone, apiVars, ApiInv, ApiTypeOK
    <3>2. \A j \in Instances : phase'[j] = "pools" => phase[j] = "pools" \/ (j = i /\ Drains(i))
      BY <2>3 DEF Deploys, Migrates, Closes, Dies, Migrate, Start, AcquireLock, Check, RunScript, Commit, Unlock,
                  MigrationFails, Signal, RealtimeClosed, Drained, PoolsClosed, Deadline, SecondShutdown, Crash,
                  Exit, GoOn, Closing, DeploymentTypeOK
    <3> QED BY <3>1, <3>2, DeploymentAssumption DEF NobodyWaitsOnClosedPools, Of, Drains, DeploymentAssumption
  <2>4. ASSUME NEW h \in Handlers, \E i \in Instances : Takes(h, i) PROVE Inv'
    <3>1. PICK i \in Instances : Takes(h, i)
      BY <2>4
    <3>2. /\ phase[i] \in {"serving", "realtime", "drain"} /\ UNCHANGED phase
          /\ \A k \in Handlers : on'[k] = (IF k = h THEN i ELSE on[k]) /\ (k # h => client'[k] = client[k])
      BY <3>1 DEF Takes, Arrive, TakeJob, TakesRequests, deploymentVars, ApiInv, ApiTypeOK
    <3> QED BY <2>1, <3>2
  <2>5. ASSUME NEW h \in Handlers,
               \/ Handles(h)
               \/ (Receive(h) \/ ClientLeaves(h) \/ StatementFails(h)) /\ UNCHANGED deploymentVars
        PROVE  Inv'
    <3>1. UNCHANGED phase
      BY <2>5 DEF Handles, deploymentVars
    <3>2. UNCHANGED <<on, client>> \/ Answers(h)
      BY <2>5, HandlerEffect DEF Handles, Asks
    <3> QED BY <2>1, <3>1, <3>2, DeploymentAssumption DEF Answers, DeploymentAssumption
  <2> QED BY <2>2, <2>3, <2>4, <2>5 DEF Next
<1>3. Spec => []DeploymentTypeOK
  BY ContainersDeploy, SchemaCorrect, PTL
<1> QED BY <1>1, <1>2, <1>3, ContainersDeploy, PTL DEF Spec
=============================================================================
