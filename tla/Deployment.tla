----------------------------- MODULE Deployment -----------------------------
(***************************************************************************)
(* A container of the deployment, from its start to its exit.              *)
(*                                                                         *)
(* Its command runs migrate.js and, if that exits with 0, the API server   *)
(* or the worker.  Containers start at the same time: migrate.js takes an  *)
(* advisory lock of PostgreSQL for the session, and applies each file that *)
(* schema_migrations does not name in a transaction of its own.  A signal  *)
(* starts the shutdown: the server closes the realtime gateway, then the   *)
(* HTTP server and the queues, then its pools, under a deadline; the       *)
(* worker closes its BullMQ workers, the queues and the pools.             *)
(*                                                                         *)
(* What a shutdown waits for are the requests and jobs of the process:     *)
(* Platform adds these waits.  Files are numbered in the order of their    *)
(* names, and a newer image only adds files behind those of older ones.    *)
(***************************************************************************)
EXTENDS Naturals, Sequences

CONSTANTS
  Instances,  \* containers
  Workers,    \* those that run the worker; the others run the API server
  Nobody,     \* no holder of a lock, no process, no request
  Image       \* Image[i]: the number of migration files in the image of i

ASSUME DeploymentAssumption ==
  /\ Workers \subseteq Instances
  /\ Nobody \notin Instances
  /\ Image \in [Instances -> Nat]

VARIABLES
  phase,         \* where each container is
  file,          \* the file its migrate.js is at, 1 when that does not run
  failed,        \* containers whose migrate() has rejected
  advisoryLock,  \* the session that holds the advisory lock
  schema,        \* the scripts whose effects are committed, in that order
  recorded       \* names in schema_migrations

deploymentVars == <<phase, file, failed, advisoryLock, schema, recorded>>

Migrating == {"lock", "check", "script", "commit", "unlock"}
Closing   == {"realtime", "drain", "pools"}
Phase     == {"off", "serving"} \cup Migrating \cup Closing

Applied == {schema[k] : k \in DOMAIN schema}

DeploymentTypeOK ==
  /\ phase \in [Instances -> Phase]
  /\ file \in [Instances -> Nat]
  /\ failed \subseteq Instances
  /\ advisoryLock \in Instances \cup {Nobody}
  /\ schema \in Seq(Nat)
  /\ recorded \subseteq Nat
  /\ \A i \in failed : phase[i] = "unlock"
  /\ \A i \in Instances : phase[i] \notin Migrating => file[i] = 1

DeploymentInit ==
  /\ phase = [i \in Instances |-> "off"]
  /\ file = [i \in Instances |-> 1]
  /\ failed = {}
  /\ advisoryLock = Nobody
  /\ schema = <<>> /\ recorded = {}

GoOn(i, next) == phase' = [phase EXCEPT ![i] = next]
Rewind(i) == file' = [file EXCEPT ![i] = 1]

-----------------------------------------------------------------------------
(* migrate.ts *)

\* The container is started, for the first time or again.
Start(i) ==
  /\ phase[i] = "off"
  /\ GoOn(i, "lock")
  /\ UNCHANGED <<file, failed, advisoryLock, schema, recorded>>

\* Mutant: nobody waits for the lock.
LockForNobody(i) ==
  /\ phase[i] = "lock"
  /\ advisoryLock' = i
  /\ GoOn(i, "check")
  /\ UNCHANGED <<file, failed, schema, recorded>>

\* pg_advisory_lock waits; CREATE TABLE IF NOT EXISTS follows it
AcquireLock(i) ==
  /\ phase[i] = "lock"
  /\ advisoryLock = Nobody
  /\ advisoryLock' = i
  /\ GoOn(i, "check")
  /\ UNCHANGED <<file, failed, schema, recorded>>

\* Mutant: the last file is forgotten.
CheckShort(i) ==
  /\ phase[i] = "check"
  /\ IF file[i] >= Image[i] THEN GoOn(i, "unlock") /\ Rewind(i)
     ELSE IF file[i] \in recorded THEN file' = [file EXCEPT ![i] = @ + 1] /\ UNCHANGED phase
     ELSE GoOn(i, "script") /\ UNCHANGED file
  /\ UNCHANGED <<failed, advisoryLock, schema, recorded>>

\* the head of the for loop: SELECT EXISTS ... WHERE name
Check(i) ==
  /\ phase[i] = "check"
  /\ IF file[i] > Image[i] THEN GoOn(i, "unlock") /\ Rewind(i)
     ELSE IF file[i] \in recorded THEN file' = [file EXCEPT ![i] = @ + 1] /\ UNCHANGED phase
     ELSE GoOn(i, "script") /\ UNCHANGED file
  /\ UNCHANGED <<failed, advisoryLock, schema, recorded>>

\* BEGIN, the script and the INSERT: seen by nobody before the COMMIT.  If another
\* is at the same file they wait for its end, and if it was applied meanwhile they
\* fail, at its tables or at the key of schema_migrations.
RunScript(i) ==
  /\ phase[i] = "script"
  /\ \A j \in Instances \ {i} : ~(phase[j] = "commit" /\ file[j] = file[i])
  /\ IF file[i] \in Applied
     THEN GoOn(i, "unlock") /\ Rewind(i) /\ failed' = failed \cup {i}
     ELSE GoOn(i, "commit") /\ UNCHANGED <<file, failed>>
  /\ UNCHANGED <<advisoryLock, schema, recorded>>

\* Mutant: the name is recorded after the COMMIT, and that is lost.
CommitUnrecorded(i) ==
  /\ phase[i] = "commit"
  /\ schema' = Append(schema, file[i])
  /\ file' = [file EXCEPT ![i] = @ + 1]
  /\ GoOn(i, "check")
  /\ UNCHANGED <<failed, advisoryLock, recorded>>

Commit(i) ==
  /\ phase[i] = "commit"
  /\ schema' = Append(schema, file[i])
  /\ recorded' = recorded \cup {file[i]}
  /\ file' = [file EXCEPT ![i] = @ + 1]
  /\ GoOn(i, "check")
  /\ UNCHANGED <<failed, advisoryLock>>

\* A statement rejects: cancelled by its timeout, waiting for the lock included,
\* or the connection is lost.  The transaction is rolled back, unless it was the
\* answer to COMMIT that was lost.
MigrationFails(i) ==
  /\ phase[i] \in Migrating
  /\ i \notin failed
  /\ failed' = failed \cup {i}
  /\ GoOn(i, "unlock") /\ Rewind(i)
  /\ \/ UNCHANGED <<schema, recorded>>
     \/ /\ phase[i] = "commit"
        /\ schema' = Append(schema, file[i])
        /\ recorded' = recorded \cup {file[i]}
  /\ UNCHANGED advisoryLock

Released(i) == IF advisoryLock = i THEN Nobody ELSE advisoryLock

\* Mutant: the session goes back to a pool that stays open, with the lock.
UnlockNothing(i) ==
  /\ phase[i] = "unlock"
  /\ GoOn(i, IF i \in failed THEN "off" ELSE "serving")
  /\ Rewind(i) /\ failed' = failed \ {i}
  /\ UNCHANGED <<advisoryLock, schema, recorded>>

\* pg_advisory_unlock, or else the end of the session with closePostgres; the
\* process exits with 0, so that the shell goes on, or with 1
Unlock(i) ==
  /\ phase[i] = "unlock"
  /\ advisoryLock' = Released(i)
  /\ GoOn(i, IF i \in failed THEN "off" ELSE "serving")
  /\ Rewind(i) /\ failed' = failed \ {i}
  /\ UNCHANGED <<schema, recorded>>

-----------------------------------------------------------------------------
(* server.ts, worker.ts *)

\* SIGTERM or SIGINT: shutdown().  The server ignores every further signal.
Signal(i) ==
  /\ phase[i] = "serving"
  /\ GoOn(i, IF i \in Workers THEN "drain" ELSE "realtime")
  /\ UNCHANGED <<file, failed, advisoryLock, schema, recorded>>

\* realtime.close() has resolved; only now server.close() is called
RealtimeClosed(i) ==
  /\ phase[i] = "realtime"
  /\ GoOn(i, "drain")
  /\ UNCHANGED <<file, failed, advisoryLock, schema, recorded>>

\* server.close() or the workers' close() have resolved, and the queues' close()
Drained(i) ==
  /\ phase[i] = "drain"
  /\ GoOn(i, "pools")
  /\ UNCHANGED <<file, failed, advisoryLock, schema, recorded>>

\* The process is gone, and with it its session.
Exit(i) ==
  /\ GoOn(i, "off")
  /\ advisoryLock' = Released(i)
  /\ Rewind(i) /\ failed' = failed \ {i}
  /\ UNCHANGED <<schema, recorded>>

\* closePostgres and closeRedis have resolved: exit code 0
PoolsClosed(i) ==
  /\ phase[i] = "pools"
  /\ Exit(i)

\* a second signal makes the worker end its pool a second time, which pg rejects:
\* the rejection is not handled and ends the process
SecondShutdown(i) ==
  /\ i \in Workers
  /\ phase[i] = "pools"
  /\ Exit(i)

\* Mutant: only the closing of the pools is under the deadline.
DeadlineOfPools(i) ==
  /\ i \notin Workers
  /\ phase[i] = "pools"
  /\ Exit(i)

\* GRACEFUL_SHUTDOWN_TIMEOUT_MS after the signal the server exits with 1
Deadline(i) ==
  /\ i \notin Workers
  /\ phase[i] \in Closing
  /\ Exit(i)

\* The process dies, or one of the close calls rejects.
Crash(i) ==
  /\ phase[i] # "off"
  /\ Exit(i)

-----------------------------------------------------------------------------
Migrate(i) ==
  \/ AcquireLock(i) \/ Check(i) \/ RunScript(i) \/ Commit(i) \/ Unlock(i)

Goes(i) ==
  \/ Start(i) \/ Migrate(i) \/ MigrationFails(i)
  \/ Signal(i) \/ RealtimeClosed(i) \/ Drained(i)

Ends(i) == PoolsClosed(i) \/ SecondShutdown(i) \/ Deadline(i) \/ Crash(i)

DeploymentNext == \E i \in Instances : Goes(i) \/ Ends(i)

DeploymentSpec == DeploymentInit /\ [][DeploymentNext]_deploymentVars

-----------------------------------------------------------------------------
(* Properties *)

\* Whatever starts together and wherever processes die: each script has taken
\* effect at most once, in the order of the files, and exactly those that did are
\* recorded.
SchemaInOrder ==
  /\ \A k \in DOMAIN schema : schema[k] = k
  /\ recorded = Applied

\* A server or worker only runs on a schema that has every file of its image,
\* even if it was another container that applied them.
RunsOnItsSchema ==
  \A i \in Instances : phase[i] \in {"serving"} \cup Closing => 1 .. Image[i] \subseteq Applied

\* No migrate.js applies what another has applied, or finds its own work undone or
\* done behind its back.  (It may still fail: its statement that waits for the lock, or
\* any other, may time out.)
NobodyAppliesTwice ==
  \A i \in Instances : phase[i] \in {"script", "commit"} => file[i] \notin Applied

=============================================================================
