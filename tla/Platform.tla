------------------------------ MODULE Platform ------------------------------
(***************************************************************************)
(* The containers of the deployment with the requests and jobs they run.   *)
(*                                                                         *)
(* An API server takes requests until its HTTP server has closed, a worker *)
(* takes jobs while it runs; the close of the HTTP server waits for open   *)
(* requests, that of the BullMQ workers for their jobs, and that of the    *)
(* PostgreSQL pool for the clients checked out.  When a process is gone, so*)
(* are they.                                                               *)
(***************************************************************************)
EXTENDS ApiHandlers, FiniteSets

CONSTANT Offered   \* Offered[h]: the requests and jobs that may take the place h

ASSUME OfferedAssumption == Offered \in [Handlers -> SUBSET Requests] /\ IsFiniteSet(Handlers)

vars == <<deploymentVars, apiVars>>

Init == DeploymentInit /\ ApiInit

-----------------------------------------------------------------------------
Of(i) == {h \in Handlers : on[h] = i}

\* server.close(), after the gateway, closes the listening socket and the idle
\* connections; one with a request open stays, and may carry further requests until
\* its keep-alive ends.  Which of the requests share a connection is left open.
TakesRequests(i) == i \notin Workers /\ phase[i] \in {"serving", "realtime", "drain"}

\* Mutant: the close of the HTTP server is not awaited.
DrainsAtOnce(i) == i \in Workers => Of(i) = {}

\* The callback of server.close() comes when no connection has a request open;
\* a handler whose client has left is none.  worker.close() awaits the jobs.
Drains(i) == IF i \in Workers THEN Of(i) = {} ELSE \A h \in Of(i) : ~client[h]

\* pool.end() waits for clients that are checked out.
PoolsIdle(i) == \A h \in Of(i) : at[h] \notin Transaction

-----------------------------------------------------------------------------
(* The containers *)

Migrates(i) == phase[i] \in Migrating /\ UNCHANGED apiVars /\ Migrate(i)

Deploys(i) ==
  \/ Migrates(i)
  \/ (Start(i) \/ MigrationFails(i) \/ Signal(i)) /\ UNCHANGED apiVars

\* what shutdown() awaits, and the server's deadline
Closes(i) ==
  /\ phase[i] \in Closing
  /\ \/ UNCHANGED apiVars /\ RealtimeClosed(i)
     \/ UNCHANGED apiVars /\ Drains(i) /\ Drained(i)
     \/ PoolsIdle(i) /\ PoolsClosed(i) /\ Gone(i)
     \/ Deadline(i) /\ Gone(i)

Dies(i) == (SecondShutdown(i) \/ Crash(i)) /\ Gone(i)

-----------------------------------------------------------------------------
(* The requests and jobs *)

Takes(h, i) ==
  /\ \E q \in Offered[h] :
       \/ TakesRequests(i) /\ q \notin Expiries /\ Arrive(h, i, q)
       \/ i \in Workers /\ phase[i] = "serving" /\ q \in Expiries /\ TakeJob(h, i, q)
  /\ UNCHANGED deploymentVars

\* When the pool has ended it refuses what asks for a client; a statement that waits
\* for a row was sent before, and a transaction has its client.
Handles(h) ==
  /\ at[h] \notin {"idle", "receive"}
  /\ UNCHANGED deploymentVars
  /\ \/ Transacts(h) \/ Lock(h)
     \/ phase[on[h]] # "pools" /\ Asks(h)

Next ==
  \/ \E i \in Instances : Deploys(i) \/ Closes(i) \/ Dies(i)
  \/ \E h \in Handlers :
       \/ \E i \in Instances : Takes(h, i)
       \/ Handles(h)
       \/ (Receive(h) \/ ClientLeaves(h) \/ StatementFails(h)) /\ UNCHANGED deploymentVars

Spec == Init /\ [][Next]_vars

\* PostgreSQL serves those who wait for a lock in turn, and answers or rejects what
\* it is sent; what shutdown() awaits resolves when it can, and the timer of the
\* deadline fires.  Nothing is assumed of clients: a body may never be complete.
Fairness ==
  /\ \A i \in Instances : SF_vars(Migrates(i)) /\ WF_vars(Closes(i))
  /\ \A h \in Handlers : SF_vars(Handles(h))

FairSpec == Spec /\ Fairness

-----------------------------------------------------------------------------
(* Properties *)

TypeOK == DeploymentTypeOK /\ ApiTypeOK

\* Every step of the handlers, of whatever process, is a step of Community or
\* changes no row: no interleaving of two registrations or of two decisions, and
\* no process that dies, is seen in the stored data.
ImplementsCommunity == Promise!Spec

\* The gauge of requests in flight is exact in every process, although a response
\* may finish and close, or close without having finished.
GaugeExact ==
  \A i \in Instances : httpInFlight[i] = Cardinality({h \in Of(i) : client[h]})

\* When the pools are closed nobody waits for an answer any more, and no job is
\* under way: what a shutdown cuts off in silence is the work of those who left.
NobodyWaitsOnClosedPools ==
  \A i \in Instances : phase[i] = "pools" =>
    IF i \in Workers THEN Of(i) = {} ELSE \A h \in Of(i) : ~client[h]

\* No container is on its way up or down for ever: none waits in vain for the lock of
\* the migrations, and a signal ends the process whatever its clients do.
EveryMoveEnds == \A i \in Instances : []<>(phase[i] \in {"off", "serving"})

\* The work on a request ends, however many wait for the same row and whatever
\* rejects: no transaction is left open.
EveryRequestEnds ==
  \A h \in Handlers : []<>(at[h] \in {"idle", "receive"})

=============================================================================
