----------------------------- MODULE ApiHandlers -----------------------------
(***************************************************************************)
(* The handlers of the API, and the expiry job of the worker, between the  *)
(* arrival of a request and its answer: AuthService.register and           *)
(* IncidentService over PostgreSQL.                                        *)
(*                                                                         *)
(* A statement outside a transaction is one step.  recordDecision is a     *)
(* transaction: SELECT ... FOR UPDATE locks the report's row, and an       *)
(* UPDATE of the row by anybody else waits until COMMIT or ROLLBACK.       *)
(* Every statement may reject (its timeout, a lost connection).            *)
(*                                                                         *)
(* Left out: login, refresh and logout, which are Sessions; requests that  *)
(* only read; what validation, authentication and rate limits refuse; the  *)
(* refresh jobs, which are RiskPipeline.  Reports are never deleted.       *)
(***************************************************************************)
EXTENDS Deployment

CONSTANTS Addresses, Users, Reports, Reporter,
  Handlers    \* places for a request or job under way

VARIABLES
  accounts, status, decisions, counts,  \* committed rows, as in Community
  rowLock,      \* the handler whose transaction holds the row of each report
  at,           \* where each handler is
  on,           \* the process it runs in
  request,      \* what it was asked for
  client,       \* whether somebody waits for its answer
  httpInFlight  \* the gauge of each process

rows == <<accounts, status, decisions, counts>>
handlerVars == <<at, on, request, client>>
apiVars == <<rows, rowLock, handlerVars, httpInFlight>>

Promise == INSTANCE Community

Registrations == [op : {"register"}, address : Addresses]
Creations     == [op : {"create"}, report : Reports]
Evaluations   == [op : {"evaluate"}, report : Reports, user : Users, decision : Promise!Decision]
Moderations   == [op : {"moderate"}, report : Reports, verdict : Promise!Verdicts]
Expiries      == [op : {"expire"}, due : SUBSET Reports]
Requests == Registrations \cup Creations \cup Evaluations \cup Moderations \cup Expiries

Transaction == {"confirm", "commit", "rollback"}
At == {"idle", "receive", "find", "account", "session", "insert", "select",
       "update", "expire", "schedule"} \cup Transaction

ASSUME HandlersAssumption == Nobody \notin Handlers /\ Nobody \notin Requests

\* Where the work on a request begins.
First(q) ==
  CASE q.op = "register" -> "find"
    [] q.op = "create"   -> "insert"
    [] q.op = "evaluate" -> "select"
    [] q.op = "moderate" -> "update"
    [] q.op = "expire"   -> "expire"

\* Only a transaction holds a row, and only the one that evaluates its report.
ApiTypeOK ==
  /\ Promise!TypeOK
  /\ rowLock \in [Reports -> Handlers \cup {Nobody}]
  /\ at \in [Handlers -> At]
  /\ on \in [Handlers -> Instances \cup {Nobody}]
  /\ request \in [Handlers -> Requests \cup {Nobody}]
  /\ client \in [Handlers -> BOOLEAN]
  /\ httpInFlight \in [Instances -> Nat]
  /\ \A h \in Handlers :
       /\ at[h] = "idle" <=> on[h] = Nobody
       /\ at[h] = "idle" <=> request[h] = Nobody
       /\ client[h] => at[h] # "idle"
  /\ \A r \in Reports : rowLock[r] # Nobody =>
       LET h == rowLock[r] IN at[h] \in Transaction /\ request[h].report = r

ApiInit ==
  /\ Promise!Init
  /\ rowLock = [r \in Reports |-> Nobody]
  /\ at = [h \in Handlers |-> "idle"]
  /\ on = [h \in Handlers |-> Nobody]
  /\ request = [h \in Handlers |-> Nobody]
  /\ client = [h \in Handlers |-> FALSE]
  /\ httpInFlight = [i \in Instances |-> 0]

-----------------------------------------------------------------------------
(* A request and its answer *)

GoTo(h, next) == at' = [at EXCEPT ![h] = next]
Report(h) == request[h].report

\* Mutant: both 'finish' and 'close' count the request as completed.
CompletedTwice(i, waiting) ==
  httpInFlight' = [httpInFlight EXCEPT ![i] = IF waiting THEN (IF @ < 2 THEN 0 ELSE @ - 2) ELSE @]

\* requestObservability: the gauge goes down at 'finish' or 'close' of the
\* response, whichever is first, and never below zero
Completed(i, waiting) ==
  httpInFlight' = [httpInFlight EXCEPT ![i] = IF waiting /\ @ > 0 THEN @ - 1 ELSE @]

\* A row number is given out once.
Unused(r) == status[r] = "absent" /\ \A h \in Handlers : request[h] # [op |-> "create", report |-> r]

\* The head of a request arrives; its body may take as long as it likes.
Arrive(h, i, q) ==
  /\ at[h] = "idle"
  /\ q.op = "create" => Unused(q.report)
  /\ GoTo(h, "receive")
  /\ on' = [on EXCEPT ![h] = i]
  /\ request' = [request EXCEPT ![h] = q]
  /\ client' = [client EXCEPT ![h] = TRUE]
  /\ httpInFlight' = [httpInFlight EXCEPT ![i] = @ + 1]
  /\ UNCHANGED <<rows, rowLock>>

\* express.json has the whole body
Receive(h) ==
  /\ at[h] = "receive"
  /\ GoTo(h, First(request[h]))
  /\ UNCHANGED <<rows, rowLock, on, request, client, httpInFlight>>

\* The client gives up.  The handler runs on, unless it never started.
ClientLeaves(h) ==
  /\ client[h]
  /\ client' = [client EXCEPT ![h] = FALSE]
  /\ Completed(on[h], TRUE)
  /\ IF at[h] = "receive"
     THEN /\ GoTo(h, "idle")
          /\ on' = [on EXCEPT ![h] = Nobody]
          /\ request' = [request EXCEPT ![h] = Nobody]
     ELSE UNCHANGED <<at, on, request>>
  /\ UNCHANGED <<rows, rowLock>>

\* The maintenance worker takes a job.
TakeJob(h, i, q) ==
  /\ at[h] = "idle"
  /\ \A k \in Handlers : on[k] # i
  /\ GoTo(h, First(q))
  /\ on' = [on EXCEPT ![h] = i]
  /\ request' = [request EXCEPT ![h] = q]
  /\ UNCHANGED <<rows, rowLock, client, httpInFlight>>

\* The answer, or the end of the job.
Reply(h) ==
  /\ GoTo(h, "idle")
  /\ on' = [on EXCEPT ![h] = Nobody]
  /\ request' = [request EXCEPT ![h] = Nobody]
  /\ client' = [client EXCEPT ![h] = FALSE]
  /\ Completed(on[h], client[h])

\* The handler stays at work.
Continues(h, next) == GoTo(h, next) /\ UNCHANGED <<on, request, client, httpInFlight>>

Free(h) == [r \in Reports |-> IF rowLock[r] = h THEN Nobody ELSE rowLock[r]]

-----------------------------------------------------------------------------
(* AuthService.register *)

\* findByEmail: 409 if the address is taken, otherwise hash the password
FindAddress(h) ==
  /\ at[h] = "find"
  /\ IF accounts[request[h].address] > 0 THEN Reply(h) ELSE Continues(h, "account")
  /\ UNCHANGED <<rows, rowLock>>

\* Mutant: no unique index on LOWER(email).
InsertAnyUser(h) ==
  /\ at[h] = "account"
  /\ accounts' = [accounts EXCEPT ![request[h].address] = @ + 1]
  /\ Continues(h, "session")
  /\ UNCHANGED <<status, decisions, counts, rowLock>>

\* INSERT INTO users: 23505, the unique index on LOWER(email), is answered with 409
InsertUser(h) ==
  /\ at[h] = "account"
  /\ IF accounts[request[h].address] > 0
     THEN Reply(h) /\ UNCHANGED accounts
     ELSE /\ accounts' = [accounts EXCEPT ![request[h].address] = @ + 1]
          /\ Continues(h, "session")
  /\ UNCHANGED <<status, decisions, counts, rowLock>>

\* issueSession, one INSERT (its row is one of Sessions), and 201
IssueSession(h) ==
  /\ at[h] = "session"
  /\ Reply(h)
  /\ UNCHANGED <<rows, rowLock>>

-----------------------------------------------------------------------------
(* IncidentService *)

\* create: one INSERT
InsertReport(h) ==
  /\ at[h] = "insert"
  /\ status' = [status EXCEPT ![Report(h)] = "PENDING"]
  /\ Continues(h, "schedule")
  /\ UNCHANGED <<accounts, decisions, counts, rowLock>>

\* recordDecision: BEGIN, SELECT reporter_id ... FOR UPDATE.  Without such a row
\* (404) and for the reporter (409) it throws.
SelectReport(h) ==
  /\ at[h] = "select"
  /\ rowLock[Report(h)] = Nobody
  /\ IF status[Report(h)] = "absent"
     THEN Continues(h, "rollback") /\ UNCHANGED rowLock
     ELSE /\ rowLock' = [rowLock EXCEPT ![Report(h)] = h]
          /\ Continues(h, IF Reporter[Report(h)] = request[h].user THEN "rollback" ELSE "confirm")
  /\ UNCHANGED rows

\* Mutant: INSERT ... ON CONFLICT DO NOTHING, and the count goes up all the same.
ConfirmAgain(h) ==
  /\ at[h] = "confirm"
  /\ Continues(h, "commit")
  /\ UNCHANGED <<rows, rowLock>>

\* INSERT INTO report_confirmations, then the UPDATE of the count; both are private
\* until the COMMIT.  23505: this user has decided before.
Confirm(h) ==
  /\ at[h] = "confirm"
  /\ Continues(h, IF Promise!HasDecided(request[h].user, Report(h)) THEN "rollback" ELSE "commit")
  /\ UNCHANGED <<rows, rowLock>>

Made(h) == [report |-> Report(h), user |-> request[h].user, decision |-> request[h].decision]

Stored(h) ==
  /\ decisions' = decisions \cup {Made(h)}
  /\ counts' = [counts EXCEPT ![Report(h)][request[h].decision] = @ + 1]
  /\ UNCHANGED <<accounts, status>>

CommitDecision(h) ==
  /\ at[h] = "commit"
  /\ Stored(h)
  /\ rowLock' = Free(h)
  /\ Continues(h, "schedule")

\* Mutant: the client goes back to the pool in the middle of its transaction.
ReleaseOnly(h) ==
  /\ at[h] = "rollback"
  /\ Reply(h)
  /\ UNCHANGED <<rows, rowLock>>

\* ROLLBACK and the error's answer
Rollback(h) ==
  /\ at[h] = "rollback"
  /\ rowLock' = Free(h)
  /\ Reply(h)
  /\ UNCHANGED rows

\* Mutant: the error of a missing report never becomes an answer.
UpdateUnanswered(h) ==
  /\ at[h] = "update"
  /\ rowLock[Report(h)] = Nobody
  /\ status[Report(h)] # "absent"
  /\ status' = [status EXCEPT ![Report(h)] = request[h].verdict]
  /\ Continues(h, "schedule")
  /\ UNCHANGED <<accounts, decisions, counts, rowLock>>

\* updateStatus: one UPDATE, which waits for the row; 404 without it
UpdateStatus(h) ==
  /\ at[h] = "update"
  /\ rowLock[Report(h)] = Nobody
  /\ IF status[Report(h)] = "absent"
     THEN Reply(h) /\ UNCHANGED status
     ELSE /\ status' = [status EXCEPT ![Report(h)] = request[h].verdict]
          /\ Continues(h, "schedule")
  /\ UNCHANGED <<accounts, decisions, counts, rowLock>>

\* scheduleIncidentRefresh and the answer
Schedule(h) ==
  /\ at[h] = "schedule"
  /\ Reply(h)
  /\ UNCHANGED <<rows, rowLock>>

\* expireDueReports: one UPDATE of all the rows its snapshot shows as due.  It waits
\* for each of them, and looks at its newest version then.
ExpireReports(h) ==
  /\ at[h] = "expire"
  /\ \A r \in request[h].due : rowLock[r] = Nobody
  /\ status' = [r \in Reports |->
                  IF r \in request[h].due /\ status[r] \in Promise!ActiveStatus
                  THEN "EXPIRED" ELSE status[r]]
  /\ Reply(h)
  /\ UNCHANGED <<accounts, decisions, counts, rowLock>>

-----------------------------------------------------------------------------
(* Failures *)

\* A statement, or queue.add, rejects.  In a transaction the answer is preceded by
\* a ROLLBACK; if it was the answer to COMMIT that was lost, the decision stands.
StatementFails(h) ==
  /\ at[h] \notin {"idle", "receive", "rollback"}
  /\ IF at[h] \in {"select"} \cup Transaction
     THEN /\ Continues(h, "rollback")
          /\ \/ UNCHANGED <<rows, rowLock>>
             \/ at[h] = "commit" /\ Stored(h) /\ rowLock' = Free(h)
     ELSE Reply(h) /\ UNCHANGED <<rows, rowLock>>

\* Process i is gone: its handlers, and its sessions with their transactions.
Gone(i) ==
  /\ at' = [h \in Handlers |-> IF on[h] = i THEN "idle" ELSE at[h]]
  /\ on' = [h \in Handlers |-> IF on[h] = i THEN Nobody ELSE on[h]]
  /\ request' = [h \in Handlers |-> IF on[h] = i THEN Nobody ELSE request[h]]
  /\ client' = [h \in Handlers |-> client[h] /\ on[h] # i]
  /\ rowLock' = [r \in Reports |-> IF rowLock[r] # Nobody /\ on[rowLock[r]] = i
                                   THEN Nobody ELSE rowLock[r]]
  /\ httpInFlight' = [httpInFlight EXCEPT ![i] = 0]
  /\ UNCHANGED rows

-----------------------------------------------------------------------------
Lock(h) == SelectReport(h) \/ UpdateStatus(h) \/ ExpireReports(h)

\* what needs a connection that it does not hold yet, or Redis
Asks(h) ==
  \/ FindAddress(h) \/ InsertUser(h) \/ IssueSession(h) \/ InsertReport(h)
  \/ Schedule(h) \/ Lock(h)

\* the rest of a transaction
Transacts(h) == Confirm(h) \/ CommitDecision(h) \/ Rollback(h)

=============================================================================
