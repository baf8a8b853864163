------------------------------ MODULE Community ------------------------------
(***************************************************************************)
(* What the API promises of accounts and of the community's decisions on   *)
(* reports, each operation one step: one account for an address, one       *)
(* decision of a user on a report, never on one's own, and counts that are *)
(* those of the decisions.                                                 *)
(***************************************************************************)
EXTENDS Naturals, FiniteSets

CONSTANTS
  Addresses,  \* e-mail addresses in lower case
  Users,
  Reports,
  Reporter    \* Reporter[r]: the user who reports r

VARIABLES
  accounts,   \* accounts[a]: rows of users with this address
  status,     \* of each report, "absent" before it is created
  decisions,  \* rows of report_confirmations
  counts      \* confirmation_count and dispute_count

vars == <<accounts, status, decisions, counts>>

ActiveStatus == {"PENDING", "VERIFIED"}
Verdicts  == {"VERIFIED", "REJECTED"}
Status    == {"absent", "EXPIRED"} \cup ActiveStatus \cup Verdicts
Decision  == {"CONFIRM", "DISPUTE"}
Decisions == [report : Reports, user : Users, decision : Decision]

TypeOK ==
  /\ accounts \in [Addresses -> Nat]
  /\ status \in [Reports -> Status]
  /\ decisions \subseteq Decisions
  /\ counts \in [Reports -> [Decision -> Nat]]

Init ==
  /\ accounts = [a \in Addresses |-> 0]
  /\ status = [r \in Reports |-> "absent"]
  /\ decisions = {}
  /\ counts = [r \in Reports |-> [d \in Decision |-> 0]]

Register(a) ==
  /\ accounts[a] = 0
  /\ accounts' = [accounts EXCEPT ![a] = 1]
  /\ UNCHANGED <<status, decisions, counts>>

Report(r) ==
  /\ status[r] = "absent"
  /\ status' = [status EXCEPT ![r] = "PENDING"]
  /\ UNCHANGED <<accounts, decisions, counts>>

HasDecided(u, r) == \E d \in decisions : d.user = u /\ d.report = r

Decide(d) ==
  /\ status[d.report] # "absent"
  /\ Reporter[d.report] # d.user
  /\ ~HasDecided(d.user, d.report)
  /\ decisions' = decisions \cup {d}
  /\ counts' = [counts EXCEPT ![d.report][d.decision] = @ + 1]
  /\ UNCHANGED <<accounts, status>>

Moderate(r, verdict) ==
  /\ status[r] # "absent"
  /\ status' = [status EXCEPT ![r] = verdict]
  /\ UNCHANGED <<accounts, decisions, counts>>

Expire(due) ==
  /\ \A r \in due : status[r] \in ActiveStatus
  /\ status' = [r \in Reports |-> IF r \in due THEN "EXPIRED" ELSE status[r]]
  /\ UNCHANGED <<accounts, decisions, counts>>

Next ==
  \/ \E a \in Addresses : Register(a)
  \/ \E r \in Reports : \/ Report(r)
                        \/ \E verdict \in Verdicts : Moderate(r, verdict)
  \/ \E due \in SUBSET Reports : Expire(due)
  \/ \E d \in Decisions : Decide(d)

Spec == Init /\ [][Next]_vars

-----------------------------------------------------------------------------
On(r, d) == {e \in decisions : e.report = r /\ e.decision = d}

\* The counts a report shows, which its confidence is computed from, are the
\* numbers of decisions stored; nobody has decided twice or on an own report.
CountsAreDecisions ==
  /\ \A r \in Reports, d \in Decision : counts[r][d] = Cardinality(On(r, d))
  /\ \A d, e \in decisions : d.report = e.report /\ d.user = e.user => d = e
  /\ \A d \in decisions : Reporter[d.report] # d.user

\* An address belongs to one account.
OneAccount == \A a \in Addresses : accounts[a] <= 1

=============================================================================
