---------------------------- MODULE MCPlatform ----------------------------
(* An instance of Platform for TLC: an API server whose image has two migration *)
(* files and a worker of an older image that has one; two requests, or a request *)
(* and a job, at a time about one report and one address.                       *)
EXTENDS Platform, TLC

CONSTANTS api, worker, author, other, report, address

MCImage == (api :> 2) @@ (worker :> 1)
MCReporter == report :> author
Decides(u) == [op |-> "evaluate", report |-> report, user |-> u, decision |-> "CONFIRM"]

\* Place 1 or 2: every pair that shares a row, without its mirror image.
MCOffered ==
  <<Registrations \cup Creations \cup {Decides(other)},
    Registrations \cup {Decides(other),
      [op |-> "expire", due |-> {report}],
      [op |-> "moderate", report |-> report, verdict |-> "VERIFIED"]}>>
=============================================================================
