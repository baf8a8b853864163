----------------------------- MODULE SessionStore -----------------------------
(***************************************************************************)
(* What the refresh sessions promise to a user's clients, each operation   *)
(* one step: a token is live until it is exchanged for exactly one other,  *)
(* or revoked.                                                             *)
(***************************************************************************)
CONSTANTS
  Tokens,
  None     \* no token

VARIABLES
  row,     \* what became of each token
  due,     \* tokens whose time has passed
  parent   \* the token each was exchanged for

vars == <<row, due, parent>>

Live == {t \in Tokens : row[t] = "live"}

Init ==
  /\ row = [t \in Tokens |-> "absent"]
  /\ due = {}
  /\ parent = [t \in Tokens |-> None]

Issue(t) ==
  /\ row[t] = "absent"
  /\ row' = [row EXCEPT ![t] = "live"]
  /\ UNCHANGED <<due, parent>>

TimePasses(t) ==
  /\ t \in Live
  /\ due' = due \cup {t}
  /\ UNCHANGED <<row, parent>>

\* A live token goes, and another comes in its place, in one step.
Exchange(t, n) ==
  /\ t \in Live
  /\ row[n] = "absent"
  /\ row' = [row EXCEPT ![t] = "ROTATED", ![n] = "live"]
  /\ parent' = [parent EXCEPT ![n] = t]
  /\ UNCHANGED due

Revoke(S, reason) ==
  /\ S \subseteq Live
  /\ row' = [t \in Tokens |-> IF t \in S THEN reason ELSE row[t]]
  /\ UNCHANGED <<due, parent>>

Next ==
  \/ \E t \in Tokens : Issue(t) \/ TimePasses(t) \/ Revoke({t}, "LOGOUT")
  \/ \E t \in due : Revoke({t}, "EXPIRED")
  \/ \E t, n \in Tokens : Exchange(t, n)
  \/ \E S \in SUBSET Tokens : Revoke(S, "TOKEN_REUSE_DETECTED")

Spec == Init /\ [][Next]_vars
=============================================================================
