--------------------------- MODULE MCRouteSearch ---------------------------
(* An instance of QueuedSearch for TLC: a diamond with a crossing road and a *)
(* direct one, where a node can be found first by a dearer way and the queue *)
(* gets long enough for an inner entry with two children; and a node off the *)
(* network.  No road is both long and risky.                                 *)
EXTENDS QueuedSearch, TLC

CONSTANTS o, a, b, d, z

MCNodes == {o, a, b, d, z}
MCEnds == (1 :> <<o, a>>) @@ (2 :> <<o, b>>) @@ (3 :> <<b, a>>) @@ (4 :> <<a, d>>) @@ (5 :> <<b, d>>) @@ (6 :> <<o, d>>)
MCCrow == (o :> {2}) @@ (a :> {0, 1}) @@ (b :> {0, 1}) @@ (d :> {0}) @@ (z :> {0})
MCSegments == 1..6
MCRoads == [distance : {1, 4}, risk : {0, 8}] \ {[distance |-> 4, risk |-> 8]}
MCPreferences == <<"FASTEST", "BALANCED", "SAFEST">>
=============================================================================
