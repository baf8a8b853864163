---------------------------- MODULE MCRouteCache ----------------------------
(* Instances of RouteCache for TLC. *)
EXTENDS RouteCache, TLC

Symmetry == Permutations(Requests) \cup Permutations(Inputs) \cup Permutations(Workers)
=============================================================================
