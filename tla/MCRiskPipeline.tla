--------------------------- MODULE MCRiskPipeline ---------------------------
(* Instances of RiskPipeline for TLC. *)
EXTENDS RiskPipeline, TLC

CONSTANTS r1, s1, s2, j1, j2

\* one report near two segments
TwoSegments == (r1 :> {s1, s2})
\* one report near one segment
OneSegment == (r1 :> {s1})

Symmetry == Permutations(Jobs) \cup Permutations(Segments)
=============================================================================
