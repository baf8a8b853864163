---------------------------- MODULE MCRealtime ----------------------------
(* An instance of Realtime for TLC: the page and two other clients, one of them *)
(* at the page's address, which has one place.                                  *)
EXTENDS Realtime, TLC

CONSTANTS page, other, away, there, back, home, abroad

MCIpOf == (page :> home) @@ (other :> home) @@ (away :> abroad)
MCSwapped == (there :> back) @@ (back :> there)
MCRoundTrip == there :> there
=============================================================================
