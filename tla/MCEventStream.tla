---------------------------- MODULE MCEventStream ----------------------------
(* Instances of EventStream for TLC; liveness, so no symmetry.              *)
EXTENDS EventStream, TLC

CONSTANTS c1, c2, c3, e1, e2

\* Two connections to every event, and one to the first alone.
MCFilters == (c1 :> {{e1, e2}}) @@ (c2 :> {{e1, e2}}) @@ (c3 :> {{e1}})
=============================================================================
