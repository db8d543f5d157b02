----------------------- MODULE MCSessionOrchestration -----------------------
(* Instances of SessionOrchestration for TLC. *)
EXTENDS SessionOrchestration

CONSTANTS s1, s2, d1, d2, p1, p2
=============================================================================
