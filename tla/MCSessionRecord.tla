--------------------------- MODULE MCSessionRecord ---------------------------
(* Instances of SessionRecord for TLC. *)
EXTENDS SessionRecord, TLC

CONSTANTS s1, d1, p1, p2, e1, e2, a1

\* The writers are interchangeable.
Symmetry == Permutations(Proc)
=============================================================================
