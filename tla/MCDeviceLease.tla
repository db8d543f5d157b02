---------------------------- MODULE MCDeviceLease ----------------------------
(* Instances of DeviceLease for TLC. *)
EXTENDS DeviceLease, TLC

CONSTANTS s1, s2, d1, p1, p2

\* Sessions and processes are interchangeable: neither Init nor Next names one.
Symmetry == Permutations(Session) \cup Permutations(Proc)
=============================================================================
