-------------------------------- MODULE Filters --------------------------------
(***************************************************************************)
(* Array.prototype.filter: the elements of a sequence at the positions     *)
(* that pass, in their order.  Given by the ranks of the positions, where  *)
(* SelectSeq recurs, so that it can be reasoned about.                     *)
(* Array.prototype.flat: the sequences of a sequence, one after the other. *)
(***************************************************************************)
EXTENDS Naturals, Sequences, FiniteSets

Rank(S, i) == Cardinality({j \in S : j <= i})

\* The numbers of S from the least to the greatest.
InOrder(S) == [k \in 1..Cardinality(S) |-> CHOOSE i \in S : Rank(S, i) = k]

\* The elements of s at the positions of S.
Picked(s, S) == [k \in 1..Cardinality(S) |-> s[InOrder(S)[k]]]

\* The sequences of s, one after the other.
Flat(s) ==
    LET upTo[n \in 0..Len(s)] == IF n = 0 THEN <<>> ELSE upTo[n - 1] \o s[n]
    IN upTo[Len(s)]
================================================================================
