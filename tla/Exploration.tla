------------------------------ MODULE Exploration ------------------------------
(***************************************************************************)
(* What an exploration promises about its report: the pages are reported   *)
(* in the order they are met and never taken back, a page is walked into   *)
(* only the first time anything is reported about it, and nothing is added *)
(* once the exploration is over.                                           *)
(***************************************************************************)
EXTENDS Sequences, SequencesExt

CONSTANT Pages

VARIABLES
    report,   \* the pages reported, in order
    walked,   \* the pages whose elements are explored
    over      \* the exploration has ended

vars == <<report, walked, over>>

Init == report = <<>> /\ walked = {} /\ over = FALSE

(* A page that is already in the report may be reported again (an alias),  *)
(* and a page may be reported without being walked into.                   *)
Note(p) == /\ ~over /\ report' = Append(report, p) /\ UNCHANGED <<walked, over>>

Walk(p) ==
    /\ ~over /\ p \notin ToSet(report)
    /\ report' = Append(report, p) /\ walked' = walked \cup {p}
    /\ UNCHANGED over

Finish == ~over /\ over' = TRUE /\ UNCHANGED <<report, walked>>

Next == Finish \/ \E p \in Pages : Note(p) \/ Walk(p)

Spec == Init /\ [][Next]_vars
===============================================================================
