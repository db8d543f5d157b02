--------------------------- MODULE ExplorerBacktrack ---------------------------
(***************************************************************************)
(* Going back to the parent page (packages/explorer/src/backtrack*.ts) and *)
(* checking that a page is the expected one.                               *)
(*                                                                         *)
(* navigateBack climbs a ladder of strategies, some thirty to fifty inputs *)
(* (system back and chained backs, back, cancel and close labels, dialog   *)
(* controls, points of the navigation bar), until one is verified.  Every  *)
(* input reaches the device before it is judged, and the call or the wait  *)
(* after it may fail although the input took effect: so a rejected input   *)
(* may have moved the device all the same and the next one starts from     *)
(* wherever it left it.  With more inputs than there are pages, the order  *)
(* of the strategies, the cached one that is tried first and those that do *)
(* not apply make no difference to where the ladder can end.               *)
(***************************************************************************)
EXTENDS ExplorerScreen

(* verifyScreenChanged: the text decides.                                  *)
ScreenChanged(before, after) == before.page # after.page

(* verifyBackTransition: an explicit parent title must be reached; without *)
(* one, or on a page without a title, the screen must have changed.        *)
VerifyBack(before, after, parentTitle) ==
    IF parentTitle # NoTitle /\ Title(after.page) # NoTitle
    THEN Title(after.page) = parentTitle
    ELSE ScreenChanged(before, after)

(* Where rejected inputs may have left the device.                         *)
Wander(s) ==
    LET within[n \in 0 .. Cardinality(Pages)] ==
            IF n = 0 THEN {s} ELSE UNION {AfterInput(u) : u \in within[n - 1]}
    IN within[Cardinality(Pages)]

(* One more input, judged by tryNavigateBack, tryTapBackControl and the    *)
(* point band, or by tryNavBarCoordinateBack, which accepts any change.    *)
VerifiedFrom(u, parentTitle) ==
    {t \in AfterInput(u) : VerifyBack(u, t, parentTitle) \/ ScreenChanged(u, t)}

(* When every strategy failed outside the target app, Android relaunches   *)
(* it; the launch or its verification may fail.                            *)
Relaunched(u) ==
    IF App(u.page) = TargetApp THEN {[ok |-> FALSE, screen |-> u]}
    ELSE {[ok |-> FALSE, screen |-> t] : t \in {u} \cup {Top(p) : p \in LaunchPages}}
         \cup {[ok |-> TRUE, screen |-> Top(p)] :
                  p \in {q \in LaunchPages : App(q) = TargetApp}}

NavigateBack(platform, s, parentTitle) ==
    LET tried == Wander(s)
    IN {[ok |-> TRUE, screen |-> t] :
            t \in UNION {VerifiedFrom(u, parentTitle) : u \in tried}}
       \cup IF platform = "android" THEN UNION {Relaunched(u) : u \in tried}
            ELSE {[ok |-> FALSE, screen |-> u] : u \in tried}

(* isOnExpectedPage: the text, then the layout (with or without the title, *)
(* since the third tier drops it), then the title alone.                   *)
IsOnExpectedPage(s, id, title) ==
    \/ s.page = id
    \/ Layout(s.page) = Layout(id)
    \/ title # NoTitle /\ Title(s.page) = title
===============================================================================
