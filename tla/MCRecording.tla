---------------------------- MODULE MCRecording ----------------------------
EXTENDS Recording
\* Gestures as sequences of lines whose times are relative; a script joins
\* gestures and makes the times absolute.
L(key, wait, p) == [key |-> key, at |-> wait, p |-> p, text |-> "none", target |-> "none"]
Tap(target, wait) == <<L("down", wait, 0), L("move", 0, 5), [L("up", 1, 0) EXCEPT !.target = target]>>
LateTap == <<L("track", 5, 0), L("move", 0, 5), L("down", 0, 0), L("release", 1, 0), L("up", 0, 0)>>
Drag    == <<L("down", 5, 0), L("move", 0, 2), L("move", 1, 9), L("up", 0, 0)>>
Type(t, wait) == <<[L("text", wait, 0) EXCEPT !.text = t]>>
Absolute(lines) ==
    FoldLeft(LAMBDA acc, l : Append(acc, [l EXCEPT !.at = @ + IF acc = <<>> THEN 1 ELSE Last(acc).at]),
             <<>>, lines)
\* A double tap; text into a field, over a tab; a drag; a press that forgot
\* its position, and the back key; blanks, then text over a pause, ended by a
\* key; a key of another device whose line comes late, between what was typed
\* before and after it.  An end may come after any number of their lines.
LateKey  == Type("b", 2) \o <<L("home", 0, 0)>> \o Type("a", 1)
MCInputs == {[Absolute(LateKey) EXCEPT ![2].at = 2]} \cup {Absolute(script) : script \in {
    Tap("weak", 1) \o Tap("id", 1),
    Tap("input", 1) \o Type("a", 1) \o Type("tab", 1) \o Type("b", 1),
    Drag,
    LateTap \o <<L("back", 5, 0)>>,
    Type("space", 1) \o Type("a", 1) \o Type("b", 5) \o <<L("home", 5, 0)>>}}
Symmetry == Permutations(Calls)
=============================================================================
