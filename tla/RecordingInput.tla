--------------------------- MODULE RecordingInput ---------------------------
(***************************************************************************)
(* The raw input lines an Android capture process writes, and the events   *)
(* the parser makes of them (recording-runtime-android.ts).  A line keeps  *)
(* what the parser matches: its key, time, position, text, and the         *)
(* selector the nearest UI snapshot offers at that position; positions lie *)
(* on one axis.                                                            *)
(***************************************************************************)
EXTENDS Naturals, Sequences, SequencesExt

CONSTANTS SwipeDistance, StrongDistance, MinSamples, MaxSwipeTime

NoPoint == 0
Keys    == {"track", "down", "move", "release", "up", "back", "home", "switch", "text"}
Chars   == {"a", "b"}
Texts   == Chars \cup {"none", "space", "tab"}
Targets == {"none", "weak", "desc", "id", "input"}
Line    == {l \in [key: Keys, at: Nat, p: Nat, text: Texts, target: Targets] :
               l.key = "text" <=> l.text # "none"}

Touch(l) == [active |-> TRUE, start |-> NoPoint, cur |-> NoPoint, since |-> l.at, moves |-> 0]
NoTouch  == [active |-> FALSE, start |-> NoPoint, cur |-> NoPoint, since |-> 0, moves |-> 0]

Event(type, p, q, l) ==
    [type |-> type, at |-> l.at, p |-> p, q |-> q, text |-> l.text, line |-> l,
     target |-> IF type = "tap" /\ p # NoPoint THEN l.target ELSE "none"]

\* finalizeTouch: far enough and quick enough is a swipe, anything else a tap
\* where the finger left, without a position when none was seen.
Gesture(t, l) ==
    LET d     == IF t.start > t.cur THEN t.start - t.cur ELSE t.cur - t.start
        quick == l.at = 0 \/ l.at <= t.since \/ l.at - t.since <= MaxSwipeTime
        far   == (d >= SwipeDistance /\ t.moves >= MinSamples) \/ d >= StrongDistance
    IN IF t.start # NoPoint /\ far /\ quick
       THEN Event("swipe", t.start, t.cur, l) ELSE Event("tap", t.cur, NoPoint, l)

\* One line: [touch, events].  A press forgets the positions seen before it;
\* a tracking id starts a touch only when none is under way.
ReadLine(st, l) ==
    CASE l.key = "move" ->
           [st EXCEPT !.touch.cur = l.p,
                      !.touch.start = IF st.touch.active /\ @ = NoPoint THEN l.p ELSE @,
                      !.touch.moves = IF st.touch.active THEN @ + 1 ELSE @]
      [] l.key = "track" -> IF st.touch.active THEN st ELSE [st EXCEPT !.touch = Touch(l)]
      [] l.key = "down"  -> [st EXCEPT !.touch = Touch(l)]
      [] l.key \in {"release", "up"} ->
           IF ~st.touch.active THEN st
           ELSE [touch |-> [NoTouch EXCEPT !.cur = st.touch.cur],
                 events |-> Append(st.events, Gesture(st.touch, l))]
      [] l.key \in {"back", "home", "switch", "text"} ->
           [st EXCEPT !.events = Append(@, Event(l.key, NoPoint, NoPoint, l))]

\* Where the parser is after each of the lines.
ReadLines(lines) ==
    LET st[n \in 0 .. Len(lines)] ==
          IF n = 0 THEN [touch |-> NoTouch, events |-> <<>>] ELSE ReadLine(st[n - 1], lines[n])
    IN st
ParseRawInputEvents(lines) == ReadLines(lines)[Len(lines)].events
=============================================================================
