-------------------------- MODULE RecordingMapper --------------------------
(***************************************************************************)
(* From recorded events to the steps of a flow, and from the steps to the  *)
(* commands of the exported flow, with the warnings of both                *)
(* (recording-mapper.ts).                                                  *)
(***************************************************************************)
EXTENDS RecordingInput, Filters, FiniteSetsExt

CONSTANTS DedupeWindow, TypeGap

Step(act, conf, target, p, q, text) ==
    [act |-> act, conf |-> conf, target |-> target, p |-> p, q |-> q, text |-> text]
AutoWait(target) == Step("wait", "medium", target, NoPoint, NoPoint, <<>>)

\* A mapped step, followed by a wait for its target when it acts on one.
Push(st, step) ==
    [st EXCEPT !.steps = @ \o
        IF step.act \in {"tap_element", "type"} /\ step.target # "none"
        THEN <<step, AutoWait(step.target)>> ELSE <<step>>]
\* Mutant: what is left out is not counted.
WarnNothing(st) == st
Warn(st) == [st EXCEPT !.warnings = @ + 1]

\* The same position within the window of the last tap that was kept.
Duplicate(st, e) ==
    /\ st.tap.p # NoPoint /\ e.p = st.tap.p
    /\ e.at <= st.tap.at + DedupeWindow

MapTap(st, e) ==
    LET seen == [st EXCEPT !.tap = [p |-> e.p, at |-> e.at]]
    IN IF e.p = NoPoint
       THEN Push(seen, Step("tap", "low", "none", NoPoint, NoPoint, <<>>))
       ELSE IF e.target \in {"desc", "id", "input"}
       THEN Push([seen EXCEPT !.input = IF e.target = "input" THEN "input" ELSE "none"],
                 Step("tap_element", IF e.target = "desc" THEN "medium" ELSE "high",
                      e.target, e.p, NoPoint, <<>>))
       ELSE Push([seen EXCEPT !.input = "none"],
                 Step("tap", "medium", "none", e.p, NoPoint, <<>>))

\* Consecutive text joins one step: up to another kind of event, a pause, or
\* a delimiter, which is consumed with it.
IsBlank(text) == text \in {"space", "tab"}
Pause(evs, j) == evs[j].at > evs[j - 1].at + TypeGap
Stops(evs, j) ==
    j > Len(evs) \/ evs[j].type # "text" \/ Pause(evs, j) \/ evs[j].text = "tab"
ChunkStop(evs, i) == Min({j \in i+1 .. Len(evs) + 1 : Stops(evs, j)})
\* Mutant: whatever stops a chunk is consumed with it.
NextAfterAnyStop(evs, stop) == stop + 1
NextAfter(evs, stop) ==
    IF stop <= Len(evs) /\ evs[stop].type = "text" /\ ~Pause(evs, stop) THEN stop + 1 ELSE stop

MapText(st, evs, i) ==
    LET text == [k \in 1 .. ChunkStop(evs, i) - i |-> evs[i + k - 1].text]
    IN Push(st, Step("type", IF st.input = "none" THEN "low" ELSE "high", st.input,
                     NoPoint, NoPoint, text))

MapSimple(st, e) ==
    LET reset == [st EXCEPT !.input = "none"]
    IN CASE e.type = "swipe" -> Push(reset, Step("swipe", "medium", "none", e.p, e.q, <<>>))
         [] e.type = "back"  -> Push(reset, Step("wait", "low", "none", NoPoint, NoPoint, <<>>))
         [] e.type \in {"home", "switch"} ->
              Push(reset, Step("launch", "medium", "none", NoPoint, NoPoint, <<>>))

\* The event at i, unless the text before it has taken it in.
MapAt(st, evs, i) ==
    LET e == evs[i]
    IN CASE i < st.next            -> st
         [] i >= st.next /\ e.type = "tap" -> IF Duplicate(st, e) THEN Warn(st) ELSE MapTap(st, e)
         [] i >= st.next /\ e.type = "text" ->
              IF IsBlank(e.text) THEN Warn(st)
              ELSE [MapText(st, evs, i) EXCEPT !.next = NextAfter(evs, ChunkStop(evs, i))]
         [] i >= st.next /\ e.type \notin {"tap", "text"} -> MapSimple(st, e)

\* Array.prototype.sort by timestamp, which is stable: each event goes behind
\* those that are no later.
Insert(s, e) ==
    LET k == Cardinality({i \in DOMAIN s : s[i].at <= e.at})
    IN SubSeq(s, 1, k) \o <<e>> \o SubSeq(s, k + 1, Len(s))
Sorted(evs) ==
    LET upTo[n \in 0 .. Len(evs)] == IF n = 0 THEN <<>> ELSE Insert(upTo[n - 1], evs[n])
    IN upTo[Len(evs)]

\* Where the mapper is after each of the events.
MapEvents(evs) ==
    LET st[n \in 0 .. Len(evs)] ==
          IF n = 0 THEN [steps |-> <<>>, warnings |-> 0, tap |-> [p |-> NoPoint, at |-> 0],
                         input |-> "none", next |-> 1]
          ELSE MapAt(st[n - 1], evs, n)
    IN st
MapRawEventsToRecordedSteps(events) == MapEvents(Sorted(events))[Len(events)]

\* What a step exports to; a step that exports to nothing is a warning.
Command(act, step) == [act |-> act, target |-> step.target, p |-> step.p, q |-> step.q,
                       text |-> step.text]
Commands(step) ==
    CASE step.act = "launch"      -> <<Command("launch", step)>>
      [] step.act = "tap_element" -> <<Command("tap", step)>>
      [] step.act = "tap"         -> IF step.p = NoPoint THEN <<>> ELSE <<Command("tap", step)>>
      [] step.act = "type" ->
           IF step.target = "none" THEN <<Command("text", step)>>
           ELSE <<Command("focus", [step EXCEPT !.text = <<>>]), Command("text", step)>>
      [] step.act = "swipe"       -> <<Command("swipe", step)>>
      [] step.act = "wait" -> IF step.target = "none" THEN <<>> ELSE <<Command("assert", step)>>

RenderRecordedStepsAsFlow(steps) ==
    [commands |-> Flat([k \in DOMAIN steps |-> Commands(steps[k])]),
     warnings |-> Cardinality({k \in DOMAIN steps : Commands(steps[k]) = <<>>})]
=============================================================================
