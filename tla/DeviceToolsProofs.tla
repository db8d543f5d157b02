--------------------------- MODULE DeviceToolsProofs ---------------------------
(***************************************************************************)
(* What a tool's answer is worth, for any screens, selectors, timeout and  *)
(* number of moves, and whatever command fails.  In five parts: a wait     *)
(* succeeds only on a screen that the device showed during the call; a     *)
(* success means that the commands exited with 0; it means that the        *)
(* artifact was written; that what was typed was read back; and a tap      *)
(* goes to where what was resolved still is.                               *)
(***************************************************************************)
EXTENDS DeviceTools, FiniteSetTheorems, WellFoundedInduction, TLAPS

Waiting == call.tool = "wait_for_ui"

\* The fields of the variables, which every step keeps.
FieldsKept ==
    /\ DOMAIN dev = {"shown", "file", "focus", "field", "app", "remote", "drifts"}
    /\ DOMAIN obs = {"shown", "took", "stale", "cut", "moved", "hits", "sent", "shot", "saved"}
    /\ {"stage", "wrote", "dumped", "fails", "todo", "target"} \subseteq DOMAIN run
    /\ {"status", "shown"} \subseteq DOMAIN cap

\* A wait goes round from capture to capture, and takes no part in the tools
\* that look before or after something else.
WaitRound ==
    /\ pc \in {"begin", "look", "read", "looked", "pause", "done"}
    /\ run.stage = "only"

\* What a capture shows of a screen: all of it, or less when it was cut.
Shows(shown, s, cut) ==
    shown = s \/ (cut /\ (shown = NoDump \/ shown \in Cuts[s]))

\* What the device shows, the dump of this capture and the capture are screens
\* that the device showed during the call, unless a dump was left behind.
WaitSees ==
    /\ obs.shown \subseteq Screens /\ dev.shown \in obs.shown
    /\ pc = "read" /\ run.wrote => dev.file \in obs.shown
    /\ pc = "looked" /\ cap.status = "ok" /\ ~obs.stale =>
          \E s \in obs.shown : Shows(cap.shown, s, obs.cut)

WaitInv == Waiting => call \in Calls /\ FieldsKept /\ WaitRound /\ WaitSees /\ WaitMatchHeld

-----------------------------------------------------------------------------
\* A wait begins with what it may rely on.
LEMMA InitWaits == Init => WaitInv
BY DEF Init, WaitInv, Waiting, FieldsKept, WaitRound, WaitSees, WaitMatchHeld, Answered, NoAnswer

\* The guard refuses, and never with a success.
LEMMA GuardRefuses ==
    ASSUME NEW c, c.tool = "wait_for_ui", Guard(c) # NoAnswer
    PROVE  Guard(c).status # "success"
<1>1. Guard(c) = WaitGuard(c)
  BY DEF Guard, Scrolling, DebuggerTools, Captures
<1>2. WaitGuard(c) \in {Misconfigured, Refuse("threw", "adapter_error"),
                        Unsupported("partial"), NoAnswer}
  BY DEF WaitGuard
<1> QED BY <1>1, <1>2 DEF Misconfigured, Refuse, Unsupported

\* Whether a screen bears out a wait is a matter of its call and of the capture.
LEMMA SeenStays ==
    ASSUME UNCHANGED <<call, obs>>
    PROVE  \A s : Seen(s)' <=> Seen(s)
BY DEF Seen, WaitConditionMet

\* The number of matches is that of the nodes that match, which are finitely many.
LEMMA CountsMatches ==
    ASSUME NEW s \in Contents, NEW q \in Queries
    PROVE  /\ Answers[s][q].total \in Nat
           /\ Answers[s][q].total > 0 <=> Matches(ContentOf(s).nodes) # {}
<1> DEFINE nodes == ContentOf(s).nodes
<1>1. Answers[s][q] = QueryResult(nodes, q)
  BY DEF Answers
<1>2. Answers[s][q].total = Cardinality(Matches(nodes))
  BY <1>1 DEF QueryResult
<1>3. Len(nodes) \in Nat /\ DOMAIN nodes = 1..Len(nodes)
  <2>1. CASE s = NoDump
    BY <2>1 DEF ContentOf
  <2>2. CASE s # NoDump
    BY <2>2, ContentAssumption DEF ContentOf, Contents
  <2> QED BY <2>1, <2>2
<1> HIDE DEF nodes
<1>4. IsFiniteSet(Matches(nodes))
  <2>1. Matches(nodes) \subseteq 1..Len(nodes)
    BY <1>3 DEF Matches
  <2>2. IsFiniteSet(1..Len(nodes))
    BY <1>3, FS_Interval
  <2> QED BY <2>1, <2>2, FS_Subset
<1>5. Cardinality(Matches(nodes)) \in Nat
      /\ (Cardinality(Matches(nodes)) = 0 <=> Matches(nodes) = {})
  BY <1>4, FS_CardinalityType, FS_EmptySet
<1> QED BY <1>2, <1>5 DEF nodes

\* A match in what a capture shows of a screen is a match on the screen.
LEMMA ShownMatches ==
    ASSUME NEW s \in Screens, NEW q \in Queries, NEW shown, NEW cut, Shows(shown, s, cut),
           Answers[shown][q].total > 0
    PROVE  Answers[s][q].total > 0
<1>1. CASE shown = s
  BY <1>1
<1>2. CASE shown = NoDump
  <2>1. ContentOf(NoDump).nodes = <<>> /\ NoDump \in Contents
    BY DEF ContentOf, Contents
  <2>2. Matches(<<>>) = {}
    BY DEF Matches
  <2> QED BY <1>2, <2>1, <2>2, CountsMatches
<1>3. CASE shown # NoDump /\ shown \in Cuts[s]
  <2>1. /\ shown \in Contents /\ s \in Contents
        /\ ContentOf(shown) = Content[shown] /\ ContentOf(s) = Content[s]
    BY <1>3, DeviceAssumption DEF Contents, ContentOf
  <2>2. PICK i \in DOMAIN Content[shown].nodes : Matching(Content[shown].nodes[i])
    <3>1. Matches(Content[shown].nodes) # {}
      BY <2>1, CountsMatches
    <3> QED BY <3>1 DEF Matches
  <2>3. i \in DOMAIN Content[s].nodes /\ Matching(Content[s].nodes[i])
    BY <1>3, <2>2, CutAssumption DEF SameNode, Matching
  <2>4. Matches(ContentOf(s).nodes) # {}
    BY <2>1, <2>3 DEF Matches
  <2> QED BY <2>1, <2>4, CountsMatches
<1> QED BY <1>1, <1>2, <1>3 DEF Shows

\* A capture that meets the condition bears it out for the screen it shows.
LEMMA MetIsSeen ==
    ASSUME NEW s \in Screens, call \in Calls, NEW shown, Shows(shown, s, obs.cut),
           WaitConditionMet(Answers[shown][call.query], call.until)
    PROVE  Seen(s)
<1>1. CASE shown = s
  BY <1>1 DEF Seen
<1>2. CASE shown # s /\ call.until = "gone"
  BY <1>2 DEF Seen, Shows
<1>3. CASE shown # s /\ call.until # "gone"
  <2>1. obs.cut /\ call.query \in Queries
    BY <1>3 DEF Shows, Queries
  <2>2. Answers[shown][call.query].total > 0
    BY <1>3 DEF WaitConditionMet
  <2> QED BY <2>1, <2>2, ShownMatches DEF Seen
<1> QED BY <1>1, <1>2, <1>3

\* A wait starts with a look.
LEMMA FirstLook == ASSUME NEW c, c.tool = "wait_for_ui" PROVE FirstStep(c) = "look"
BY DEF FirstStep, DebuggerTools, Captures, CommandTools

\* A call either ends in its guard or looks.
LEMMA BeginWaits == ASSUME WaitInv, Waiting, Begin PROVE WaitInv'
<1>1. call' = call /\ dev' = dev /\ cap' = cap /\ obs' = obs
  BY DEF Begin
<1>2. CASE Guard(call) # NoAnswer
  <2>1. pc' = "done" /\ run' = run /\ out'.status # "success"
    BY <1>2, GuardRefuses DEF Begin, Waiting
  <2> QED BY <1>1, <2>1 DEF WaitInv, Waiting, FieldsKept, WaitRound, WaitSees, WaitMatchHeld, Answered
<1>3. CASE Guard(call) = NoAnswer
  <2>1. pc' = "look"
    BY <1>3, FirstLook DEF Begin, Waiting
  <2>2. DOMAIN run' = DOMAIN run /\ run'.stage = "only" /\ run'.wrote = run.wrote
    BY <1>3 DEF Begin, Waiting, WaitInv, FieldsKept, WaitRound
  <2> QED BY <1>1, <2>1, <2>2 DEF WaitInv, Waiting, FieldsKept, WaitRound, WaitSees, WaitMatchHeld, Answered
<1> QED BY <1>2, <1>3

\* A screen that comes by itself is one that the device has shown.
LEMMA DriftWaits == ASSUME WaitInv, Waiting, Drift PROVE WaitInv'
<1>1. PICK s \in Screens \ {dev.shown} :
        /\ dev' = [Showing(dev, s) EXCEPT !.drifts = @ + 1]
        /\ obs' = Saw(obs, s)
  BY DEF Drift
<1>2. DOMAIN dev' = DOMAIN dev /\ dev'.shown = s /\ dev'.file = dev.file
  BY <1>1 DEF Showing, WaitInv, FieldsKept
<1>3. /\ DOMAIN obs' = DOMAIN obs /\ obs'.shown = obs.shown \cup {s} /\ obs'.stale = obs.stale
      /\ obs'.cut = obs.cut
  BY <1>1 DEF Saw, WaitInv, Waiting, FieldsKept
<1>4. UNCHANGED <<call, pc, cap, run, out>> /\ pc # "done"
  BY DEF Drift
<1> QED
  BY <1>2, <1>3, <1>4 DEF WaitInv, Waiting, FieldsKept, WaitRound, WaitSees, WaitMatchHeld, Answered

\* A dump that is written holds the screen of that moment.
LEMMA DumpWaits == ASSUME WaitInv, Waiting, DumpUi PROVE WaitInv'
<1>1. PICK dumped, wrote \in BOOLEAN :
        /\ run' = [run EXCEPT !.dumped = dumped, !.wrote = wrote]
        /\ dev' = [dev EXCEPT !.file = IF wrote THEN dev.shown ELSE @]
        /\ obs' = [obs EXCEPT !.moved = ~wrote /\ @]
  BY DEF DumpUi
<1>2. DOMAIN run' = DOMAIN run /\ run'.stage = run.stage /\ run'.wrote = wrote
  BY <1>1 DEF WaitInv, FieldsKept
<1>3. DOMAIN dev' = DOMAIN dev /\ dev'.shown = dev.shown /\ (wrote => dev'.file = dev.shown)
  BY <1>1 DEF WaitInv, FieldsKept
<1>4. DOMAIN obs' = DOMAIN obs /\ obs'.shown = obs.shown /\ obs'.stale = obs.stale
  BY <1>1 DEF WaitInv, FieldsKept
<1>5. pc' = "read" /\ UNCHANGED <<call, cap>>
  BY DEF DumpUi
<1> QED
  BY <1>2, <1>3, <1>4, <1>5 DEF WaitInv, Waiting, FieldsKept, WaitRound, WaitSees, WaitMatchHeld, Answered

\* What is read is the dump just written or what is left of it, or the run is
\* marked stale.
LEMMA ReadWaits == ASSUME WaitInv, Waiting, ReadUi PROVE WaitInv'
<1>1. PICK readable, xml \in BOOLEAN, read \in Readings :
         LET status == ReadOutcome(readable, xml)
             shown  == IF status = "ok" /\ readable THEN read ELSE NoDump
         IN  /\ ~readable => ~xml /\ read = NoDump
             /\ Captured(status, shown)
             /\ obs' = [obs EXCEPT !.took = Recent(@, [status |-> status, shown |-> shown]),
                                   !.cut = readable /\ (shown = NoDump \/ shown # dev.file),
                                   !.stale = @ \/ (shown # NoDump /\ ~run.wrote)]
  BY DEF ReadUi
<1> DEFINE status == ReadOutcome(readable, xml)
           shown  == IF status = "ok" /\ readable THEN read ELSE NoDump
<1>2. cap' = [status |-> status, shown |-> shown] /\ pc' = "looked"
  BY <1>1 DEF Captured
<1>3. /\ DOMAIN obs' = DOMAIN obs /\ obs'.shown = obs.shown
      /\ obs'.stale = (obs.stale \/ (shown # NoDump /\ ~run.wrote))
      /\ obs'.cut = (readable /\ (shown = NoDump \/ shown # dev.file))
  BY <1>1 DEF WaitInv, FieldsKept
<1>4. pc = "read" /\ UNCHANGED <<call, dev, run>>
  BY DEF ReadUi
<1>5. status = "ok" => readable
  BY DEF ReadOutcome
<1>6. ASSUME cap'.status = "ok", ~obs'.stale
      PROVE  \E s \in obs'.shown : Shows(cap'.shown, s, obs'.cut)
  <2>1. readable /\ cap'.shown = shown
    BY <1>2, <1>5, <1>6
  <2>2. CASE shown = NoDump
    <3>1. obs'.cut /\ dev.shown \in obs'.shown
      BY <1>3, <2>1, <2>2 DEF WaitInv, WaitSees
    <3> QED BY <2>1, <2>2, <3>1 DEF Shows
  <2>3. CASE shown # NoDump
    <3>1. run.wrote /\ shown = read
      BY <1>3, <1>6, <2>3
    <3>2. dev.file \in obs'.shown
      BY <1>3, <1>4, <3>1 DEF WaitInv, WaitSees
    <3>3. shown = dev.file \/ shown \in Cuts[dev.file]
      BY <2>3, <3>1 DEF Readings
    <3>4. Shows(shown, dev.file, obs'.cut)
      BY <1>3, <2>1, <2>3, <3>3 DEF Shows
    <3> QED BY <2>1, <3>2, <3>4
  <2> QED BY <2>2, <2>3
<1> HIDE DEF status, shown
<1>7. (pc = "looked" /\ cap.status = "ok" /\ ~obs.stale =>
          \E s \in obs.shown : Shows(cap.shown, s, obs.cut))'
  BY <1>6 DEF Shows
<1>8. DOMAIN cap' = {"status", "shown"}
  BY <1>2
<1> QED
  BY <1>2, <1>3, <1>4, <1>7, <1>8 DEF WaitInv, Waiting, FieldsKept, WaitRound, WaitSees, WaitMatchHeld, Answered

\* An iOS capture shows the screen of its own moment, or nothing.
LEMMA CaptureIosWaits == ASSUME WaitInv, Waiting, CaptureIos PROVE WaitInv'
<1>1. PICK status \in {"ok", "failed"}, shown \in {dev.shown, NoDump} :
         /\ status # "ok" => shown = NoDump
         /\ Captured(status, shown)
         /\ obs' = [obs EXCEPT !.took = Recent(@, [status |-> status, shown |-> shown]),
                               !.cut = status = "ok" /\ shown = NoDump,
                               !.moved = status # "ok" /\ @]
  BY DEF CaptureIos
<1>2. cap' = [status |-> status, shown |-> shown] /\ pc' = "looked"
  BY <1>1 DEF Captured
<1>3. /\ DOMAIN obs' = DOMAIN obs /\ obs'.shown = obs.shown /\ obs'.stale = obs.stale
      /\ obs'.cut = (status = "ok" /\ shown = NoDump)
  BY <1>1 DEF WaitInv, FieldsKept
<1>4. UNCHANGED <<call, dev, run>>
  BY DEF CaptureIos
<1>5. cap'.status = "ok" => Shows(cap'.shown, dev.shown, obs'.cut)
  BY <1>2, <1>3 DEF Shows
<1>6. (pc = "looked" /\ cap.status = "ok" /\ ~obs.stale =>
          \E s \in obs.shown : Shows(cap.shown, s, obs.cut))'
  BY <1>3, <1>5 DEF WaitInv, WaitSees, Shows
<1>7. DOMAIN cap' = {"status", "shown"}
  BY <1>2
<1> QED
  BY <1>2, <1>3, <1>4, <1>6, <1>7 DEF WaitInv, Waiting, FieldsKept, WaitRound, WaitSees, WaitMatchHeld, Answered

\* The one place where a wait succeeds: on the capture just made.
LEMMA PolledWaits == ASSUME WaitInv, Waiting, PolledWait PROVE WaitInv'
<1>1. UNCHANGED <<call, dev, cap, obs>> /\ pc = "looked"
  BY DEF PolledWait
<1>2. DOMAIN run' = DOMAIN run /\ run'.stage = run.stage
  BY DEF PolledWait, WaitInv, FieldsKept
<1>3. pc' \in {"pause", "done"}
  BY DEF PolledWait, Finish
<1>4. pc' = "done" /\ out'.status = "success" =>
        cap.status = "ok" /\ WaitConditionMet(Answer, call.until)
  BY DEF PolledWait, Finish
<1>5. WaitMatchHeld'
  <2>1. CASE pc' = "done" /\ out'.status = "success" /\ ~obs'.stale
    <3>1. PICK s \in obs.shown : Shows(cap.shown, s, obs.cut)
      BY <1>1, <1>4, <2>1 DEF WaitInv, WaitSees
    <3>2. s \in Screens /\ call \in Calls
      BY DEF WaitInv, WaitSees
    <3>3. WaitConditionMet(Answers[cap.shown][call.query], call.until)
      BY <1>4, <2>1 DEF Answer
    <3>4. Seen(s)
      BY <3>1, <3>2, <3>3, MetIsSeen
    <3>5. s \in obs'.shown /\ Seen(s)'
      BY <1>1, <3>4, SeenStays
    <3> QED BY <3>5 DEF WaitMatchHeld
  <2> QED BY <2>1 DEF WaitMatchHeld, Answered
<1> QED
  BY <1>1, <1>2, <1>3, <1>5 DEF WaitInv, Waiting, FieldsKept, WaitRound, WaitSees

\* A pause that ends a wait ends it without a success.
LEMMA PauseWaits == ASSUME WaitInv, Waiting, PauseWait PROVE WaitInv'
<1>1. UNCHANGED <<call, dev, cap, run, obs>> /\ pc' \in {"look", "done"}
  BY DEF PauseWait, Finish, Look
<1>2. pc' = "done" => out'.status # "success"
  BY DEF PauseWait, Finish, Look
<1> QED
  BY <1>1, <1>2 DEF WaitInv, Waiting, FieldsKept, WaitRound, WaitSees, WaitMatchHeld, Answered

-----------------------------------------------------------------------------
\* No other step is one of a wait.
LEMMA OtherTools == ASSUME WaitInv, Waiting, Step
                    PROVE  Begin \/ Capture \/ PolledWait \/ PauseWait
<1>1. WaitRound
  BY DEF WaitInv
<1>2. ~UiToolStep \/ PolledWait \/ PauseWait
  BY <1>1 DEF Waiting, WaitRound, UiToolStep, PolledStable, PauseStable, InspectedIos,
     InspectedAndroid, LookedQuery, LookedTarget, Resolving, LookedScroll, Scrolling, Swipe,
     VerifyPoint, Tap, Type, VerifyTyped, ReadTyped
<1>3. ~(LookedViewport \/ ScrollSwipe \/ LookedBefore \/ ProbeEdge \/ LookedEdge \/ Back
        \/ LookAfter \/ LookedAfter \/ Compare \/ Screenshot \/ LookedCrop \/ Command)
  BY <1>1 DEF Waiting, WaitRound, LookedViewport, ScrollSwipe, LookedBefore, ProbeEdge,
     LookedEdge, Back, LookAfter, LookedAfter, Compare, Screenshot, LookedCrop, Command
<1>4. ~DebugStep
  BY <1>1 DEF WaitRound, DebugStep, ListTargets, NextPart, ListenEnds, Report
<1> QED BY <1>2, <1>3, <1>4 DEF Step

\* The invariant is inductive.
LEMMA StepWaits == WaitInv /\ [Next]_vars => WaitInv'
<1> SUFFICES ASSUME WaitInv, [Next]_vars PROVE WaitInv'
  OBVIOUS
<1>1. CASE UNCHANGED vars
  <2>1. Waiting' = Waiting /\ FieldsKept' = FieldsKept /\ WaitRound' = WaitRound
        /\ WaitSees' = WaitSees
    BY <1>1 DEF vars, Waiting, FieldsKept, WaitRound, WaitSees
  <2>2. WaitMatchHeld => WaitMatchHeld'
    <3>1. \A s : Seen(s) => Seen(s)'
      BY <1>1, SeenStays DEF vars
    <3>2. obs' = obs /\ call' = call /\ pc' = pc /\ out' = out
      BY <1>1 DEF vars
    <3> QED BY <3>1, <3>2 DEF WaitMatchHeld, Answered
  <2>3. call' = call
    BY <1>1 DEF vars
  <2> QED BY <2>1, <2>2, <2>3 DEF WaitInv
<1>2. CASE Next /\ ~Waiting
  <2>1. call' = call
    BY <1>2 DEF Next, Drift, Hear, HearLog, HearRequest, Step, Begin, Capture, DumpUi, ReadUi,
       CaptureIos, UiToolStep, PolledWait, PauseWait, PolledStable, PauseStable, InspectedIos,
       InspectedAndroid, LookedQuery, LookedTarget, LookedScroll, Swipe, VerifyPoint, Tap, Type,
       VerifyTyped, ReadTyped, LookedViewport, ScrollSwipe, LookedBefore, ProbeEdge, LookedEdge,
       Back, LookAfter, LookedAfter, Compare, Screenshot, LookedCrop, Command, DebugStep,
       ListTargets, NextPart, ListenEnds, Report
  <2> QED BY <1>2, <2>1 DEF WaitInv, Waiting
<1>3. CASE Next /\ Waiting
  <2>1. CASE Drift
    BY <1>3, <2>1, DriftWaits
  <2>2. CASE Hear
    BY <1>3, <2>2 DEF Hear, HearLog, HearRequest, WaitInv, WaitRound
  <2>3. CASE Step
    BY <1>3, <2>3, OtherTools, BeginWaits, DumpWaits, ReadWaits, CaptureIosWaits, PolledWaits,
       PauseWaits DEF Capture
  <2> QED BY <1>3, <2>1, <2>2, <2>3 DEF Next
<1> QED BY <1>1, <1>2, <1>3

\* A wait that succeeds has seen its condition hold of a screen that the device
\* showed during the call, or judged it by a capture that was cut short.
THEOREM WaitSucceedsOnSight == Spec => []WaitMatchHeld
<1>1. WaitInv => WaitMatchHeld
  BY DEF WaitInv, Waiting, WaitMatchHeld, Answered
<1> QED BY InitWaits, StepWaits, <1>1, PTL DEF Spec
-----------------------------------------------------------------------------
(***************************************************************************)
(* The fields of the variables, and where each tool can be.                *)
(***************************************************************************)
BackTools == {"navigate_back", "back_selector"}
Evidence == call.tool = "collect_debug_evidence"
Typing == {"type", "type_again", "verify_typed", "read_typed"}
Debugs == {"command", "list", "part", "listen", "report"}

\* The fields of the variables.
Fields ==
    /\ DOMAIN dev = {"shown", "file", "focus", "field", "app", "remote", "drifts"}
    /\ DOMAIN obs = {"shown", "took", "stale", "cut", "moved", "hits", "sent", "shot", "saved"}
    /\ DOMAIN run = {"fails", "dumped", "wrote", "polling", "stable", "hash", "before", "after",
                     "stage", "swipes", "final", "target", "kind", "focus", "todo", "verdict",
                     "got", "socket", "heard"}

\* Which tool can be where.
Placed ==
    /\ call.tool \in CommandTools => pc \in {"begin", "command", "done"}
    /\ Evidence => pc \in Debugs \cup {"begin", "done"}
    /\ call.tool \in Captures => pc \in {"begin", "listen", "done"}
    /\ call.tool = "list_js_debug_targets" => pc \in {"begin", "list", "done"}
    /\ call.tool = "type_text" => pc \in {"begin", "type", "type_again", "done"}
    /\ call.tool = "type_into_element" =>
          /\ pc \in Typing \cup {"begin", "look", "read", "looked", "verify", "tap", "tap_again",
                                 "done"}
          /\ run.stage = "only"
    /\ call.tool \notin CommandTools \cup DebuggerTools => pc \notin Debugs
    /\ call.tool \notin {"type_text", "type_into_element"} => pc \notin Typing
Shape == Fields /\ Placed

\* A call begins in its place.
LEMMA InitShape == Init => Shape
BY DEF Init, Shape, Fields, Placed, Debugs, Typing, Evidence

\* Looking changes what was seen, not what is done.
LEMMA CaptureShape == ASSUME Shape, Capture PROVE Shape'
<1>1. CASE DumpUi
  <2>1. Fields' /\ run'.stage = run.stage
    BY <1>1 DEF DumpUi, Shape, Fields
  <2>2. call' = call /\ pc' = "read" /\ pc = "look"
    BY <1>1 DEF DumpUi
  <2> QED BY <2>1, <2>2 DEF Shape, Placed, Debugs, Typing, Evidence
<1>2. CASE ReadUi
  <2>1. Fields' /\ run' = run
    BY <1>2 DEF ReadUi, Shape, Fields
  <2>2. call' = call /\ pc' = "looked" /\ pc = "read"
    BY <1>2 DEF ReadUi, Captured
  <2> QED BY <2>1, <2>2 DEF Shape, Placed, Debugs, Typing, Evidence
<1>3. CASE CaptureIos
  <2>1. Fields' /\ run' = run
    BY <1>3 DEF CaptureIos, Shape, Fields
  <2>2. call' = call /\ pc' = "looked" /\ pc = "look"
    BY <1>3 DEF CaptureIos, Captured
  <2> QED BY <2>1, <2>2 DEF Shape, Placed, Debugs, Typing, Evidence
<1> QED BY <1>1, <1>2, <1>3 DEF Capture

\* Begin puts the call in its place.
LEMMA BeginShape == ASSUME Shape, Begin PROVE Shape'
<1>1. Fields' /\ call' = call
  BY DEF Begin, Shape, Fields
<1>2. pc' \in {"done", FirstStep(call)}
  BY DEF Begin
<1>3. call.tool = "type_into_element" => run'.stage = "only"
  BY DEF Begin, Shape, Placed, Fields
<1>4. Placed'
  BY <1>1, <1>2, <1>3 DEF FirstStep, FirstDebugStep, Placed, Debugs, Typing, Evidence, CommandTools,
     DebuggerTools, Captures
<1> QED BY <1>1, <1>4 DEF Shape

\* The tools that look stay in their places.
LEMMA UiToolShape == ASSUME Shape, UiToolStep PROVE Shape'
<1>1. Fields' /\ call' = call
  <2>1. CASE Swipe
    BY <2>1 DEF Swipe, Shape, Fields, Showing, Saw
  <2>4. CASE Tap
    <3>1. PICK result \in Attempt(pc), lands \in BOOLEAN, s \in Screens :
            /\ IF lands THEN Deliver(s) ELSE UNCHANGED dev
            /\ obs' = [Saw(obs, s) EXCEPT !.hits = IF lands THEN Append(@, Hit) ELSE @,
                                          !.sent = Sent("tap", result = "ok")]
            /\ IF result = "failed" /\ FallsBack(pc)
               THEN pc' = "tap_again" /\ UNCHANGED <<run, out>>
               ELSE Tapped(result)
      BY <2>4 DEF Tap
    <3>2. DOMAIN Showing(dev, s) = DOMAIN dev /\ DOMAIN Saw(obs, s) = DOMAIN obs
      BY DEF Showing, Saw
    <3>3. DOMAIN dev' = DOMAIN dev
      BY <3>1, <3>2 DEF Deliver
    <3>4. DOMAIN obs' = DOMAIN obs
      BY <3>1, <3>2
    <3>5. DOMAIN run' = DOMAIN run
      BY <3>1 DEF Tapped
    <3> QED BY <2>4, <3>3, <3>4, <3>5 DEF Tap, Shape, Fields
  <2>5. CASE Type
    BY <2>5 DEF Type, Shape, Fields
  <2>2. CASE PolledWait \/ PauseWait \/ PolledStable \/ PauseStable \/ InspectedIos
             \/ InspectedAndroid \/ LookedQuery \/ LookedTarget \/ LookedScroll
    BY <2>2 DEF PolledWait, PauseWait, PolledStable, PauseStable, InspectedIos, InspectedAndroid,
       LookedQuery, LookedTarget, LookedScroll, Aim, Shape, Fields
  <2>3. CASE VerifyPoint \/ VerifyTyped \/ ReadTyped
    BY <2>3 DEF VerifyPoint, VerifyTyped, ReadTyped, Shape, Fields
  <2> QED BY <2>1, <2>2, <2>3, <2>4, <2>5 DEF UiToolStep
<1>2. call.tool = "type_into_element" => run'.stage = run.stage
  <2>1. CASE Swipe \/ Tap \/ Type
    BY <2>1 DEF Swipe, Tap, Type, Tapped, Shape, Placed, Fields
  <2>2. CASE PolledWait \/ PauseWait \/ PolledStable \/ PauseStable \/ InspectedIos
             \/ InspectedAndroid \/ LookedQuery \/ LookedTarget \/ LookedScroll
    BY <2>2 DEF PolledWait, PauseWait, PolledStable, PauseStable, InspectedIos, InspectedAndroid,
       LookedQuery, LookedTarget, LookedScroll, Aim, Shape, Fields
  <2>3. CASE VerifyPoint \/ VerifyTyped \/ ReadTyped
    BY <2>3 DEF VerifyPoint, VerifyTyped, ReadTyped
  <2> QED BY <2>1, <2>2, <2>3 DEF UiToolStep
<1>3. pc \in {"looked", "pause", "swipe", "verify", "tap", "tap_again"} \cup Typing
  BY DEF UiToolStep, PolledWait, PauseWait, PolledStable, PauseStable, InspectedIos, InspectedAndroid,
     LookedQuery, LookedTarget, LookedScroll, Swipe, VerifyPoint, Tap, Type, VerifyTyped, ReadTyped,
     Typing
<1>4. /\ pc' \in Typing => pc \in Typing \/ call.tool = "type_into_element"
      /\ pc' \notin Debugs
      /\ call.tool = "type_text" => pc' \in {"type_again", "done"}
      /\ call.tool = "type_into_element" =>
            pc' \in Typing \cup {"look", "verify", "tap", "tap_again", "done"}
  <2>1. CASE Swipe \/ Tap \/ Type
    BY <2>1 DEF Swipe, Tap, Type, Tapped, Typed, TypedFinish, Finish, Look, Shape, Placed, Typing,
       Debugs, Scrolling
  <2>2. CASE PolledWait \/ PauseWait \/ PolledStable \/ PauseStable
    BY <2>2 DEF PolledWait, PauseWait, PolledStable, PauseStable, StableEnds, Finish, Look, Shape,
       Placed, Typing, Debugs
  <2>3. CASE InspectedIos \/ InspectedAndroid \/ LookedQuery \/ LookedTarget \/ LookedScroll
    BY <2>3 DEF InspectedIos, InspectedAndroid, LookedQuery, LookedTarget, LookedScroll, NextAfterAim,
       Finish, Look, Shape, Placed, Typing, Debugs, Scrolling, Resolving
  <2>4. CASE VerifyPoint \/ VerifyTyped \/ ReadTyped
    BY <2>4 DEF VerifyPoint, VerifyTyped, ReadTyped, TypedFinish, Finish, Shape, Placed, Typing, Debugs
  <2> QED BY <2>1, <2>2, <2>3, <2>4 DEF UiToolStep
<1> HIDE DEF UiToolStep
<1>5. Placed'
  BY <1>1, <1>2, <1>3, <1>4 DEF Shape, Placed, Debugs, Typing, Evidence
<1> QED BY <1>1, <1>5 DEF Shape

\* So do scrolling, going back, and cropping.
LEMMA BackShape ==
    ASSUME Shape, \/ LookedViewport \/ ScrollSwipe \/ LookedBefore \/ ProbeEdge \/ LookedEdge \/ Back
                  \/ LookAfter \/ LookedAfter \/ Compare \/ Screenshot \/ LookedCrop
    PROVE  Shape'
<1>1. Fields' /\ call' = call
  BY DEF LookedViewport, ScrollSwipe, LookedBefore, ProbeEdge, LookedEdge, Back, LookAfter,
     LookedAfter, Compare, Screenshot, LookedCrop, Shape, Fields, Showing, Saw
<1>2. call.tool \notin CommandTools \cup DebuggerTools \cup {"type_text", "type_into_element"}
  BY DEF LookedViewport, ScrollSwipe, LookedBefore, ProbeEdge, LookedEdge, Back, LookAfter,
     LookedAfter, Compare, Screenshot, LookedCrop, Shape, Placed, Debugs, Typing, Evidence, CommandTools,
     DebuggerTools, Captures
<1>3. pc' \notin Debugs \cup Typing
  BY DEF LookedViewport, ScrollSwipe, LookedBefore, ProbeEdge, LookedEdge, Back, LookAfter,
     LookedAfter, Compare, Screenshot, LookedCrop, Finish, Look, Debugs, Typing
<1>4. Placed'
  BY <1>1, <1>2, <1>3 DEF Placed, Evidence, CommandTools, DebuggerTools, Captures
<1> QED BY <1>1, <1>4 DEF Shape

\* So do the plans and the debugger's tools.
LEMMA CommandShape == ASSUME Shape, Command \/ DebugStep \/ Hear PROVE Shape'
<1>1. Fields' /\ call' = call /\ run'.stage = run.stage
  <2>1. CASE Command
    <3> DEFINE step == Head(run.todo)
    <3>1. PICK ok \in BOOLEAN, s \in Screens, remote \in BOOLEAN :
            /\ s # dev.shown => step.cmd \in Disturbing
            /\ remote \in RemoteAfter(step.cmd, ok)
            /\ dev' = [Showing(dev, s) EXCEPT !.app = AppAfter(step.cmd, ok), !.remote = remote]
            /\ obs' = [Saw(obs, s) EXCEPT
                 !.sent = IF step.fail = "ignore" THEN @ ELSE Sent(step.cmd, ok),
                 !.saved = @ \/ Saved(step, ok)]
            /\ \E next \in After(step, ok) :
                 /\ run' = [run EXCEPT !.todo = next.todo, !.verdict = next.verdict,
                      !.got = IF next.todo = <<>> THEN Append(@, next.verdict) ELSE @]
                 /\ CASE next.todo # <<>> -> UNCHANGED <<pc, out>>
                      [] next.todo = <<>> /\ call.tool = "collect_debug_evidence" ->
                           pc' = "part" /\ UNCHANGED out
                      [] OTHER -> Finish(next.verdict, IF next.verdict = "success" THEN "ok"
                                                       ELSE "adapter_error")
      BY <2>1 DEF Command
    <3> HIDE DEF step
    <3>2. DOMAIN Showing(dev, s) = DOMAIN dev /\ DOMAIN Saw(obs, s) = DOMAIN obs
      BY DEF Showing, Saw
    <3>3. DOMAIN dev' = DOMAIN dev /\ DOMAIN obs' = DOMAIN obs
      BY <3>1, <3>2
    <3>4. DOMAIN run' = DOMAIN run /\ run'.stage = run.stage
      BY <3>1 DEF Shape, Fields
    <3> QED BY <2>1, <3>3, <3>4 DEF Shape, Fields, Command
  <2>2. CASE DebugStep \/ Hear
    BY <2>2 DEF DebugStep, ListTargets, NextPart, ListenEnds, Report, Hear, HearLog, HearRequest,
       HeardOf, Settle, Shape, Fields
  <2> QED BY <2>1, <2>2
<1>2. pc \in Debugs /\ pc' \in Debugs \cup {"done"}
      /\ (call.tool \notin {"collect_debug_evidence"} => pc' \in {pc, "done"})
  BY DEF Command, DebugStep, ListTargets, NextPart, ListenEnds, Report, Hear, HearLog, HearRequest,
     HeardOf, Settle, Finish, Debugs, Shape, Placed, CommandTools, DebuggerTools, Captures
<1>3. Placed'
  BY <1>1, <1>2 DEF Shape, Placed, Debugs, Typing, Evidence, CommandTools, DebuggerTools, Captures
<1> QED BY <1>1, <1>3 DEF Shape


-----------------------------------------------------------------------------
(* Exits: the tools that look, wait, scroll, tap and type. *)
Cmd == {"swipe", "back", "screenshot", "tap", "type", "json_list", "socket", "launch_app", "install",
        "uninstall", "clear", "keychain", "terminate_app", "record", "pull", "cleanup", "pidof", "logs",
        "crash_buffer", "anr_list", "anr_pull", "devicectl", "idevicecrashreport", "getenv", "diagnose",
        "sdk", "trace_processor", "perfetto", "push", "tables", "queries", "attach", "toc", "export"}
SentRec == [cmd: Cmd, ok: BOOLEAN]
SentType == obs.sent \in Seq(SentRec)
Ui == call.tool \notin CommandTools \cup DebuggerTools
Good(i) == obs.sent[i].ok \/ Excused(i)
\* A command that the fallback is about to repeat.
Again(i, cmd) == i = Len(obs.sent) /\ obs.sent[i].cmd = cmd /\ FallsBack(cmd)
\* A text that goes into a field whose focus failed is typed and then answered as failed.
Unfocused == call.tool = "type_into_element" /\ run.focus = "failed"
Answering == pc = "done" /\ out.status = "success"

UiExits ==
    /\ \A i \in DOMAIN obs.sent :
          \/ Good(i) \/ Unfocused \/ (pc = "done" /\ ~Answering)
          \/ pc = "tap_again" /\ Again(i, "tap")
          \/ pc = "type_again" /\ Again(i, "type")
    /\ Unfocused => ~Answering
    /\ call.tool = "type_into_element" /\ pc \notin Typing \cup {"done"} => run.focus = "none"
UiInv == Shape /\ SentType /\ (Ui => UiExits)

\* A command sent comes last.
LEMMA SentGrows ==
    ASSUME SentType, NEW cmd \in Cmd, NEW ok \in BOOLEAN, obs'.sent = Sent(cmd, ok)
    PROVE  /\ SentType' /\ Len(obs'.sent) = Len(obs.sent) + 1 /\ Len(obs.sent) \in Nat
           /\ DOMAIN obs.sent = 1..Len(obs.sent)
           /\ DOMAIN obs'.sent = 1..(Len(obs.sent) + 1)
           /\ \A i \in DOMAIN obs.sent : obs'.sent[i] = obs.sent[i]
           /\ obs'.sent[Len(obs.sent) + 1] = [cmd |-> cmd, ok |-> ok]
<1>1. [cmd |-> cmd, ok |-> ok] \in SentRec
  BY DEF SentRec
<1>2. obs'.sent = Append(obs.sent, [cmd |-> cmd, ok |-> ok]) /\ obs.sent \in Seq(SentRec)
  BY DEF Sent, SentType
<1> HIDE DEF SentRec
<1> QED BY <1>1, <1>2 DEF SentType

\* What is good stays good, and what was to be repeated is good once it was.
LEMMA GoodStays ==
    ASSUME SentType, NEW cmd \in Cmd, NEW ok \in BOOLEAN, obs'.sent = Sent(cmd, ok),
           call' = call,
           run'.focus = run.focus \/ run.focus = "none" \/ call.tool # "type_into_element",
           NEW i \in DOMAIN obs.sent,
           Good(i) \/ Again(i, cmd) \/ obs.sent[i].cmd = "devicectl"
    PROVE  Good(i)'
<1>1. /\ Len(obs'.sent) = Len(obs.sent) + 1 /\ Len(obs.sent) \in Nat /\ i \in 1..Len(obs.sent)
      /\ obs'.sent[i] = obs.sent[i]
      /\ obs'.sent[Len(obs.sent) + 1] = [cmd |-> cmd, ok |-> ok]
  BY SentGrows
<1>2. i < Len(obs'.sent) /\ i \in Nat
  BY <1>1
<1>3. i < Len(obs.sent) => i + 1 \in DOMAIN obs.sent
  BY <1>1, SentGrows
<1>4. i < Len(obs.sent) => obs'.sent[i + 1] = obs.sent[i + 1]
  BY <1>3, SentGrows
<1>5. \A c : FallsBack(c)' <=> FallsBack(c)
  BY DEF FallsBack, Physical
<1>6. CASE Again(i, cmd)
  BY <1>1, <1>2, <1>5, <1>6 DEF Again, Good, Excused
<1>7. CASE Good(i)
  BY <1>1, <1>2, <1>4, <1>5, <1>7 DEF Good, Excused
<1>8. CASE obs.sent[i].cmd = "devicectl"
  BY <1>1, <1>2, <1>8 DEF Good, Excused
<1> QED BY <1>6, <1>7, <1>8

\* A step that sends nothing, and ends a call only as it may.
LEMMA UiQuiet ==
    ASSUME UiInv, Ui, Shape', call' = call, obs'.sent = obs.sent, run'.focus = run.focus,
           pc \notin {"tap_again", "type_again", "done"}, Unfocused => ~Answering',
           pc \in Typing => pc' \in Typing \cup {"done"}
    PROVE  UiInv'
<1>1. SentType' /\ Ui' /\ Unfocused' = Unfocused
  BY DEF UiInv, SentType, Ui, Unfocused
<1>2. \A i \in DOMAIN obs.sent : Good(i)' <=> Good(i)
  BY DEF Good, Excused, FallsBack, Physical
<1>3. \A i \in DOMAIN obs.sent : Good(i) \/ Unfocused
  BY DEF UiInv, UiExits
<1>4. UiExits'
  BY <1>1, <1>2, <1>3 DEF UiInv, UiExits, Typing
<1> QED BY <1>1, <1>4 DEF UiInv

\* A step that sends a command and does not take a failure for a success.
LEMMA UiSends ==
    ASSUME UiInv, Ui, Shape', call' = call, call.tool # "type_into_element",
           NEW cmd \in Cmd, NEW ok \in BOOLEAN, obs'.sent = Sent(cmd, ok),
           \/ pc \notin {"tap_again", "type_again", "done"}
           \/ pc = "tap_again" /\ cmd = "tap"
           \/ pc = "type_again" /\ cmd = "type",
           \/ ok \/ (pc' = "done" /\ out'.status # "success")
           \/ (pc' = "tap_again" /\ cmd = "tap" /\ FallsBack("tap"))
           \/ (pc' = "type_again" /\ cmd = "type" /\ FallsBack("type"))
    PROVE  UiInv'
<1>1. SentType' /\ Ui' /\ ~Unfocused' /\ ~Unfocused
  BY SentGrows DEF UiInv, Ui, Unfocused
<1>2. \A i \in DOMAIN obs.sent : Good(i) \/ Again(i, cmd)
  BY <1>1 DEF UiInv, UiExits
<1>3. \A i \in DOMAIN obs.sent : Good(i)'
  BY <1>2, GoodStays DEF UiInv
<1>4. /\ Len(obs'.sent) = Len(obs.sent) + 1 /\ Len(obs.sent) \in Nat
      /\ DOMAIN obs'.sent = 1..(Len(obs.sent) + 1) /\ DOMAIN obs.sent = 1..Len(obs.sent)
      /\ obs'.sent[Len(obs.sent) + 1] = [cmd |-> cmd, ok |-> ok]
  BY SentGrows DEF UiInv
<1>5. \A c : FallsBack(c)' <=> FallsBack(c)
  BY DEF FallsBack, Physical
<1>6. ASSUME NEW k \in Nat, k = Len(obs.sent) + 1
      PROVE  \/ Good(k)' \/ (pc' = "done" /\ ~Answering')
             \/ pc' = "tap_again" /\ Again(k, "tap")'
             \/ pc' = "type_again" /\ Again(k, "type")'
  <2>1. k = Len(obs'.sent) /\ obs'.sent[k].cmd = cmd /\ obs'.sent[k].ok = ok
    BY <1>4, <1>6
  <2>2. CASE ok
    BY <2>1, <2>2 DEF Good
  <2>3. CASE pc' = "done" /\ out'.status # "success"
    BY <2>3 DEF Answering
  <2>4. CASE pc' = "tap_again" /\ cmd = "tap" /\ FallsBack("tap")
    BY <1>5, <2>1, <2>4 DEF Again
  <2>5. CASE pc' = "type_again" /\ cmd = "type" /\ FallsBack("type")
    BY <1>5, <2>1, <2>5 DEF Again
  <2> QED BY <2>2, <2>3, <2>4, <2>5
<1>7. \A i \in DOMAIN obs'.sent : i \in DOMAIN obs.sent \/ (i \in Nat /\ i = Len(obs.sent) + 1)
  BY <1>4
<1>8. UiExits'
  BY <1>1, <1>3, <1>6, <1>7 DEF UiExits
<1> QED BY <1>1, <1>8 DEF UiInv

\* Looking and deciding send nothing.
LEMMA UiLooks ==
    ASSUME UiInv, Ui, Shape',
           \/ PolledWait \/ PauseWait \/ PolledStable \/ PauseStable \/ InspectedIos
           \/ InspectedAndroid \/ LookedQuery \/ LookedTarget \/ LookedScroll
           \/ VerifyPoint \/ VerifyTyped \/ ReadTyped
    PROVE  UiInv'
<1>1. Fields /\ Placed
  BY DEF UiInv, Shape
<1>2. CASE \/ PolledWait \/ PauseWait \/ PolledStable \/ PauseStable \/ InspectedIos
           \/ InspectedAndroid \/ LookedQuery \/ LookedTarget \/ LookedScroll
  <2>1. call' = call /\ obs' = obs /\ pc \in {"looked", "pause"}
    BY <1>2 DEF PolledWait, PauseWait, PolledStable, PauseStable, InspectedIos, InspectedAndroid,
       LookedQuery, LookedTarget, LookedScroll
  <2>2. run'.focus = run.focus
    BY <1>1, <1>2 DEF PolledWait, PauseWait, PolledStable, PauseStable, InspectedIos,
       InspectedAndroid, LookedQuery, LookedTarget, LookedScroll, Aim, Fields
  <2>3. ~Unfocused
    BY <2>1 DEF UiInv, UiExits, Unfocused, Typing
  <2> QED BY <2>1, <2>2, <2>3, UiQuiet DEF Typing
<1>3. CASE VerifyPoint \/ VerifyTyped \/ ReadTyped
  <2>1. call' = call /\ pc \in {"verify", "verify_typed", "read_typed"} /\ run' = run
    BY <1>3 DEF VerifyPoint, VerifyTyped, ReadTyped
  <2>2. obs'.sent = obs.sent
    BY <1>1, <1>3 DEF VerifyPoint, VerifyTyped, ReadTyped, Fields
  <2>3. Unfocused => ~Answering'
    BY <1>3 DEF VerifyPoint, VerifyTyped, ReadTyped, TypedFinish, Finish, Unfocused, Answering
  <2>4. pc \in Typing => pc' \in Typing \cup {"done"}
    BY <1>3 DEF VerifyPoint, VerifyTyped, ReadTyped, TypedFinish, Finish, Typing
  <2> QED BY <2>1, <2>2, <2>3, <2>4, UiQuiet
<1> QED BY <1>2, <1>3

\* So do captures, drifts, the beginning, and the steps between.
LEMMA UiRests ==
    ASSUME UiInv, Ui, Shape',
           \/ Begin \/ Capture \/ Drift \/ LookedViewport \/ LookedBefore \/ ProbeEdge \/ LookedEdge
           \/ LookAfter \/ LookedAfter \/ Compare \/ LookedCrop
    PROVE  UiInv'
<1>1. Fields /\ Placed
  BY DEF UiInv, Shape
<1>2. CASE Drift
  <2>1. call' = call /\ run' = run /\ pc' = pc /\ out' = out /\ pc # "done"
    BY <1>2 DEF Drift
  <2>2. obs'.sent = obs.sent
    BY <1>1, <1>2 DEF Drift, Saw, Fields
  <2>3. SentType' /\ Ui' /\ Unfocused' = Unfocused
    BY <2>1, <2>2 DEF UiInv, SentType, Ui, Unfocused
  <2>4. \A i \in DOMAIN obs.sent : /\ Good(i)' <=> Good(i)
                                   /\ Again(i, "tap")' <=> Again(i, "tap")
                                   /\ Again(i, "type")' <=> Again(i, "type")
    BY <2>1, <2>2 DEF Good, Again, Excused, FallsBack, Physical
  <2>5. UiExits'
    BY <2>1, <2>2, <2>3, <2>4 DEF UiInv, UiExits, Answering
  <2> QED BY <2>3, <2>5 DEF UiInv
<1>3. CASE \/ Begin \/ Capture \/ LookedViewport \/ LookedBefore \/ ProbeEdge \/ LookedEdge
           \/ LookAfter \/ LookedAfter \/ Compare \/ LookedCrop
  <2>1. /\ call' = call /\ pc \notin {"tap_again", "type_again", "done"} \cup Typing
    BY <1>3 DEF Begin, Capture, DumpUi, ReadUi, CaptureIos, LookedViewport, LookedBefore, ProbeEdge,
       LookedEdge, LookAfter, LookedAfter, Compare, LookedCrop, Typing
  <2>2. run'.focus = run.focus /\ obs'.sent = obs.sent
    <3>1. CASE Begin
      BY <1>1, <3>1 DEF Begin, Fields
    <3>2. CASE Capture
      BY <1>1, <3>2 DEF Capture, DumpUi, ReadUi, CaptureIos, Fields
    <3>3. CASE \/ LookedViewport \/ LookedBefore \/ ProbeEdge \/ LookedEdge
               \/ LookAfter \/ LookedAfter \/ Compare \/ LookedCrop
      BY <1>1, <3>3 DEF LookedViewport, LookedBefore, ProbeEdge, LookedEdge, LookAfter,
         LookedAfter, Compare, LookedCrop, Fields
    <3> QED BY <1>3, <3>1, <3>2, <3>3
  <2>3. ~Unfocused
    BY <2>1 DEF UiInv, UiExits, Unfocused, Typing
  <2> QED BY <2>1, <2>2, <2>3, UiQuiet
<1> QED BY <1>2, <1>3

\* Swipes, the back key, and screenshots: a failure ends the call.
LEMMA UiMoves ==
    ASSUME UiInv, Ui, Shape', Swipe \/ ScrollSwipe \/ Back \/ Screenshot
    PROVE  UiInv'
<1>1. Fields /\ Placed
  BY DEF UiInv, Shape
<1>2. CASE Swipe \/ ScrollSwipe \/ Back
  <2>1. call' = call /\ call.tool # "type_into_element" /\ pc \in {"swipe", "back"}
    BY <1>1, <1>2 DEF Swipe, ScrollSwipe, Back, Scrolling, Placed, Typing
  <2>2. run'.focus = run.focus
    BY <1>1, <1>2 DEF Swipe, ScrollSwipe, Back, Fields
  <2>3. PICK cmd \in {"swipe", "back"}, ok \in BOOLEAN, s \in Screens :
          /\ obs' = [Saw(obs, s) EXCEPT !.sent = Sent(cmd, ok)]
          /\ ~ok => pc' = "done" /\ out'.status # "success"
    <3>1. CASE Swipe
      BY <3>1 DEF Swipe, Finish
    <3>2. CASE ScrollSwipe
      BY <3>2 DEF ScrollSwipe, Finish
    <3>3. CASE Back
      BY <3>3 DEF Back, Finish
    <3> QED BY <1>2, <3>1, <3>2, <3>3
  <2>4. obs'.sent = Sent(cmd, ok)
    BY <1>1, <2>3 DEF Saw, Fields
  <2>5. cmd \in Cmd
    BY <2>3 DEF Cmd
  <2> QED BY <2>5, <2>1, <2>2, <2>3, <2>4, UiSends
<1>3. CASE Screenshot
  <2>1. PICK ok \in BOOLEAN :
          /\ call.dry => ok
          /\ \E image \in IF call.dry THEN Screens \cup {NoDump} ELSE {dev.shown} :
               obs' = [obs EXCEPT !.shot = IF ok THEN image ELSE @,
                                  !.sent = IF call.dry THEN @ ELSE Sent("screenshot", ok)]
          /\ IF ok THEN Look /\ UNCHANGED out ELSE Finish("failed", "adapter_error")
    BY <1>3 DEF Screenshot
  <2>2. call' = call /\ run'.focus = run.focus /\ pc = "screenshot" /\ call.tool # "type_into_element"
    BY <1>1, <1>3 DEF Screenshot, Placed, Typing
  <2>3. CASE call.dry
    <3>1. obs'.sent = obs.sent
      BY <1>1, <2>1, <2>3 DEF Fields
    <3>2. ~Unfocused /\ pc \notin {"tap_again", "type_again", "done"} \cup Typing
      BY <2>2 DEF Unfocused, Typing
    <3> QED BY <2>2, <3>1, <3>2, UiQuiet
  <2>4. CASE ~call.dry
    <3>1. obs'.sent = Sent("screenshot", ok)
      BY <1>1, <2>1, <2>4 DEF Fields
    <3>2. ~ok => pc' = "done" /\ out'.status # "success"
      BY <2>1 DEF Finish
    <3>3. "screenshot" \in Cmd
      BY DEF Cmd
    <3> QED BY <2>2, <3>1, <3>2, <3>3, UiSends
  <2> QED BY <2>3, <2>4
<1> QED BY <1>2, <1>3

\* A tap that fails is repeated, ends the call, or leaves the field without focus.
LEMMA UiTaps == ASSUME UiInv, Ui, Shape', Tap PROVE UiInv'
<1>1. Fields /\ Placed
  BY DEF UiInv, Shape
<1>2. PICK result \in Attempt(pc), lands \in BOOLEAN, s \in Screens :
        /\ obs' = [Saw(obs, s) EXCEPT !.hits = IF lands THEN Append(@, Hit) ELSE @,
                                      !.sent = Sent("tap", result = "ok")]
        /\ IF result = "failed" /\ FallsBack(pc)
           THEN pc' = "tap_again" /\ UNCHANGED <<run, out>>
           ELSE Tapped(result)
  BY DEF Tap
<1>3. call' = call /\ pc \in {"tap", "tap_again"}
  BY DEF Tap
<1>4. PICK ok \in BOOLEAN : ok <=> result = "ok"
  OBVIOUS
<1>5. obs'.sent = Sent("tap", ok)
  <2>1. obs'.sent = Sent("tap", result = "ok")
    BY <1>1, <1>2 DEF Saw, Fields
  <2>2. ok = (result = "ok")
    BY <1>4
  <2> QED BY <2>1, <2>2
<1>6. result \in {"ok", "failed", "no_backend"}
  BY DEF Attempt
<1>7. FallsBack(pc) => pc = "tap" /\ FallsBack("tap")
  BY <1>3 DEF FallsBack
<1>8. "tap" \in Cmd
  BY DEF Cmd
<1>9. CASE call.tool # "type_into_element"
  <2>1. \/ ok \/ (pc' = "done" /\ out'.status # "success")
        \/ (pc' = "tap_again" /\ "tap" = "tap" /\ FallsBack("tap"))
    <3>1. CASE result = "failed" /\ FallsBack(pc)
      BY <1>2, <1>7, <3>1
    <3>2. CASE Tapped(result) /\ result # "ok"
      <4>1. CASE call.tool = "back_selector"
        <5>1. CASE result = "failed"
          BY <3>2, <4>1, <5>1 DEF Tapped, Finish
        <5>2. CASE result = "no_backend"
          BY <3>2, <4>1, <5>2 DEF Tapped, Finish
        <5> QED BY <1>6, <3>2, <5>1, <5>2
      <4>2. CASE call.tool # "back_selector"
        <5>1. CASE result = "failed"
          BY <1>9, <3>2, <4>2, <5>1 DEF Tapped, Finish
        <5>2. CASE result = "no_backend"
          BY <1>9, <3>2, <4>2, <5>2 DEF Tapped, Finish
        <5> QED BY <1>6, <3>2, <5>1, <5>2
      <4> QED BY <4>1, <4>2
    <3> QED BY <1>2, <1>4, <3>1, <3>2
  <2>2. CASE pc = "tap"
    BY <1>3, <1>5, <1>8, <1>9, <2>1, <2>2, UiSends
  <2>3. CASE pc = "tap_again"
    BY <1>3, <1>5, <1>8, <1>9, <2>1, <2>3, UiSends
  <2> QED BY <1>3, <2>2, <2>3
<1>10. CASE call.tool = "type_into_element"
  <2>1. run.focus = "none" /\ ~Unfocused
    BY <1>3, <1>10 DEF UiInv, UiExits, Typing, Unfocused
  <2>2. \A i \in DOMAIN obs.sent : Good(i) \/ Again(i, "tap")
    BY <1>3, <2>1 DEF UiInv, UiExits
  <2>3. \A i \in DOMAIN obs.sent : Good(i)'
    BY <1>3, <1>5, <1>8, <2>1, <2>2, GoodStays DEF UiInv
  <2>4. /\ SentType' /\ Len(obs'.sent) = Len(obs.sent) + 1 /\ Len(obs.sent) \in Nat
        /\ DOMAIN obs'.sent = 1..(Len(obs.sent) + 1) /\ DOMAIN obs.sent = 1..Len(obs.sent)
        /\ obs'.sent[Len(obs.sent) + 1] = [cmd |-> "tap", ok |-> ok]
    BY <1>5, <1>8, SentGrows DEF UiInv
  <2>5. \/ pc' = "tap_again" /\ run' = run /\ FallsBack("tap")
        \/ pc' = "type" /\ run'.focus = "success" /\ ok
        \/ pc' = "type" /\ run'.focus = "failed"
        \/ pc' = "type" /\ run'.focus = "partial"
    <3>1. CASE result = "failed" /\ FallsBack(pc)
      BY <1>2, <1>7, <3>1
    <3>2. CASE Tapped(result)
      BY <1>1, <1>4, <1>6, <1>10, <3>2 DEF Tapped, Fields
    <3> QED BY <1>2, <3>1, <3>2
  <2>6. FallsBack("tap")' <=> FallsBack("tap")
    BY <1>3 DEF FallsBack, Physical
  <2>7. ASSUME NEW k \in Nat, k = Len(obs.sent) + 1
        PROVE  Good(k)' \/ Unfocused' \/ (pc' = "tap_again" /\ Again(k, "tap")')
    <3>1. k = Len(obs'.sent) /\ obs'.sent[k].cmd = "tap" /\ obs'.sent[k].ok = ok
      BY <2>4, <2>7
    <3>2. CASE pc' = "tap_again" /\ FallsBack("tap")
      BY <2>6, <3>1, <3>2 DEF Again
    <3>3. CASE ok
      BY <3>1, <3>3 DEF Good
    <3>4. CASE run'.focus = "failed"
      BY <1>3, <1>10, <3>4 DEF Unfocused
    <3>5. CASE run'.focus = "partial"
      BY <1>3, <1>10, <3>1, <3>5 DEF Good, Excused
    <3> QED BY <2>5, <3>2, <3>3, <3>4, <3>5
  <2>8. \A i \in DOMAIN obs'.sent : i \in DOMAIN obs.sent \/ (i \in Nat /\ i = Len(obs.sent) + 1)
    BY <2>4
  <2>9. Ui' /\ ~Answering' /\ (pc' \notin Typing \cup {"done"} => run'.focus = "none")
    BY <1>3, <2>1, <2>5 DEF Ui, Answering, Typing
  <2>10. UiExits'
    BY <2>3, <2>7, <2>8, <2>9 DEF UiExits
  <2> QED BY <2>4, <2>10 DEF UiInv
<1> QED BY <1>9, <1>10

\* A text that fails is typed again or ends the call.
LEMMA UiTypes == ASSUME UiInv, Ui, Shape', Type PROVE UiInv'
<1>1. Fields /\ Placed
  BY DEF UiInv, Shape
<1>2. PICK result \in Attempt(pc) :
        /\ obs' = [obs EXCEPT !.sent = Sent("type", result = "ok")]
        /\ IF result = "failed" /\ FallsBack(pc)
           THEN pc' = "type_again" /\ UNCHANGED out
           ELSE Typed(result)
  BY DEF Type
<1>3. call' = call /\ run' = run /\ pc \in {"type", "type_again"}
  BY DEF Type
<1>4. PICK ok \in BOOLEAN : ok <=> result = "ok"
  OBVIOUS
<1>5. obs'.sent = Sent("type", ok)
  <2>1. obs'.sent = Sent("type", result = "ok")
    BY <1>1, <1>2 DEF Fields
  <2>2. ok = (result = "ok")
    BY <1>4
  <2> QED BY <2>1, <2>2
<1>6. result \in {"ok", "failed", "no_backend"}
  BY DEF Attempt
<1>7. FallsBack(pc) => pc = "type" /\ FallsBack("type")
  BY <1>3 DEF FallsBack
<1>8. "type" \in Cmd
  BY DEF Cmd
<1>9. CASE call.tool # "type_into_element"
  <2>1. \/ ok \/ (pc' = "done" /\ out'.status # "success")
        \/ (pc' = "type_again" /\ FallsBack("type"))
    <3>1. CASE result = "failed" /\ FallsBack(pc)
      BY <1>2, <1>7, <3>1
    <3>2. CASE Typed(result) /\ result # "ok"
      <4>1. call.tool = "type_text"
        BY <1>1, <1>3, <1>9 DEF Placed, Typing
      <4> QED BY <1>6, <3>2, <4>1 DEF Typed, Finish
    <3> QED BY <1>2, <1>4, <3>1, <3>2
  <2>2. CASE pc = "type"
    BY <1>3, <1>5, <1>8, <1>9, <2>1, <2>2, UiSends
  <2>3. CASE pc = "type_again"
    BY <1>3, <1>5, <1>8, <1>9, <2>1, <2>3, UiSends
  <2> QED BY <1>3, <2>2, <2>3
<1>10. CASE call.tool = "type_into_element"
  <2>1. \A i \in DOMAIN obs.sent : Good(i) \/ Again(i, "type") \/ Unfocused
    BY <1>3 DEF UiInv, UiExits
  <2>2. \A i \in DOMAIN obs.sent : Good(i)' \/ Unfocused
    BY <1>3, <1>5, <1>8, <2>1, GoodStays DEF UiInv
  <2>3. /\ SentType' /\ Len(obs'.sent) = Len(obs.sent) + 1 /\ Len(obs.sent) \in Nat
        /\ DOMAIN obs'.sent = 1..(Len(obs.sent) + 1) /\ DOMAIN obs.sent = 1..Len(obs.sent)
        /\ obs'.sent[Len(obs.sent) + 1] = [cmd |-> "type", ok |-> ok]
    BY <1>5, <1>8, SentGrows DEF UiInv
  <2>4. /\ \/ pc' = "type_again" /\ FallsBack("type")
           \/ pc' = "done" /\ out'.status # "success"
           \/ pc' \in {"verify_typed", "done"} /\ ok /\ run.focus # "failed"
    <3>1. CASE result = "failed" /\ FallsBack(pc)
      BY <1>2, <1>7, <3>1
    <3>2. CASE Typed(result)
      BY <1>4, <1>6, <1>10, <3>2 DEF Typed, TypedFinish, Finish
    <3> QED BY <1>2, <3>1, <3>2
  <2>5. FallsBack("type")' <=> FallsBack("type")
    BY <1>3 DEF FallsBack, Physical
  <2>6. ASSUME NEW k \in Nat, k = Len(obs.sent) + 1
        PROVE  \/ Good(k)' \/ (pc' = "done" /\ ~Answering')
               \/ pc' = "type_again" /\ Again(k, "type")'
    <3>1. k = Len(obs'.sent) /\ obs'.sent[k].cmd = "type" /\ obs'.sent[k].ok = ok
      BY <2>3, <2>6
    <3>2. CASE pc' = "type_again" /\ FallsBack("type")
      BY <2>5, <3>1, <3>2 DEF Again
    <3>3. CASE ok
      BY <3>1, <3>3 DEF Good
    <3>4. CASE pc' = "done" /\ out'.status # "success"
      BY <3>4 DEF Answering
    <3> QED BY <2>4, <3>2, <3>3, <3>4
  <2>7. \A i \in DOMAIN obs'.sent : i \in DOMAIN obs.sent \/ (i \in Nat /\ i = Len(obs.sent) + 1)
    BY <2>3
  <2>8. Ui' /\ (Unfocused' <=> Unfocused) /\ (Unfocused => ~Answering') /\ pc' \in Typing \cup {"done"}
    BY <1>3, <2>4 DEF Ui, Unfocused, Answering, Typing
  <2>9. UiExits'
    BY <2>2, <2>6, <2>7, <2>8 DEF UiExits
  <2> QED BY <2>3, <2>9 DEF UiInv
<1> QED BY <1>9, <1>10

-----------------------------------------------------------------------------
(* Exits: the plans of commands. *)
Outcomes == {"success", "failed", "partial"}
PlainStep == [cmd: Cmd, fail: Failures \ {"next"}, file: {"no", "ok", "always"}]
\* A step that writes the artifact, or spoils the success.
Saves(step) == step.file = "always" \/ (step.file = "ok" /\ step.fail \in {"stop", "late"})

\* Plans are put together.
LEMMA PlansJoin ==
    ASSUME NEW s \in Seq(PlainStep), NEW t \in Seq(PlainStep), t # <<>>
    PROVE  /\ s \o t \in Seq(PlainStep) /\ s \o t # <<>>
           /\ (\E k \in DOMAIN t : Saves(t[k])) => \E k \in DOMAIN (s \o t) : Saves((s \o t)[k])
<1> DEFINE Steps == PlainStep
<1>0. s \in Seq(Steps) /\ t \in Seq(Steps)
  OBVIOUS
<1> HIDE DEF Steps
<1>1. /\ s \o t \in Seq(Steps) /\ Len(s \o t) = Len(s) + Len(t) /\ Len(s) \in Nat /\ Len(t) \in Nat
      /\ DOMAIN (s \o t) = 1..(Len(s) + Len(t)) /\ DOMAIN t = 1..Len(t)
  BY <1>0
<1>2. Len(t) > 0
  BY <1>0
<1>3. ASSUME NEW k \in DOMAIN t, Saves(t[k]) PROVE \E j \in DOMAIN (s \o t) : Saves((s \o t)[j])
  <2>1. Len(s) + k \in DOMAIN (s \o t) /\ (s \o t)[Len(s) + k] = t[k]
    BY <1>0, <1>1
  <2> QED BY <1>3, <2>1
<1>4. s \o t # <<>>
  BY <1>1, <1>2
<1> QED BY <1>1, <1>3, <1>4 DEF Steps

\* A step that is in the plan on a condition.
LEMMA OnlyPlain == ASSUME NEW test, NEW step \in PlainStep PROVE Only(test, step) \in Seq(PlainStep)
BY DEF Only

LEMMA StepsArePlain ==
    ASSUME NEW cmd \in Cmd, NEW fail \in Failures \ {"next"}, NEW file \in {"no", "ok", "always"}
    PROVE  /\ Run(cmd, fail, file) \in PlainStep /\ Must(cmd) \in PlainStep /\ Try(cmd) \in PlainStep
BY DEF Run, Must, Try, PlainStep, Failures

\* What a plan is made of.
LEMMA PlanShape ==
    ASSUME NEW c, c.tool \in CommandTools, c.tool = "reset_app_state" => ResetPlan(c) # <<>>
    PROVE  (Plan(c) \in Seq(PlainStep) /\ Plan(c) # <<>>) \/ Plan(c) = PhoneCrashPlan
<1>1. /\ \A x \in Cmd : Must(x) \in PlainStep /\ Try(x) \in PlainStep
      /\ \A x \in Cmd, fail \in Failures \ {"next"}, file \in {"no", "ok", "always"} :
            Run(x, fail, file) \in PlainStep
  BY StepsArePlain DEF Failures
<1>2. /\ \A x \in PlainStep : <<x>> \in Seq(PlainStep) /\ <<x>> # <<>>
      /\ \A x, y \in PlainStep : <<x, y>> \in Seq(PlainStep) /\ <<x, y>> # <<>>
      /\ \A x, y, z \in PlainStep : <<x, y, z>> \in Seq(PlainStep) /\ <<x, y, z>> # <<>>
  OBVIOUS
<1> HIDE DEF PlainStep
<1>3. CASE c.tool \in {"launch_app", "install_app", "terminate_app", "take_screenshot",
                       "record_screen", "collect_diagnostics"}
  BY <1>1, <1>2, <1>3 DEF Plan, TerminatePlan, ScreenshotPlan, RecordPlan, DiagnosticsPlan, Cmd,
     Failures
<1>4. CASE c.tool = "reset_app_state"
  <2>1. Reinstall \in Seq(PlainStep)
    BY <1>1, <1>2 DEF Reinstall, Cmd
  <2>2. ResetPlan(c) \in {<<Must("clear")>>, Reinstall, <<>>, <<Must("uninstall")>>, <<Must("keychain")>>}
    BY DEF ResetPlan, AndroidReset, IosReset
  <2>3. Plan(c) = ResetPlan(c)
    BY <1>4 DEF Plan
  <2> QED BY <1>1, <1>2, <1>4, <2>1, <2>2, <2>3 DEF Cmd
<1>5. CASE c.tool = "get_logs"
  <2>1. <<Run("logs", "stop", "ok")>> \in Seq(PlainStep) /\ <<Run("logs", "stop", "ok")>> # <<>>
    BY <1>1, <1>2 DEF Cmd, Failures
  <2>2. Only(c.platform = "android" /\ c.appId, Try("pidof")) \in Seq(PlainStep)
    BY <1>1, OnlyPlain DEF Cmd
  <2> QED BY <1>5, <2>1, <2>2, PlansJoin DEF Plan, LogsPlan
<1>6. CASE c.tool = "get_crash_signals"
  <2> DEFINE Reads == <<Run("crash_buffer", "late", "no"), Run("anr_list", "late", "ok"), Try("anr_pull")>>
  <2>1. Reads \in Seq(PlainStep) /\ Reads # <<>>
    BY <1>1, <1>2 DEF Cmd, Failures
  <2>2. Only(c.appId, Try("pidof")) \in Seq(PlainStep)
    BY <1>1, OnlyPlain DEF Cmd
  <2>3. AndroidCrashPlan(c) = Only(c.appId, Try("pidof")) \o Reads
    BY DEF AndroidCrashPlan
  <2> HIDE DEF Reads
  <2>4. AndroidCrashPlan(c) \in Seq(PlainStep) /\ AndroidCrashPlan(c) # <<>>
    BY <2>1, <2>2, <2>3, PlansJoin
  <2>5. <<Run("getenv", "stop", "ok")>> \in Seq(PlainStep) /\ <<Run("getenv", "stop", "ok")>> # <<>>
    BY <1>1, <1>2 DEF Cmd, Failures
  <2> QED BY <1>6, <2>4, <2>5 DEF Plan, CrashPlan
<1>7. CASE c.tool = "measure_android_performance"
  <2>1. PerfettoProbes \in Seq(PlainStep) /\ PerfettoCapture \in Seq(PlainStep) /\ PerfettoCapture # <<>>
    BY <1>1, <1>2 DEF PerfettoProbes, PerfettoCapture, Cmd, Failures
  <2>2. PerfettoQueries \in Seq(PlainStep) /\ PerfettoQueries # <<>>
    BY <1>1, <1>2 DEF PerfettoQueries, Cmd, Failures
  <2>3. PerfettoProbes \o PerfettoCapture \in Seq(PlainStep)
    BY <2>1, PlansJoin
  <2>4. (PerfettoProbes \o PerfettoCapture) \o PerfettoQueries \in Seq(PlainStep)
        /\ (PerfettoProbes \o PerfettoCapture) \o PerfettoQueries # <<>>
    BY <2>2, <2>3, PlansJoin
  <2> QED BY <1>7, <2>4 DEF Plan
<1>8. CASE c.tool = "measure_ios_performance"
  <2>1. Only(c.appId, Try("attach")) \in Seq(PlainStep) /\ <<Must("record")>> \in Seq(PlainStep)
        /\ <<Must("record")>> # <<>>
    BY <1>1, <1>2, OnlyPlain DEF Cmd
  <2>2. XctraceCapture(c) \in Seq(PlainStep)
    BY <2>1, PlansJoin DEF XctraceCapture
  <2>3. XctraceExports \in Seq(PlainStep) /\ XctraceExports # <<>>
    BY <1>1, <1>2 DEF XctraceExports, Cmd, Failures
  <2> QED BY <1>8, <2>2, <2>3, PlansJoin DEF Plan
<1> QED BY <1>3, <1>4, <1>5, <1>6, <1>7, <1>8 DEF CommandTools

\* What is left of a plan after one of its steps.
LEMMA AfterPlain ==
    ASSUME run.todo \in Seq(PlainStep), run.todo # <<>>, run.verdict \in Outcomes,
           NEW ok \in BOOLEAN, NEW next \in After(Head(run.todo), ok)
    PROVE  /\ next.todo \in Seq(PlainStep) /\ next.verdict \in Outcomes
           /\ next.verdict = "success" =>
                /\ run.verdict = "success" /\ next.todo = Tail(run.todo)
                /\ ok \/ Head(run.todo).fail = "ignore"
<1> DEFINE step == Head(run.todo)
<1>1. step \in PlainStep
  <2> HIDE DEF PlainStep
  <2> QED OBVIOUS
<1>2. step.fail \in Failures \ {"next"}
  BY <1>1 DEF PlainStep
<1>3. Tail(run.todo) \in Seq(PlainStep) /\ run.todo[Len(run.todo)] \in PlainStep
  <2> DEFINE Steps == PlainStep
  <2>1. run.todo \in Seq(Steps) /\ run.todo # <<>>
    OBVIOUS
  <2> HIDE DEF Steps
  <2>2. Tail(run.todo) \in Seq(Steps) /\ run.todo[Len(run.todo)] \in Steps
    BY <2>1
  <2> QED BY <2>2 DEF Steps
<1>4. <<run.todo[Len(run.todo)]>> \in Seq(PlainStep) /\ <<>> \in Seq(PlainStep)
  BY <1>3
<1> HIDE DEF step, PlainStep
<1>5. next \in After(step, ok)
  BY DEF step
<1>6. \/ (ok \/ step.fail = "ignore") /\ next = [todo |-> Tail(run.todo), verdict |-> run.verdict]
      \/ ~ok /\ next = [todo |-> <<>>, verdict |-> "failed"]
      \/ ~ok /\ next = [todo |-> <<>>, verdict |-> "partial"]
      \/ ~ok /\ next = [todo |-> Tail(run.todo), verdict |-> "failed"]
      \/ ~ok /\ next = [todo |-> Tail(run.todo), verdict |-> "partial"]
      \/ ~ok /\ next = [todo |-> <<run.todo[Len(run.todo)]>>, verdict |-> "failed"]
  <2>0. step.fail # "next"
    BY <1>2
  <2>1. CASE ok
    <3>1. next \in {[todo |-> Tail(run.todo), verdict |-> run.verdict]}
      BY <1>5, <2>0, <2>1 DEF After
    <3>2. next = [todo |-> Tail(run.todo), verdict |-> run.verdict]
      BY <3>1
    <3> QED BY <2>1, <3>2
  <2>2. CASE ~ok /\ step.fail \in {"stop", "partial", "late"}
    BY <1>5, <2>2 DEF After, Stopping
  <2>3. CASE ~ok /\ step.fail \in {"degrade", "cleanup", "ignore"}
    BY <1>5, <2>3 DEF After
  <2>4. step.fail \in {"stop", "partial", "late", "degrade", "cleanup", "ignore"}
    BY <1>2 DEF Failures
  <2> QED BY <2>1, <2>2, <2>3, <2>4
<1>7. next.verdict = "success" => (ok \/ step.fail = "ignore") /\ next = [todo |-> Tail(run.todo), verdict |-> run.verdict]
  BY <1>6
<1>8. next.todo \in Seq(PlainStep)
  <2>1. next.todo \in {Tail(run.todo), <<>>, <<run.todo[Len(run.todo)]>>}
    BY <1>6
  <2> QED BY <1>3, <1>4, <2>1
<1>9. next.verdict \in Outcomes
  BY <1>6 DEF Outcomes
<1>10. next.verdict = "success" =>
        run.verdict = "success" /\ next.todo = Tail(run.todo) /\ (ok \/ step.fail = "ignore")
  BY <1>7
<1> QED BY <1>8, <1>9, <1>10 DEF step

\* A plan of a tool that names an artifact has a step that writes it.
LEMMA PlanSaves ==
    ASSUME NEW c, c.tool \in Capturing, ~(c.tool = "record_screen" /\ c.platform = "ios"),
           ~(c.tool = "get_crash_signals" /\ c.device = "physical")
    PROVE  Plan(c) \in Seq(PlainStep) /\ \E k \in DOMAIN Plan(c) : Saves(Plan(c)[k])
<1>1. /\ \A x \in Cmd : Must(x) \in PlainStep /\ Try(x) \in PlainStep
      /\ \A x \in Cmd, fail \in Failures \ {"next"}, file \in {"no", "ok", "always"} :
            Run(x, fail, file) \in PlainStep
  BY StepsArePlain DEF Failures
<1>2. /\ \A x \in PlainStep : <<x>> \in Seq(PlainStep) /\ <<x>> # <<>>
      /\ \A x, y \in PlainStep : <<x, y>> \in Seq(PlainStep) /\ <<x, y>> # <<>>
      /\ \A x, y, z \in PlainStep : <<x, y, z>> \in Seq(PlainStep) /\ <<x, y, z>> # <<>>
  OBVIOUS
<1>3. \A x : /\ Saves(Run(x, "stop", "ok")) /\ Saves(Run(x, "late", "ok"))
             /\ Saves(Run(x, "stop", "always")) /\ Saves(Run(x, "degrade", "always"))
  BY DEF Saves, Run
<1>4. /\ \A x : Saves(x) => \E k \in DOMAIN <<x>> : Saves(<<x>>[k])
      /\ \A x, y : Saves(x) \/ Saves(y) => \E k \in DOMAIN <<x, y>> : Saves(<<x, y>>[k])
      /\ \A x, y, z : Saves(y) => \E k \in DOMAIN <<x, y, z>> : Saves(<<x, y, z>>[k])
  <2>1. ASSUME NEW x, Saves(x) PROVE \E k \in DOMAIN <<x>> : Saves(<<x>>[k])
    <3>1. 1 \in DOMAIN <<x>> /\ <<x>>[1] = x
      OBVIOUS
    <3> QED BY <2>1, <3>1
  <2>2. ASSUME NEW x, NEW y, Saves(x) \/ Saves(y)
        PROVE  \E k \in DOMAIN <<x, y>> : Saves(<<x, y>>[k])
    <3>1. 1 \in DOMAIN <<x, y>> /\ 2 \in DOMAIN <<x, y>> /\ <<x, y>>[1] = x /\ <<x, y>>[2] = y
      OBVIOUS
    <3> QED BY <2>2, <3>1
  <2>3. ASSUME NEW x, NEW y, NEW z, Saves(y) PROVE \E k \in DOMAIN <<x, y, z>> : Saves(<<x, y, z>>[k])
    <3>1. 2 \in DOMAIN <<x, y, z>> /\ <<x, y, z>>[2] = y
      OBVIOUS
    <3> QED BY <2>3, <3>1
  <2> QED BY <2>1, <2>2, <2>3
<1> HIDE DEF PlainStep, Saves
<1>5. CASE c.tool = "take_screenshot"
  <2>1. PICK file \in {"always", "ok"} : Plan(c) = <<Run("screenshot", "stop", file)>>
    BY <1>5 DEF Plan, ScreenshotPlan
  <2>2. Run("screenshot", "stop", file) \in PlainStep /\ Saves(Run("screenshot", "stop", file))
    BY <1>1, <1>3 DEF Cmd, Failures
  <2> QED BY <1>2, <1>4, <2>1, <2>2
<1>6. CASE c.tool = "record_screen"
  <2>1. Plan(c) = <<Run("record", "cleanup", "no"), Run("pull", "late", "ok"), Try("cleanup")>>
    BY <1>6 DEF Plan, RecordPlan
  <2>2. Run("record", "cleanup", "no") \in PlainStep /\ Run("pull", "late", "ok") \in PlainStep
        /\ Try("cleanup") \in PlainStep
    BY <1>1 DEF Cmd, Failures
  <2> QED BY <1>2, <1>3, <1>4, <2>1, <2>2
<1>7. CASE c.tool = "collect_diagnostics"
  <2>1. Plan(c) = <<Run("diagnose", "stop", "ok")>>
    BY <1>7 DEF Plan, DiagnosticsPlan
  <2>2. Run("diagnose", "stop", "ok") \in PlainStep
    BY <1>1 DEF Cmd, Failures
  <2> QED BY <1>2, <1>3, <1>4, <2>1, <2>2
<1>8. CASE c.tool = "get_logs"
  <2>1. Plan(c) = Only(c.platform = "android" /\ c.appId, Try("pidof")) \o <<Run("logs", "stop", "ok")>>
    BY <1>8 DEF Plan, LogsPlan
  <2>2. Run("logs", "stop", "ok") \in PlainStep /\ Saves(Run("logs", "stop", "ok"))
    BY <1>1, <1>3 DEF Cmd, Failures
  <2>3. Only(c.platform = "android" /\ c.appId, Try("pidof")) \in Seq(PlainStep)
    BY <1>1, OnlyPlain DEF Cmd
  <2>4. /\ <<Run("logs", "stop", "ok")>> \in Seq(PlainStep) /\ <<Run("logs", "stop", "ok")>> # <<>>
        /\ \E k \in DOMAIN <<Run("logs", "stop", "ok")>> : Saves(<<Run("logs", "stop", "ok")>>[k])
    BY <1>2, <1>4, <2>2
  <2> QED BY <2>1, <2>3, <2>4, PlansJoin
<1>9. CASE c.tool = "get_crash_signals"
  <2>1. CASE c.platform = "android"
    <3> DEFINE reads == <<Run("crash_buffer", "late", "no"), Run("anr_list", "late", "ok"), Try("anr_pull")>>
    <3>1. Plan(c) = Only(c.appId, Try("pidof")) \o reads
      BY <1>9, <2>1 DEF Plan, CrashPlan, AndroidCrashPlan
    <3>2. Run("crash_buffer", "late", "no") \in PlainStep /\ Run("anr_list", "late", "ok") \in PlainStep
          /\ Try("anr_pull") \in PlainStep
      BY <1>1 DEF Cmd, Failures
    <3>3. reads \in Seq(PlainStep) /\ reads # <<>> /\ \E k \in DOMAIN reads : Saves(reads[k])
      BY <1>2, <1>3, <1>4, <3>2
    <3>4. Only(c.appId, Try("pidof")) \in Seq(PlainStep)
      BY <1>1, OnlyPlain DEF Cmd
    <3> HIDE DEF reads
    <3> QED BY <3>1, <3>3, <3>4, PlansJoin
  <2>2. CASE c.platform # "android"
    <3>1. Plan(c) = <<Run("getenv", "stop", "ok")>>
      BY <1>9, <2>2 DEF Plan, CrashPlan
    <3>2. Run("getenv", "stop", "ok") \in PlainStep
      BY <1>1 DEF Cmd, Failures
    <3> QED BY <1>2, <1>3, <1>4, <3>1, <3>2
  <2> QED BY <2>1, <2>2
<1>10. CASE c.tool = "measure_android_performance"
  <2>1. PerfettoProbes \in Seq(PlainStep) /\ PerfettoCapture \in Seq(PlainStep) /\ PerfettoCapture # <<>>
    BY <1>1, <1>2 DEF PerfettoProbes, PerfettoCapture, Cmd, Failures
  <2>2. PerfettoProbes \o PerfettoCapture \in Seq(PlainStep)
    BY <2>1, PlansJoin
  <2>3. Run("tables", "degrade", "always") \in PlainStep /\ Try("queries") \in PlainStep
    BY <1>1 DEF Cmd, Failures
  <2>4. PerfettoQueries \in Seq(PlainStep) /\ PerfettoQueries # <<>>
        /\ \E k \in DOMAIN PerfettoQueries : Saves(PerfettoQueries[k])
    BY <1>2, <1>3, <1>4, <2>3 DEF PerfettoQueries
  <2>5. Plan(c) = (PerfettoProbes \o PerfettoCapture) \o PerfettoQueries
    BY <1>10 DEF Plan
  <2> QED BY <2>2, <2>4, <2>5, PlansJoin
<1>11. CASE c.tool = "measure_ios_performance"
  <2>1. Only(c.appId, Try("attach")) \in Seq(PlainStep) /\ <<Must("record")>> \in Seq(PlainStep)
        /\ <<Must("record")>> # <<>>
    BY <1>1, <1>2, OnlyPlain DEF Cmd
  <2>2. XctraceCapture(c) \in Seq(PlainStep)
    BY <2>1, PlansJoin DEF XctraceCapture
  <2>3. Run("toc", "degrade", "no") \in PlainStep /\ Run("export", "degrade", "always") \in PlainStep
    BY <1>1 DEF Cmd, Failures
  <2>4. XctraceExports \in Seq(PlainStep) /\ XctraceExports # <<>>
        /\ \E k \in DOMAIN XctraceExports : Saves(XctraceExports[k])
    BY <1>2, <1>3, <1>4, <2>3 DEF XctraceExports
  <2>5. Plan(c) = XctraceCapture(c) \o XctraceExports
    BY <1>11 DEF Plan
  <2> QED BY <2>2, <2>4, <2>5, PlansJoin
<1> QED BY <1>5, <1>6, <1>7, <1>8, <1>9, <1>10, <1>11 DEF Capturing, CommandTools

\* The step that writes the artifact is still to come, has written it, or has
\* spoiled the success.
LEMMA SavesStays ==
    ASSUME run.todo \in Seq(PlainStep), run.todo # <<>>, run.verdict \in Outcomes,
           NEW ok \in BOOLEAN, NEW next \in After(Head(run.todo), ok), next.verdict = "success",
           NEW k \in DOMAIN run.todo, Saves(run.todo[k])
    PROVE  Saved(Head(run.todo), ok) \/ \E j \in DOMAIN next.todo : Saves(next.todo[j])
<1>1. /\ run.verdict = "success" /\ next.todo = Tail(run.todo)
      /\ ok \/ Head(run.todo).fail = "ignore"
  BY AfterPlain
<1>2. CASE k = 1
  <2>1. Saves(Head(run.todo))
    BY <1>2
  <2> QED BY <1>1, <2>1 DEF Saves, Saved
<1>3. CASE k # 1
  <2> DEFINE Steps == PlainStep
  <2>1. run.todo \in Seq(Steps)
    OBVIOUS
  <2> HIDE DEF Steps
  <2>2. k - 1 \in DOMAIN Tail(run.todo) /\ Tail(run.todo)[k - 1] = run.todo[k]
    BY <1>3, <2>1
  <2> QED BY <1>1, <2>2
<1> QED BY <1>2, <1>3

-----------------------------------------------------------------------------
(* Exits: the tools that run a plan, and the evidence. *)
AllGood == \A i \in DOMAIN obs.sent : Good(i)
\* All but those that the next way to the reports makes up for.
GoodOrNext == \A i \in DOMAIN obs.sent : Good(i) \/ obs.sent[i].cmd = "devicectl"
\* A part of the evidence is known to have failed.
Lost == Evidence /\ \/ \E k \in DOMAIN run.got : run.got[k] # "success"
                    \/ call.js /\ run.socket = "none"
LastWay == <<Run("idevicecrashreport", "next", "no")>>

Commanding ==
    /\ run.verdict \in Outcomes
    /\ \/ /\ run.todo \in Seq(PlainStep) /\ run.todo # <<>>
          /\ run.verdict = "success" => AllGood \/ Lost
       \/ run.todo = PhoneCrashPlan /\ (AllGood \/ Lost)
       \/ run.todo = LastWay /\ run.verdict = "failed" /\ (GoodOrNext \/ Lost)

\* What a command sent does to those before it.
LEMMA CommandSent ==
    ASSUME SentType, call' = call, call.tool # "type_into_element",
           NEW cmd \in Cmd, NEW ok \in BOOLEAN, obs'.sent = Sent(cmd, ok)
    PROVE  /\ SentType'
           /\ ok /\ GoodOrNext => AllGood'
           /\ AllGood /\ (ok \/ cmd = "devicectl") => GoodOrNext'
<1>1. /\ SentType' /\ DOMAIN obs'.sent = 1..(Len(obs.sent) + 1) /\ DOMAIN obs.sent = 1..Len(obs.sent)
      /\ Len(obs.sent) \in Nat
      /\ obs'.sent[Len(obs.sent) + 1] = [cmd |-> cmd, ok |-> ok]
  BY SentGrows
<1>2. ASSUME NEW k \in DOMAIN obs'.sent
      PROVE  k \in DOMAIN obs.sent \/ (obs'.sent[k].cmd = cmd /\ obs'.sent[k].ok = ok)
  <2>1. k \in DOMAIN obs.sent \/ k = Len(obs.sent) + 1
    BY <1>1
  <2> QED BY <1>1, <2>1
<1>3. \A i \in DOMAIN obs.sent : Good(i) \/ obs.sent[i].cmd = "devicectl" => Good(i)'
  BY GoodStays
<1>4. ok /\ GoodOrNext => AllGood'
  BY <1>2, <1>3 DEF GoodOrNext, AllGood, Good
<1>5. AllGood /\ (ok \/ cmd = "devicectl") => GoodOrNext'
  BY <1>2, <1>3 DEF GoodOrNext, AllGood, Good
<1> QED BY <1>1, <1>4, <1>5

\* Where nothing is sent, nothing changes.
LEMMA NothingSent ==
    ASSUME SentType, call' = call, call.tool # "type_into_element", obs'.sent = obs.sent
    PROVE  SentType' /\ (AllGood <=> AllGood') /\ (GoodOrNext <=> GoodOrNext')
BY DEF SentType, AllGood, GoodOrNext, Good, Excused, FallsBack, Physical

\* One command of a plan.
LEMMA CommandKeeps ==
    ASSUME Fields, SentType, call.tool # "type_into_element", Commanding, Command
    PROVE  /\ SentType' /\ call' = call /\ run'.socket = run.socket /\ pc = "command"
           /\ \/ pc' = pc /\ out' = out /\ run'.got = run.got /\ Commanding'
              \/ /\ run'.got = Append(run.got, run'.verdict) /\ run'.verdict \in Outcomes
                 /\ run'.verdict = "success" => AllGood' \/ Lost
                 /\ Evidence => pc' = "part" /\ out' = out
                 /\ ~Evidence => pc' = "done" /\ out'.status = run'.verdict
<1> DEFINE step == Head(run.todo)
<1>1. PICK ok \in BOOLEAN, s \in Screens, remote \in BOOLEAN :
        /\ obs' = [Saw(obs, s) EXCEPT
             !.sent = IF step.fail = "ignore" THEN @ ELSE Sent(step.cmd, ok),
             !.saved = @ \/ Saved(step, ok)]
        /\ \E next \in After(step, ok) :
             /\ run' = [run EXCEPT !.todo = next.todo, !.verdict = next.verdict,
                  !.got = IF next.todo = <<>> THEN Append(@, next.verdict) ELSE @]
             /\ CASE next.todo # <<>> -> UNCHANGED <<pc, out>>
                  [] next.todo = <<>> /\ call.tool = "collect_debug_evidence" ->
                       pc' = "part" /\ UNCHANGED out
                  [] OTHER -> Finish(next.verdict, IF next.verdict = "success" THEN "ok"
                                                   ELSE "adapter_error")
  BY DEF Command
<1>2. PICK next \in After(step, ok) :
        /\ run' = [run EXCEPT !.todo = next.todo, !.verdict = next.verdict,
             !.got = IF next.todo = <<>> THEN Append(@, next.verdict) ELSE @]
        /\ CASE next.todo # <<>> -> UNCHANGED <<pc, out>>
             [] next.todo = <<>> /\ call.tool = "collect_debug_evidence" ->
                  pc' = "part" /\ UNCHANGED out
             [] OTHER -> Finish(next.verdict, IF next.verdict = "success" THEN "ok"
                                              ELSE "adapter_error")
  BY <1>1
<1> HIDE DEF step
<1>3. /\ run'.todo = next.todo /\ run'.verdict = next.verdict /\ run'.socket = run.socket
      /\ run'.got = IF next.todo = <<>> THEN Append(run.got, next.verdict) ELSE run.got
  BY <1>2 DEF Fields
<1>4. DOMAIN Saw(obs, s) = DOMAIN obs /\ Saw(obs, s).sent = obs.sent
  BY DEF Saw, Fields
<1>5. obs'.sent = IF step.fail = "ignore" THEN obs.sent ELSE Sent(step.cmd, ok)
  BY <1>1, <1>4 DEF Fields
<1>6. pc = "command" /\ call' = call
  BY DEF Command
<1>7. /\ next.todo # <<>> => pc' = pc /\ out' = out /\ run'.got = run.got
      /\ next.todo = <<>> =>
           /\ run'.got = Append(run.got, run'.verdict)
           /\ Evidence => pc' = "part" /\ out' = out
           /\ ~Evidence => pc' = "done" /\ out'.status = run'.verdict
  BY <1>2, <1>3 DEF Finish, Evidence
<1>8. Lost => run'.got # run.got \/ Lost'
  BY <1>3, <1>6 DEF Lost, Evidence
<1>9. CASE run.todo \in Seq(PlainStep) /\ run.todo # <<>> /\ (run.verdict = "success" => AllGood \/ Lost)
  <2>1. step \in PlainStep
    <3> HIDE DEF PlainStep
    <3> QED BY <1>9 DEF step
  <2>2. step.cmd \in Cmd
    BY <2>1 DEF PlainStep
  <2>3. /\ next.todo \in Seq(PlainStep) /\ next.verdict \in Outcomes
        /\ next.verdict = "success" => run.verdict = "success" /\ (ok \/ step.fail = "ignore")
    BY <1>2, <1>9, AfterPlain DEF step, Commanding
  <2>4. SentType' /\ (next.verdict = "success" => AllGood' \/ Lost)
    <3>1. CASE step.fail = "ignore"
      BY <1>5, <1>6, <1>9, <2>3, <3>1, NothingSent
    <3>2. CASE step.fail # "ignore"
      <4>1. obs'.sent = Sent(step.cmd, ok)
        BY <1>5, <3>2
      <4>2. AllGood => GoodOrNext
        BY DEF AllGood, GoodOrNext
      <4> QED BY <1>6, <1>9, <2>2, <2>3, <3>2, <4>1, <4>2, CommandSent
    <3> QED BY <3>1, <3>2
  <2>5. CASE next.todo # <<>>
    <3>1. next.verdict = "success" => AllGood' \/ Lost'
      BY <1>7, <1>8, <2>4, <2>5
    <3>2. Commanding'
      BY <1>3, <2>3, <2>5, <3>1 DEF Commanding
    <3> QED BY <1>3, <1>6, <1>7, <2>4, <2>5, <3>2
  <2>6. CASE next.todo = <<>>
    BY <1>3, <1>6, <1>7, <2>3, <2>4, <2>6
  <2> QED BY <2>5, <2>6
<1>10. CASE run.todo = PhoneCrashPlan /\ (AllGood \/ Lost)
  <2>1. /\ step = Run("devicectl", "next", "no") /\ Tail(run.todo) = LastWay
    BY <1>10 DEF PhoneCrashPlan, LastWay, step
  <2>2. step.cmd = "devicectl" /\ step.fail = "next" /\ "devicectl" \in Cmd
    BY <2>1 DEF Run, Cmd
  <2>3. obs'.sent = Sent("devicectl", ok)
    BY <1>5, <2>2
  <2>4. \/ ok /\ next = [todo |-> <<>>, verdict |-> "success"]
        \/ ~ok /\ next = [todo |-> <<>>, verdict |-> "failed"]
        \/ ~ok /\ next = [todo |-> LastWay, verdict |-> "failed"]
    <3>1. CASE ok
      BY <1>2, <2>1, <2>2, <3>1 DEF After, Stopping
    <3>2. CASE ~ok
      <4>1. After(step, ok) = {[todo |-> <<>>, verdict |-> "failed"], [todo |-> LastWay, verdict |-> "failed"]}
        BY <2>1, <2>2, <3>2 DEF After, Stopping
      <4> QED BY <1>2, <3>2, <4>1
    <3> QED BY <3>1, <3>2
  <2>5. /\ SentType' /\ (ok /\ AllGood => AllGood') /\ (AllGood => GoodOrNext')
    <3>1. AllGood => GoodOrNext
      BY DEF AllGood, GoodOrNext
    <3> QED BY <1>6, <2>2, <2>3, <3>1, CommandSent
  <2>6. LastWay # <<>>
    BY DEF LastWay
  <2>7. CASE ok /\ next = [todo |-> <<>>, verdict |-> "success"]
    <3>1. AllGood' \/ Lost
      BY <1>10, <2>5, <2>7
    <3>2. next.todo = <<>> /\ next.verdict = "success"
      BY <2>7
    <3> QED BY <1>3, <1>6, <1>7, <2>5, <3>1, <3>2 DEF Outcomes
  <2>8. CASE next = [todo |-> <<>>, verdict |-> "failed"]
    <3>1. next.todo = <<>> /\ next.verdict = "failed"
      BY <2>8
    <3> QED BY <1>3, <1>6, <1>7, <2>5, <3>1 DEF Outcomes
  <2>9. CASE next = [todo |-> LastWay, verdict |-> "failed"]
    <3>1. next.todo = LastWay /\ next.verdict = "failed"
      BY <2>9
    <3>2. GoodOrNext' \/ Lost'
      BY <1>7, <1>8, <1>10, <2>5, <2>6, <3>1
    <3>3. Commanding'
      BY <1>3, <3>1, <3>2 DEF Commanding, Outcomes, LastWay
    <3> QED BY <1>3, <1>6, <1>7, <2>5, <2>6, <3>1, <3>3
  <2> QED BY <2>4, <2>7, <2>8, <2>9
<1>11. CASE run.todo = LastWay /\ run.verdict = "failed" /\ (GoodOrNext \/ Lost)
  <2>1. /\ step = Run("idevicecrashreport", "next", "no") /\ Tail(run.todo) = <<>>
    BY <1>11 DEF LastWay, step
  <2>2. step.cmd = "idevicecrashreport" /\ step.fail = "next" /\ "idevicecrashreport" \in Cmd
    BY <2>1 DEF Run, Cmd
  <2>3. obs'.sent = Sent("idevicecrashreport", ok)
    BY <1>5, <2>2
  <2>4. \/ ok /\ next = [todo |-> <<>>, verdict |-> "success"]
        \/ ~ok /\ next = [todo |-> <<>>, verdict |-> "failed"]
    <3>1. CASE ok
      BY <1>2, <2>1, <2>2, <3>1 DEF After, Stopping
    <3>2. CASE ~ok
      <4>1. After(step, ok) = {[todo |-> <<>>, verdict |-> "failed"]}
        BY <2>1, <2>2, <3>2 DEF After, Stopping
      <4> QED BY <1>2, <3>2, <4>1
    <3> QED BY <3>1, <3>2
  <2>5. /\ SentType' /\ (ok /\ GoodOrNext => AllGood')
    BY <1>6, <2>2, <2>3, CommandSent
  <2>6. next.todo = <<>> /\ next.verdict \in Outcomes /\ (next.verdict = "success" => ok)
    BY <2>4 DEF Outcomes
  <2> QED BY <1>3, <1>6, <1>7, <1>11, <2>5, <2>6
<1> QED BY <1>9, <1>10, <1>11 DEF Commanding

\* The tools that are a plan.
Planned == call.tool \in CommandTools
PlanInv == Planned =>
    /\ pc = "begin" => obs.sent = <<>> /\ run.verdict = "success"
    /\ pc = "command" => Commanding
    /\ Answering => AllGood

\* A plan begins with nothing sent.
LEMMA PlanBegins == ASSUME Shape, PlanInv, Planned, Begin PROVE PlanInv'
<1>1. call' = call /\ obs' = obs /\ pc = "begin" /\ Planned'
  BY DEF Begin, Planned
<1>2. obs'.sent = <<>> /\ run.verdict = "success"
  BY <1>1 DEF PlanInv
<1>3. AllGood /\ AllGood'
  BY <1>1, <1>2 DEF AllGood
<1>4. CASE Guard(call) # NoAnswer
  BY <1>1, <1>3, <1>4 DEF Begin, PlanInv
<1>5. CASE Guard(call) = NoAnswer
  <2>1. pc' = "command"
    BY <1>5 DEF Begin, FirstStep, Planned, CommandTools, DebuggerTools, Captures
  <2>2. run'.todo = Plan(call) /\ run'.verdict = "success"
    BY <1>2, <1>5 DEF Begin, Planned, Shape, Fields
  <2>3. call.tool = "reset_app_state" => ResetPlan(call) # <<>>
    <3>1. CASE call.tool = "reset_app_state" /\ ResetPlan(call) = <<>>
      <4>1. Guard(call) = CommandGuard(call)
        BY <3>1 DEF Guard, Scrolling, DebuggerTools, Captures
      <4>2. CommandGuard(call) = ResetGuard(call)
        BY <3>1 DEF CommandGuard
      <4>3. ResetGuard(call).status # "none"
        BY <3>1 DEF ResetGuard, Misconfigured, Unsupported, Refuse, Succeeds
      <4> QED BY <1>5, <4>1, <4>2, <4>3 DEF NoAnswer
    <3> QED BY <3>1
  <2>4. (Plan(call) \in Seq(PlainStep) /\ Plan(call) # <<>>) \/ Plan(call) = PhoneCrashPlan
    BY <2>3, PlanShape DEF Planned
  <2>5. Commanding'
    BY <1>3, <2>2, <2>4 DEF Commanding, Outcomes, PhoneCrashPlan
  <2> QED BY <1>1, <2>1, <2>5 DEF PlanInv, Answering
<1> QED BY <1>4, <1>5

\* A plan goes on and ends as it must.
LEMMA PlanGoesOn == ASSUME Shape, SentType, PlanInv, Planned, Command PROVE PlanInv' /\ SentType'
<1>1. pc = "command" /\ ~Evidence /\ call.tool # "type_into_element"
  BY DEF Command, Planned, Evidence, CommandTools
<1>2. Commanding
  BY <1>1 DEF PlanInv
<1>3. /\ SentType' /\ call' = call
      /\ \/ pc' = pc /\ out' = out /\ run'.got = run.got /\ Commanding'
         \/ /\ run'.verdict = "success" => AllGood' \/ Lost
            /\ ~Evidence => pc' = "done" /\ out'.status = run'.verdict
  BY <1>1, <1>2, CommandKeeps DEF Shape
<1>4. ~Lost
  BY <1>1 DEF Lost
<1> QED BY <1>1, <1>3, <1>4 DEF PlanInv, Planned, Answering

\* No other step is one of a plan, but for a drift.
LEMMA PlanOnly == ASSUME Shape, Planned, Next PROVE Begin \/ Command \/ Drift
<1>0. pc \in {"begin", "command", "done"}
  BY DEF Shape, Placed, Planned
<1>1. ~Capture /\ ~UiToolStep
  BY <1>0 DEF Capture, DumpUi, ReadUi, CaptureIos, UiToolStep, PolledWait, PauseWait, PolledStable,
       PauseStable, InspectedIos, InspectedAndroid, LookedQuery, LookedTarget, LookedScroll, Swipe,
       VerifyPoint, Tap, Type, VerifyTyped, ReadTyped
<1>2. ~(LookedViewport \/ ScrollSwipe \/ LookedBefore \/ ProbeEdge \/ LookedEdge \/ Back
          \/ LookAfter \/ LookedAfter \/ Compare \/ Screenshot \/ LookedCrop)
  BY <1>0 DEF LookedViewport, ScrollSwipe, LookedBefore, ProbeEdge, LookedEdge, Back, LookAfter,
       LookedAfter, Compare, Screenshot, LookedCrop
<1>3. ~DebugStep /\ ~Hear
  BY <1>0 DEF DebugStep, ListTargets, NextPart, ListenEnds, Report, Hear, HearLog, HearRequest
<1> QED BY <1>1, <1>2, <1>3 DEF Next, Step

\* So a plan keeps its invariant.
LEMMA PlanSteps == ASSUME Shape, SentType, PlanInv, Planned, Next PROVE PlanInv' /\ SentType'
<1>2. Begin \/ Command \/ Drift
  BY PlanOnly
<1>3. CASE Begin
  BY <1>3, PlanBegins DEF Begin, SentType
<1>4. CASE Command
  BY <1>4, PlanGoesOn
<1>5. CASE Drift
  <2>1. call' = call /\ pc' = pc /\ run' = run /\ pc \notin {"begin", "done"} /\ obs'.sent = obs.sent
    BY <1>5 DEF Drift, Saw, Shape, Fields
  <2>2. SentType' /\ (AllGood <=> AllGood') /\ (GoodOrNext <=> GoodOrNext')
    BY <2>1, NothingSent DEF Planned, CommandTools
  <2>3. Lost' = Lost
    BY <2>1 DEF Lost, Evidence
  <2>4. Commanding => Commanding'
    BY <2>1, <2>2, <2>3 DEF Commanding
  <2> QED BY <2>1, <2>2, <2>4 DEF PlanInv, Planned, Answering
<1> QED BY <1>2, <1>3, <1>4, <1>5

\* Two sequences, one after the other.
LEMMA Joined ==
    ASSUME NEW S, NEW s \in Seq(S), NEW t \in Seq(S)
    PROVE  /\ s \o t \in Seq(S) /\ Len(s \o t) = Len(s) + Len(t)
           /\ \A k \in 1..Len(t) : (s \o t)[Len(s) + k] = t[k]
OBVIOUS

\* The parts of the evidence, the last of which needs the socket if any does.
LEMMA PartsShape ==
    ASSUME NEW c
    PROVE  /\ Len(Parts(c)) \in 2..5
           /\ \A k \in 1..Len(Parts(c)) :
                Parts(c)[k] \in {"get_logs", "get_crash_signals", "collect_diagnostics"} \cup Captures
           /\ c.js => Parts(c)[Len(Parts(c))] \in Captures
<1> DEFINE Native == {"get_logs", "get_crash_signals", "collect_diagnostics"}
<1> DEFINE All == Native \cup Captures
<1> DEFINE first == <<"get_logs", "get_crash_signals">>
<1> DEFINE second == Only(c.bundle, "collect_diagnostics")
<1> DEFINE third == IF c.js THEN <<"capture_js_console_logs", "capture_js_network_events">> ELSE <<>>
<1>1. first \in Seq(All) /\ Len(first) = 2 /\ second \in Seq(All) /\ (Len(second) = 0 \/ Len(second) = 1)
  <2>1. first \in Seq(All) /\ Len(first) = 2
    OBVIOUS
  <2>2. /\ <<"collect_diagnostics">> \in Seq(All) /\ Len(<<"collect_diagnostics">>) = 1
        /\ <<>> \in Seq(All) /\ Len(<<>>) = 0
    OBVIOUS
  <2>3. second \in Seq(All) /\ (Len(second) = 0 \/ Len(second) = 1)
    <3>1. second = <<"collect_diagnostics">> \/ second = <<>>
      BY DEF Only
    <3> HIDE DEF second, All
    <3> QED BY <2>2, <3>1
  <2> QED BY <2>1, <2>3
<1>2. third \in Seq(All) /\ (Len(third) = 0 \/ Len(third) = 2) /\ (c.js => Len(third) = 2 /\ third[2] \in Captures)
  <2>1. CASE c.js
    BY <2>1 DEF Captures
  <2>2. CASE ~c.js
    BY <2>2
  <2> QED BY <2>1, <2>2
<1>3. Parts(c) = (first \o second) \o third
  BY DEF Parts
<1> HIDE DEF first, second, third, All
<1>4. first \o second \in Seq(All) /\ (Len(first \o second) = 2 \/ Len(first \o second) = 3)
  <2>1. first \o second \in Seq(All) /\ Len(first \o second) = Len(first) + Len(second)
    BY <1>1, Joined
  <2> QED BY <1>1, <2>1
<1>5. Parts(c) \in Seq(All) /\ Len(Parts(c)) = Len(first \o second) + Len(third)
  BY <1>2, <1>3, <1>4, Joined
<1>6. c.js => Parts(c)[Len(Parts(c))] = third[2]
  <2> DEFINE front == first \o second
  <2>1. front \in Seq(All) /\ (Len(front) = 2 \/ Len(front) = 3)
    BY <1>4
  <2>2. Parts(c) = front \o third
    BY <1>3
  <2> HIDE DEF front
  <2>3. CASE c.js
    <3>1. Len(third) = 2 /\ third \in Seq(All)
      BY <1>2, <2>3
    <3>2. (front \o third)[Len(front) + 2] = third[2] /\ Len(front \o third) = Len(front) + 2
      <4>1. 2 \in 1..Len(third)
        BY <3>1
      <4>2. /\ Len(front \o third) = Len(front) + Len(third)
            /\ \A k \in 1..Len(third) : (front \o third)[Len(front) + k] = third[k]
        BY <2>1, <3>1, Joined
      <4> QED BY <3>1, <4>1, <4>2
    <3> QED BY <2>2, <3>2
  <2> QED BY <2>3
<1>7. \A k \in 1..Len(Parts(c)) : Parts(c)[k] \in All
  BY <1>5
<1>8. Len(Parts(c)) \in 2..5
  <2>1. \A m, n : (m = 2 \/ m = 3) /\ (n = 0 \/ n = 2) => m + n \in 2..5
    OBVIOUS
  <2>2. Len(first \o second) + Len(third) \in 2..5
    BY <1>2, <1>4, <2>1
  <2> QED BY <1>5, <2>2
<1> QED BY <1>2, <1>6, <1>7, <1>8 DEF All

\* How far the evidence has come, and what it knows by then.
Collected ==
    /\ run.got \in Seq(Outcomes) /\ Len(run.got) <= Len(Parts(call))
    /\ run.socket = "none" =>
         \A k \in DOMAIN run.got : Parts(call)[k] \in Captures => run.got[k] = "failed"
EvidenceInv == Evidence =>
    /\ Collected
    /\ pc \in {"begin", "list"} => obs.sent = <<>> /\ run.got = <<>>
    /\ pc = "list" => call.js
    /\ pc \in {"part", "listen", "report"} => AllGood \/ Lost
    /\ pc \in {"command", "listen"} => Len(run.got) < Len(Parts(call))
    /\ pc = "command" => Commanding /\ Part \notin Captures
    /\ pc = "listen" => run.socket # "none"
    /\ pc = "report" => Len(run.got) = Len(Parts(call))
    /\ Answering => AllGood

\* What a part ends with is added to what was collected.
LEMMA Collects ==
    ASSUME Evidence, Collected, Len(run.got) < Len(Parts(call)), NEW status \in Outcomes,
           call' = call, run'.socket = run.socket, run'.got = Append(run.got, status),
           run.socket = "none" /\ Part \in Captures => status = "failed"
    PROVE  Collected' /\ (Lost => Lost') /\ (status # "success" => Lost')
<1> DEFINE n == Len(run.got)
<1> DEFINE All == Outcomes
<1>0. run.got \in Seq(All) /\ status \in All
  BY DEF Collected
<1> HIDE DEF All
<1>1. /\ run'.got \in Seq(All) /\ Len(run'.got) = n + 1 /\ n \in Nat
      /\ DOMAIN run'.got = 1..(n + 1) /\ DOMAIN run.got = 1..n
      /\ run'.got[n + 1] = status
      /\ \A k \in 1..n : run'.got[k] = run.got[k]
  BY <1>0
<1>2. Part = Parts(call)[n + 1]
  BY DEF Part, Evidence
<1>3. Parts(call)' = Parts(call) /\ Len(Parts(call)) \in Nat
  BY PartsShape DEF Parts
<1>4. ASSUME run'.socket = "none", NEW k \in DOMAIN run'.got, Parts(call)[k] \in Captures
      PROVE  run'.got[k] = "failed"
  <2>1. CASE k = n + 1
    BY <1>1, <1>2, <1>4, <2>1
  <2>2. CASE k # n + 1
    <3>1. k \in DOMAIN run.got
      BY <1>1, <1>4, <2>2
    <3> QED BY <1>1, <1>4, <3>1 DEF Collected
  <2> QED BY <2>1, <2>2
<1>5. Len(run'.got) <= Len(Parts(call))
  BY <1>1, <1>3
<1>6. Collected'
  BY <1>1, <1>3, <1>4, <1>5 DEF Collected, All
<1>7. \A k \in DOMAIN run.got : k \in DOMAIN run'.got /\ run'.got[k] = run.got[k]
  BY <1>1
<1>8. Evidence'
  BY DEF Evidence
<1>9. Lost => Lost'
  BY <1>7, <1>8 DEF Lost
<1>10. n + 1 \in DOMAIN run'.got
  BY <1>1
<1>11. status # "success" => Lost'
  BY <1>1, <1>8, <1>10 DEF Lost
<1> QED BY <1>6, <1>9, <1>11

\* The evidence begins with nothing sent and nothing collected.
LEMMA EvidenceBegins == ASSUME Shape, EvidenceInv, Evidence, Begin PROVE EvidenceInv'
<1>1. call' = call /\ obs' = obs /\ pc = "begin" /\ Evidence'
  BY DEF Begin, Evidence
<1>2. obs.sent = <<>> /\ run.got = <<>> /\ AllGood /\ AllGood'
  BY <1>1 DEF EvidenceInv, AllGood
<1>3. CASE Guard(call) # NoAnswer
  <2>1. run' = run /\ pc' = "done"
    BY <1>3 DEF Begin
  <2>2. Collected' = Collected
    BY <1>1, <2>1 DEF Collected, Parts
  <2> QED BY <1>1, <1>2, <2>1, <2>2 DEF EvidenceInv, Answering
<1>4. CASE Guard(call) = NoAnswer
  <2>1. pc' \in {"list", "part"} /\ (pc' = "list" => call.js)
    <3>1. pc' = FirstDebugStep(call)
      BY <1>4 DEF Begin, Evidence, FirstStep, DebuggerTools, CommandTools
    <3>2. CASE call.js
      BY <3>1, <3>2 DEF FirstDebugStep, Evidence, Captures
    <3>3. CASE ~call.js
      BY <3>1, <3>3 DEF FirstDebugStep, Evidence, Captures
    <3> QED BY <3>2, <3>3
  <2>2. run'.got = <<>> /\ run'.socket = run.socket
    BY <1>2, <1>4 DEF Begin, Shape, Fields
  <2>3. Parts(call)' = Parts(call) /\ Len(Parts(call)) \in Nat
    BY <1>1, PartsShape DEF Parts
  <2>4. Collected'
    BY <1>2, <2>2, <2>3, PartsShape DEF Collected, Outcomes
  <2> QED BY <1>1, <1>2, <2>1, <2>2, <2>4 DEF EvidenceInv, Answering
<1> QED BY <1>3, <1>4

\* The request for the targets: refused, there is no socket.
LEMMA EvidenceLists == ASSUME Shape, SentType, EvidenceInv, Evidence, ListTargets
                       PROVE  EvidenceInv' /\ SentType'
<1>1. PICK answer \in {"refused", "none", "given"} :
        /\ obs' = [obs EXCEPT !.sent = Sent("json_list", answer # "refused")]
        /\ run' = [run EXCEPT !.socket = IF answer = "given" THEN "given" ELSE "none"]
        /\ pc' = "part" /\ UNCHANGED out
  BY DEF ListTargets, Evidence
<1>2. call' = call /\ pc = "list" /\ Evidence' /\ call.js
  BY DEF ListTargets, Evidence, EvidenceInv
<1>3. obs.sent = <<>> /\ run.got = <<>> /\ run'.got = <<>> /\ GoodOrNext
  BY <1>1, <1>2 DEF EvidenceInv, Shape, Fields, GoodOrNext
<1>4. PICK ok \in BOOLEAN : ok <=> answer # "refused"
  OBVIOUS
<1>5. obs'.sent = Sent("json_list", ok)
  <2>1. ok = (answer # "refused")
    BY <1>4
  <2> QED BY <1>1, <2>1 DEF Shape, Fields
<1>6. SentType' /\ (ok => AllGood')
  <2>1. "json_list" \in Cmd /\ call.tool # "type_into_element"
    BY DEF Cmd, Evidence
  <2> QED BY <1>2, <1>3, <1>5, <2>1, CommandSent
<1>7. ~ok => Lost'
  BY <1>1, <1>2, <1>4 DEF Lost, Shape, Fields
<1>8. Collected'
  <2>1. Parts(call)' = Parts(call)
    BY <1>2 DEF Parts
  <2> QED BY <1>3, <2>1, PartsShape DEF Collected, Outcomes
<1> QED BY <1>1, <1>2, <1>6, <1>7, <1>8 DEF EvidenceInv, Answering

\* A capture of the evidence ends.
LEMMA EvidenceSettles ==
    ASSUME Shape, SentType, EvidenceInv, Evidence, pc = "listen", call' = call,
           NEW status \in {"success", "failed"},
           run'.got = Append(run.got, status), run'.socket = run.socket, pc' = "part",
           \/ obs'.sent = obs.sent
           \/ status = "failed" /\ obs'.sent = Sent("socket", FALSE)
    PROVE  EvidenceInv' /\ SentType'
<1>1. Evidence' /\ call.tool # "type_into_element"
  BY DEF Evidence
<1>2. Collected' /\ (Lost => Lost') /\ (status # "success" => Lost')
  <2>1. status \in Outcomes
    BY DEF Outcomes
  <2> QED BY <2>1, Collects DEF EvidenceInv
<1>3. SentType' /\ (AllGood' \/ Lost')
  <2>1. CASE obs'.sent = obs.sent
    BY <1>1, <1>2, <2>1, NothingSent DEF EvidenceInv
  <2>2. CASE status = "failed" /\ obs'.sent = Sent("socket", FALSE)
    <3>1. "socket" \in Cmd
      BY DEF Cmd
    <3> QED BY <1>1, <1>2, <2>2, <3>1, CommandSent
  <2> QED BY <2>1, <2>2
<1> QED BY <1>1, <1>2, <1>3 DEF EvidenceInv, Answering

\* A capture that hears, or that ends.
LEMMA EvidenceListens == ASSUME Shape, SentType, EvidenceInv, Evidence, Hear \/ ListenEnds
                         PROVE  EvidenceInv' /\ SentType'
<1>1. pc = "listen" /\ call' = call /\ call.tool # "type_into_element" /\ Evidence'
  BY DEF Hear, HearLog, HearRequest, ListenEnds, Evidence
<1>2. ASSUME NEW heard, NEW enough, HeardOf(heard, enough), obs' = obs
      PROVE  EvidenceInv' /\ SentType'
  <2>1. CASE enough
    <3>1. run'.got = Append(run.got, "success") /\ run'.socket = run.socket /\ pc' = "part"
      BY <1>2, <2>1 DEF HeardOf, Settle, Evidence, Shape, Fields
    <3> QED BY <1>1, <1>2, <3>1, EvidenceSettles
  <2>2. CASE ~enough
    <3>1. run'.got = run.got /\ run'.socket = run.socket /\ pc' = pc /\ out' = out
      BY <1>2, <2>2 DEF HeardOf, Shape, Fields
    <3>2. SentType' /\ (AllGood <=> AllGood')
      BY <1>1, <1>2, NothingSent
    <3>3. Lost' = Lost /\ Collected' = Collected /\ Parts(call)' = Parts(call)
      BY <1>1, <3>1 DEF Lost, Evidence, Collected, Parts
    <3> QED BY <1>1, <3>1, <3>2, <3>3 DEF EvidenceInv, Answering
  <2> QED BY <2>1, <2>2
<1>3. CASE HearLog
  <2>1. obs' = obs /\ \E heard, enough : HeardOf(heard, enough)
    BY <1>3 DEF HearLog
  <2> QED BY <1>2, <2>1
<1>4. CASE HearRequest
  <2>1. obs' = obs /\ \E heard, enough : HeardOf(heard, enough)
    BY <1>4 DEF HearRequest
  <2> QED BY <1>2, <2>1
<1>5. CASE ListenEnds
  <2>1. PICK ok \in BOOLEAN :
          /\ Settle(IF ok THEN "success" ELSE "failed")
          /\ obs' = IF ok THEN obs ELSE [obs EXCEPT !.sent = Sent("socket", FALSE)]
    BY <1>5 DEF ListenEnds
  <2>2. PICK status \in {"success", "failed"} : status = IF ok THEN "success" ELSE "failed"
    OBVIOUS
  <2>3. run'.got = Append(run.got, status) /\ run'.socket = run.socket /\ pc' = "part"
    BY <2>1, <2>2 DEF Settle, Evidence, Shape, Fields
  <2>4. \/ obs'.sent = obs.sent
        \/ status = "failed" /\ obs'.sent = Sent("socket", FALSE)
    BY <2>1, <2>2 DEF Shape, Fields
  <2> QED BY <1>1, <2>3, <2>4, EvidenceSettles
<1> QED BY <1>3, <1>4, <1>5 DEF Hear

\* The next part, or the report.
LEMMA EvidenceMovesOn ==
    ASSUME Shape, SentType, call \in Calls, EvidenceInv, Evidence, NextPart
    PROVE  EvidenceInv' /\ SentType'
<1>1. /\ pc = "part" /\ call' = call /\ obs' = obs /\ Evidence' /\ call.tool # "type_into_element"
      /\ Parts(call)' = Parts(call)
  BY DEF NextPart, Evidence, Parts
<1>2. SentType' /\ (AllGood <=> AllGood') /\ (AllGood \/ Lost) /\ Collected
  BY <1>1, NothingSent DEF EvidenceInv
<1>3. Len(run.got) \in Nat /\ Len(Parts(call)) \in Nat
  BY <1>2, PartsShape DEF Collected
<1>4. CASE Len(run.got) = Len(Parts(call))
  <2>1. pc' = "report" /\ run' = run
    BY <1>4 DEF NextPart
  <2>2. Collected' = Collected /\ Lost' = Lost
    BY <1>1, <2>1 DEF Collected, Lost, Evidence
  <2> QED BY <1>1, <1>2, <1>4, <2>1, <2>2 DEF EvidenceInv, Answering
<1>5. CASE Len(run.got) # Len(Parts(call))
  <2>1. Len(run.got) < Len(Parts(call))
    BY <1>2, <1>3, <1>5 DEF Collected
  <2>2. Part \in {"get_logs", "get_crash_signals", "collect_diagnostics"} \cup Captures
    <3>1. Len(run.got) + 1 \in 1..Len(Parts(call))
      BY <1>3, <2>1
    <3> QED BY <1>1, <3>1, PartsShape DEF Part, Evidence
  <2>3. CASE Part \in {"get_logs", "get_crash_signals", "collect_diagnostics"}
    <3>1. Part \in CommandTools /\ Part \notin Captures
      BY <2>3 DEF CommandTools, Captures
    <3>2. run' = [run EXCEPT !.todo = Plan([call EXCEPT !.tool = Part]), !.verdict = "success"]
          /\ pc' = "command" /\ out' = out
      BY <1>5, <2>1, <3>1 DEF NextPart
    <3>3. [call EXCEPT !.tool = Part].tool = Part
      BY DeviceAssumption
    <3>4. \/ Plan([call EXCEPT !.tool = Part]) \in Seq(PlainStep)
             /\ Plan([call EXCEPT !.tool = Part]) # <<>>
          \/ Plan([call EXCEPT !.tool = Part]) = PhoneCrashPlan
      BY <2>3, <3>1, <3>3, PlanShape
    <3>5. /\ run'.todo = Plan([call EXCEPT !.tool = Part]) /\ run'.verdict = "success"
          /\ run'.got = run.got /\ run'.socket = run.socket
      BY <3>2 DEF Shape, Fields
    <3>6. Lost' = Lost /\ Collected' = Collected /\ Part' = Part
      BY <1>1, <3>5 DEF Lost, Collected, Evidence, Part
    <3>7. Commanding'
      BY <1>2, <3>4, <3>5, <3>6 DEF Commanding, Outcomes, PhoneCrashPlan
    <3> QED BY <1>1, <1>2, <2>1, <3>1, <3>2, <3>5, <3>6, <3>7 DEF EvidenceInv, Answering
  <2>4. CASE Part \in Captures /\ run.socket = "none"
    <3>1. Part \notin CommandTools
      BY <2>4 DEF CommandTools, Captures
    <3>2. run' = [run EXCEPT !.got = Append(@, "failed")] /\ pc' = pc /\ out' = out
      BY <1>5, <2>1, <2>4, <3>1 DEF NextPart
    <3>3. run'.got = Append(run.got, "failed") /\ run'.socket = run.socket
      BY <3>2 DEF Shape, Fields
    <3>4. Collected' /\ Lost'
      <4>1. "failed" \in Outcomes
        BY DEF Outcomes
      <4> QED BY <1>1, <1>2, <2>1, <3>3, <4>1, Collects
    <3> QED BY <1>1, <1>2, <3>2, <3>4 DEF EvidenceInv, Answering
  <2>5. CASE Part \in Captures /\ run.socket # "none"
    <3>1. Part \notin CommandTools
      BY <2>5 DEF CommandTools, Captures
    <3>2. \/ run' = run /\ pc' = "done" /\ out'.status = "threw"
          \/ run' = [run EXCEPT !.heard = Silence] /\ pc' = "listen" /\ out' = out
      BY <1>5, <2>1, <2>5, <3>1 DEF NextPart, Finish
    <3>3. run'.got = run.got /\ run'.socket = run.socket
      BY <3>2 DEF Shape, Fields
    <3>4. Lost' = Lost /\ Collected' = Collected
      BY <1>1, <3>3 DEF Lost, Collected, Evidence
    <3> QED BY <1>1, <1>2, <2>1, <2>5, <3>2, <3>3, <3>4 DEF EvidenceInv, Answering
  <2> QED BY <2>2, <2>3, <2>4, <2>5
<1> QED BY <1>4, <1>5

\* A command of a part.
LEMMA EvidenceCommands == ASSUME Shape, SentType, EvidenceInv, Evidence, Command
                          PROVE  EvidenceInv' /\ SentType'
<1>1. pc = "command" /\ call.tool # "type_into_element" /\ Commanding
  BY DEF Command, Evidence, EvidenceInv
<1>2. /\ SentType' /\ call' = call /\ run'.socket = run.socket
      /\ \/ pc' = pc /\ out' = out /\ run'.got = run.got /\ Commanding'
         \/ /\ run'.got = Append(run.got, run'.verdict) /\ run'.verdict \in Outcomes
            /\ run'.verdict = "success" => AllGood' \/ Lost
            /\ pc' = "part" /\ out' = out
  BY <1>1, CommandKeeps DEF Shape
<1>3. Evidence' /\ Parts(call)' = Parts(call)
  BY <1>2 DEF Evidence, Parts
<1>4. CASE pc' = pc /\ out' = out /\ run'.got = run.got /\ Commanding'
  <2>1. Collected' = Collected /\ Part' = Part
    BY <1>2, <1>3, <1>4 DEF Collected, Part, Evidence
  <2> QED BY <1>1, <1>2, <1>3, <1>4, <2>1 DEF EvidenceInv, Answering
<1>5. CASE /\ run'.got = Append(run.got, run'.verdict) /\ run'.verdict \in Outcomes
           /\ run'.verdict = "success" => AllGood' \/ Lost
           /\ pc' = "part" /\ out' = out
  <2>1. PICK status \in Outcomes : status = run'.verdict
    BY <1>5
  <2>2. Collected' /\ (Lost => Lost') /\ (status # "success" => Lost')
    <3>1. Collected /\ Len(run.got) < Len(Parts(call)) /\ Part \notin Captures
      BY <1>1 DEF EvidenceInv
    <3>2. run'.got = Append(run.got, status)
      BY <1>5, <2>1
    <3> QED BY <1>2, <3>1, <3>2, Collects
  <2>3. AllGood' \/ Lost'
    BY <1>5, <2>1, <2>2
  <2> QED BY <1>2, <1>3, <1>5, <2>2, <2>3 DEF EvidenceInv, Answering
<1> QED BY <1>2, <1>4, <1>5

\* The answer sums up what was collected.
LEMMA EvidenceReports == ASSUME Shape, SentType, EvidenceInv, Evidence, Report
                         PROVE  EvidenceInv' /\ SentType'
<1>1. pc = "report" /\ pc' = "done" /\ run' = run /\ call' = call /\ obs'.sent = obs.sent
  BY DEF Report, Finish, Shape, Fields
<1>2. SentType' /\ (AllGood <=> AllGood') /\ Evidence' /\ Collected' = Collected
  <2>1. call.tool # "type_into_element"
    BY DEF Evidence
  <2> QED BY <1>1, <2>1, NothingSent DEF Evidence, Collected, Parts
<1>3. out'.status = "success" => Verdict(run.got) = "success"
  BY DEF Report, Finish
<1>4. Verdict(run.got) = "success" => \A k \in DOMAIN run.got : run.got[k] = "success"
  BY DEF Verdict
<1>5. Lost => \E k \in DOMAIN run.got : run.got[k] # "success"
  <2>1. CASE call.js /\ run.socket = "none"
    <3>1. Len(run.got) = Len(Parts(call)) /\ Collected
      BY <1>1 DEF EvidenceInv
    <3>2. Len(Parts(call)) \in DOMAIN run.got
      <4>1. DOMAIN run.got = 1..Len(run.got)
        BY <3>1 DEF Collected
      <4>2. Len(Parts(call)) \in 2..5
        BY PartsShape
      <4>3. \A n \in 2..5 : n \in 1..n
        OBVIOUS
      <4>4. Len(Parts(call)) \in 1..Len(Parts(call))
        BY <4>2, <4>3
      <4> QED BY <3>1, <4>1, <4>4
    <3>3. run.got[Len(Parts(call))] = "failed"
      BY <2>1, <3>1, <3>2, PartsShape DEF Collected
    <3> QED BY <3>2, <3>3
  <2> QED BY <2>1 DEF Lost
<1>6. Answering' => AllGood'
  BY <1>1, <1>2, <1>3, <1>4, <1>5 DEF Answering, EvidenceInv
<1> QED BY <1>1, <1>2, <1>6 DEF EvidenceInv

\* No other step is one of the evidence, but for a drift.
LEMMA EvidenceSteps ==
    ASSUME Shape, SentType, call \in Calls, EvidenceInv, Evidence, Next
    PROVE  EvidenceInv' /\ SentType'
<1>1. pc \in Debugs \cup {"begin", "done"}
  BY DEF Shape, Placed, Evidence
<1>2. Begin \/ Command \/ DebugStep \/ Hear \/ Drift
  <2>1. ~Capture /\ ~UiToolStep
    BY <1>1 DEF Debugs, Capture, DumpUi, ReadUi, CaptureIos, UiToolStep, PolledWait, PauseWait,
       PolledStable, PauseStable, InspectedIos, InspectedAndroid, LookedQuery, LookedTarget,
       LookedScroll, Swipe, VerifyPoint, Tap, Type, VerifyTyped, ReadTyped
  <2>2. ~(LookedViewport \/ ScrollSwipe \/ LookedBefore \/ ProbeEdge \/ LookedEdge \/ Back
          \/ LookAfter \/ LookedAfter \/ Compare \/ Screenshot \/ LookedCrop)
    BY <1>1 DEF Debugs, LookedViewport, ScrollSwipe, LookedBefore, ProbeEdge, LookedEdge, Back,
       LookAfter, LookedAfter, Compare, Screenshot, LookedCrop
  <2> QED BY <2>1, <2>2 DEF Next, Step
<1>3. CASE Begin
  BY <1>3, EvidenceBegins DEF Begin, SentType
<1>4. CASE Command
  BY <1>4, EvidenceCommands
<1>5. CASE DebugStep \/ Hear
  BY <1>5, EvidenceLists, EvidenceMovesOn, EvidenceListens, EvidenceReports DEF DebugStep
<1>6. CASE Drift
  <2>1. call' = call /\ pc' = pc /\ run' = run /\ pc \notin {"begin", "done"} /\ obs'.sent = obs.sent
    BY <1>6 DEF Drift, Saw, Shape, Fields
  <2>2. SentType' /\ (AllGood <=> AllGood') /\ (GoodOrNext <=> GoodOrNext')
    BY <2>1, NothingSent DEF Evidence
  <2>3. Lost' = Lost /\ Collected' = Collected /\ Parts(call)' = Parts(call) /\ Part' = Part
        /\ Evidence'
    BY <2>1 DEF Lost, Collected, Evidence, Parts, Part
  <2>4. Commanding => Commanding'
    BY <2>1, <2>2, <2>3 DEF Commanding
  <2>5. obs.sent = <<>> => obs'.sent = <<>>
    BY <2>1
  <2> QED BY <2>1, <2>2, <2>3, <2>4, <2>5 DEF EvidenceInv, Answering
<1> QED BY <1>2, <1>3, <1>4, <1>5, <1>6

\* The tools that ask the debugger for one thing.
Asking == call.tool \in DebuggerTools /\ ~Evidence
AskInv == Asking =>
    /\ pc # "done" => obs.sent = <<>>
    /\ Answering => AllGood

LEMMA AskSteps == ASSUME Shape, SentType, AskInv, Asking, Next PROVE AskInv' /\ SentType'
<1>1. pc \in {"begin", "list", "listen", "done"} /\ call.tool # "type_into_element"
  BY DEF Shape, Placed, Asking, Evidence, DebuggerTools, Captures
<1>2. Begin \/ ListTargets \/ ListenEnds \/ Hear \/ Drift
  <2>1. ~Capture /\ ~UiToolStep /\ ~Command
    BY <1>1 DEF Capture, DumpUi, ReadUi, CaptureIos, UiToolStep, PolledWait, PauseWait,
       PolledStable, PauseStable, InspectedIos, InspectedAndroid, LookedQuery, LookedTarget,
       LookedScroll, Swipe, VerifyPoint, Tap, Type, VerifyTyped, ReadTyped, Command
  <2>2. ~(LookedViewport \/ ScrollSwipe \/ LookedBefore \/ ProbeEdge \/ LookedEdge \/ Back
          \/ LookAfter \/ LookedAfter \/ Compare \/ Screenshot \/ LookedCrop)
    BY <1>1 DEF LookedViewport, ScrollSwipe, LookedBefore, ProbeEdge, LookedEdge, Back,
       LookAfter, LookedAfter, Compare, Screenshot, LookedCrop
  <2>3. ~NextPart /\ ~Report
    BY <1>1 DEF NextPart, Report
  <2> QED BY <2>1, <2>2, <2>3 DEF Next, Step, DebugStep
<1>3. obs.sent = <<>> /\ AllGood /\ call' = call /\ Asking'
  <2>1. pc # "done" /\ call' = call
    BY <1>2 DEF Begin, ListTargets, ListenEnds, Hear, HearLog, HearRequest, Drift
  <2>2. obs.sent = <<>>
    BY <2>1 DEF AskInv
  <2> QED BY <2>1, <2>2 DEF AllGood, Asking, Evidence
<1>4. CASE obs'.sent = obs.sent
  BY <1>1, <1>3, <1>4, NothingSent DEF AskInv
<1>5. CASE ListTargets
  <2>1. PICK answer \in {"refused", "none", "given"} :
          /\ obs' = [obs EXCEPT !.sent = Sent("json_list", answer # "refused")]
          /\ IF answer = "refused" THEN Finish("failed", "configuration_error")
             ELSE Finish("success", "ok")
    BY <1>5 DEF ListTargets, Asking, Evidence
  <2>2. PICK ok \in BOOLEAN : ok = (answer # "refused")
    OBVIOUS
  <2>3. obs'.sent = Sent("json_list", ok) /\ "json_list" \in Cmd
    BY <2>1, <2>2 DEF Shape, Fields, Cmd
  <2>4. SentType' /\ (ok => AllGood')
    <3>1. GoodOrNext
      BY <1>3 DEF GoodOrNext
    <3> QED BY <1>1, <1>3, <2>3, <3>1, CommandSent
  <2>5. pc' = "done" /\ (~ok => ~Answering')
    <3>1. CASE answer = "refused"
      BY <2>1, <3>1 DEF Finish, Answering
    <3>2. CASE answer # "refused"
      BY <2>1, <2>2, <3>2 DEF Finish
    <3> QED BY <3>1, <3>2
  <2> QED BY <1>3, <2>4, <2>5 DEF AskInv
<1>6. CASE ListenEnds
  <2>1. PICK ok \in BOOLEAN :
          /\ Settle(IF ok THEN "success" ELSE "failed")
          /\ obs' = IF ok THEN obs ELSE [obs EXCEPT !.sent = Sent("socket", FALSE)]
    BY <1>6 DEF ListenEnds
  <2>2. CASE ok
    BY <1>4, <2>1, <2>2
  <2>3. CASE ~ok
    <3>1. obs'.sent = Sent("socket", FALSE) /\ "socket" \in Cmd
      BY <2>1, <2>3 DEF Shape, Fields, Cmd
    <3>2. SentType'
      BY <1>1, <1>3, <3>1, CommandSent
    <3>3. pc' = "done" /\ ~Answering'
      BY <2>1, <2>3 DEF Settle, Finish, Answering, Asking, Evidence
    <3> QED BY <1>3, <3>2, <3>3 DEF AskInv
  <2> QED BY <2>2, <2>3
<1>7. CASE Begin \/ Hear \/ Drift
  <2>1. obs'.sent = obs.sent
    BY <1>7 DEF Begin, Hear, HearLog, HearRequest, Drift, Saw, Shape, Fields
  <2> QED BY <1>4, <2>1
<1> QED BY <1>2, <1>5, <1>6, <1>7

-----------------------------------------------------------------------------
(* Exits: any call. *)
LEMMA DriftShape == ASSUME Shape, Drift PROVE Shape'
<1>1. call' = call /\ pc' = pc /\ run' = run
  BY DEF Drift
<1>2. DOMAIN dev' = DOMAIN dev /\ DOMAIN obs' = DOMAIN obs
  BY DEF Drift, Showing, Saw
<1>3. Fields' /\ Placed'
  BY <1>1, <1>2 DEF Shape, Fields, Placed, Evidence
<1> QED BY <1>3 DEF Shape

LEMMA StepShape == ASSUME Shape, Next PROVE Shape' /\ call' = call
<1>1. Shape'
  BY DriftShape, CaptureShape, BeginShape, UiToolShape, BackShape, CommandShape DEF Next, Step
<1>2. call' = call
  BY DEF Next, Drift, Hear, HearLog, HearRequest, Step, Begin, Capture, DumpUi, ReadUi,
     CaptureIos, UiToolStep, PolledWait, PauseWait, PolledStable, PauseStable, InspectedIos,
     InspectedAndroid, LookedQuery, LookedTarget, LookedScroll, Swipe, VerifyPoint, Tap, Type,
     VerifyTyped, ReadTyped, LookedViewport, ScrollSwipe, LookedBefore, ProbeEdge, LookedEdge,
     Back, LookAfter, LookedAfter, Compare, Screenshot, LookedCrop, Command, DebugStep,
     ListTargets, NextPart, ListenEnds, Report
<1> QED BY <1>1, <1>2

LEMMA UiSteps == ASSUME UiInv, Ui, Next, Shape' PROVE UiInv'
<1>1. pc \notin Debugs
  BY DEF UiInv, Shape, Placed, Ui
<1>2. ~Command /\ ~DebugStep /\ ~Hear
  BY <1>1 DEF Debugs, Command, DebugStep, ListTargets, NextPart, ListenEnds, Report, Hear, HearLog,
     HearRequest
<1>3. CASE UiToolStep
  BY <1>3, UiLooks, UiMoves, UiTaps, UiTypes DEF UiToolStep
<1>4. CASE ~UiToolStep
  BY <1>2, <1>4, UiRests, UiMoves DEF Next, Step
<1> QED BY <1>3, <1>4

\* What every call may rely on.
ExitInv == call \in Calls /\ UiInv /\ PlanInv /\ EvidenceInv /\ AskInv

LEMMA InitExits == Init => ExitInv
<1> SUFFICES ASSUME Init PROVE ExitInv
  OBVIOUS
<1>1. /\ pc = "begin" /\ obs.sent = <<>> /\ run.verdict = "success" /\ run.got = <<>>
      /\ run.focus = "none" /\ call \in Calls
  BY DEF Init
<1>2. SentType
  BY <1>1 DEF SentType
<1>3. UiExits
  BY <1>1 DEF UiExits, Unfocused, Answering
<1>4. Collected
  BY <1>1, PartsShape DEF Collected
<1> QED BY <1>1, <1>2, <1>3, <1>4, InitShape DEF ExitInv, UiInv, PlanInv, EvidenceInv, AskInv, Answering

LEMMA StepExits == ExitInv /\ [Next]_vars => ExitInv'
<1> SUFFICES ASSUME ExitInv, [Next]_vars PROVE ExitInv'
  OBVIOUS
<1>1. Shape /\ SentType
  BY DEF ExitInv, UiInv
<1>2. CASE Next
  <2>1. Shape' /\ call' = call
    BY <1>1, <1>2, StepShape
  <2>2. (Ui' <=> Ui) /\ (Planned' <=> Planned) /\ (Evidence' <=> Evidence) /\ (Asking' <=> Asking)
    BY <2>1 DEF Ui, Planned, Evidence, Asking
  <2>3. CASE Ui
    <3>1. UiInv'
      BY <1>2, <2>1, <2>3, UiSteps DEF ExitInv
    <3>2. ~Planned /\ ~Evidence /\ ~Asking
      BY <2>3 DEF Ui, Planned, Evidence, Asking, DebuggerTools
    <3> QED BY <2>1, <2>2, <3>1, <3>2 DEF ExitInv, PlanInv, EvidenceInv, AskInv
  <2>4. CASE Planned
    <3>1. PlanInv' /\ SentType'
      BY <1>1, <1>2, <2>4, PlanSteps DEF ExitInv
    <3>2. ~Ui /\ ~Evidence /\ ~Asking
      BY <2>4 DEF Ui, Planned, Evidence, Asking, DebuggerTools, Captures, CommandTools
    <3> QED BY <2>1, <2>2, <3>1, <3>2 DEF ExitInv, UiInv, EvidenceInv, AskInv
  <2>5. CASE Evidence
    <3>1. EvidenceInv' /\ SentType'
      BY <1>1, <1>2, <2>5, EvidenceSteps DEF ExitInv
    <3>2. ~Ui /\ ~Planned /\ ~Asking
      BY <2>5 DEF Ui, Planned, Evidence, Asking, DebuggerTools, CommandTools
    <3> QED BY <2>1, <2>2, <3>1, <3>2 DEF ExitInv, UiInv, PlanInv, AskInv
  <2>6. CASE Asking
    <3>1. AskInv' /\ SentType'
      BY <1>1, <1>2, <2>6, AskSteps DEF ExitInv
    <3>2. ~Ui /\ ~Planned /\ ~Evidence
      BY <2>6 DEF Ui, Planned, Evidence, Asking, DebuggerTools, Captures, CommandTools
    <3> QED BY <2>1, <2>2, <3>1, <3>2 DEF ExitInv, UiInv, PlanInv, EvidenceInv
  <2> QED BY <2>3, <2>4, <2>5, <2>6 DEF Ui, Planned, Asking
<1>3. CASE UNCHANGED vars
  <2>1. call' = call /\ pc' = pc /\ dev' = dev /\ run' = run /\ out' = out /\ obs' = obs
    BY <1>3 DEF vars
  <2>2. Shape' = Shape /\ SentType' = SentType
    BY <2>1 DEF Shape, Fields, Placed, Evidence, SentType
  <2>3. /\ \A i : Good(i)' <=> Good(i)
        /\ \A i, cmd : Again(i, cmd)' <=> Again(i, cmd)
    BY <2>1 DEF Good, Again, Excused, FallsBack, Physical
  <2>4. (AllGood' <=> AllGood) /\ (GoodOrNext' <=> GoodOrNext)
    BY <2>1, <2>3 DEF AllGood, GoodOrNext
  <2>5. UiInv'
    BY <2>1, <2>2, <2>3 DEF ExitInv, UiInv, UiExits, Ui, Unfocused, Answering
  <2>6. Lost' = Lost /\ Collected' = Collected /\ Part' = Part /\ Parts(call)' = Parts(call)
    BY <2>1 DEF Lost, Evidence, Collected, Part, Parts
  <2>7. Commanding => Commanding'
    BY <2>1, <2>4, <2>6 DEF Commanding
  <2>8. PlanInv' /\ AskInv'
    BY <2>1, <2>4, <2>7 DEF ExitInv, PlanInv, AskInv, Planned, Asking, Evidence, Answering
  <2>9. EvidenceInv'
    BY <2>1, <2>4, <2>6, <2>7 DEF ExitInv, EvidenceInv, Evidence, Answering
  <2> QED BY <2>1, <2>5, <2>8, <2>9 DEF ExitInv
<1> QED BY <1>2, <1>3

\* A call that answers with success has waited for no command that failed, but
\* for those that it repeated or did without.
THEOREM SuccessIsEarned == Spec => []SuccessMeansExit
<1>1. ExitInv => SuccessMeansExit
  <2> SUFFICES ASSUME ExitInv, Answering, NEW i \in DOMAIN obs.sent PROVE Good(i)
    BY DEF SuccessMeansExit, Answering, Good
  <2>1. CASE Ui
    BY <2>1 DEF ExitInv, UiInv, UiExits, Answering
  <2>2. CASE ~Ui
    <3>1. AllGood
      BY <2>2 DEF ExitInv, PlanInv, EvidenceInv, AskInv, Ui, Planned, Asking
    <3> QED BY <3>1 DEF AllGood
  <2> QED BY <2>1, <2>2
<1> QED BY InitExits, StepExits, <1>1, PTL DEF Spec

-----------------------------------------------------------------------------
(* Artifacts. *)
Leaving == call.tool \in Capturing /\ ~Unsaved /\ ~call.dry
SavedInv == Leaving =>
    /\ pc = "command" =>
         /\ run.todo \in Seq(PlainStep) /\ run.todo # <<>> /\ run.verdict \in Outcomes
         /\ run.verdict = "success" =>
              obs.saved \/ \E k \in DOMAIN run.todo : Saves(run.todo[k])
    /\ Answering => obs.saved

\* The plan of a tool that leaves an artifact has the step that writes it.
LEMMA SavingBegins == ASSUME Shape, PlanInv, SavedInv, Leaving, Begin PROVE SavedInv'
<1>1. call' = call /\ pc = "begin" /\ Planned /\ obs' = obs
  BY DEF Begin, Leaving, Capturing, Planned
<1>2. run.verdict = "success"
  BY <1>1 DEF PlanInv
<1>3. CASE Guard(call) # NoAnswer
  <2>1. Guard(call) = CommandGuard(call)
    BY DEF Guard, Scrolling, DebuggerTools, Captures, Leaving, Capturing, CommandTools
  <2>2. CommandGuard(call) = PlainGuard(call)
    BY DEF CommandGuard, Leaving, Capturing, CommandTools
  <2>3. PlainGuard(call).status # "success"
    BY DEF PlainGuard, Leaving, Misconfigured, Refuse, NoAnswer
  <2>4. pc' = "done" /\ out' = Guard(call)
    BY <1>3 DEF Begin
  <2> QED BY <2>1, <2>2, <2>3, <2>4 DEF SavedInv, Answering
<1>4. CASE Guard(call) = NoAnswer
  <2>1. pc' = "command"
    BY <1>1, <1>4 DEF Begin, FirstStep, Planned, CommandTools, DebuggerTools, Captures
  <2>2. run'.todo = Plan(call) /\ run'.verdict = "success"
    BY <1>1, <1>2, <1>4 DEF Begin, Planned, Shape, Fields
  <2>3. Plan(call) \in Seq(PlainStep) /\ \E k \in DOMAIN Plan(call) : Saves(Plan(call)[k])
    BY PlanSaves DEF Leaving, Unsaved
  <2>4. Plan(call) # <<>>
    BY <2>3
  <2> QED BY <2>1, <2>2, <2>3, <2>4 DEF SavedInv, Answering, Outcomes
<1> QED BY <1>3, <1>4

\* A plan that has succeeded has done that step.
LEMMA SavingGoesOn == ASSUME Shape, SavedInv, Leaving, Command PROVE SavedInv'
<1> DEFINE step == Head(run.todo)
<1>1. pc = "command" /\ call' = call /\ ~Evidence
  BY DEF Command, Leaving, Capturing, CommandTools, Evidence
<1>2. /\ run.todo \in Seq(PlainStep) /\ run.todo # <<>> /\ run.verdict \in Outcomes
      /\ run.verdict = "success" => obs.saved \/ \E k \in DOMAIN run.todo : Saves(run.todo[k])
  BY <1>1 DEF SavedInv
<1>3. PICK ok \in BOOLEAN, s \in Screens, remote \in BOOLEAN :
        /\ obs' = [Saw(obs, s) EXCEPT
             !.sent = IF step.fail = "ignore" THEN @ ELSE Sent(step.cmd, ok),
             !.saved = @ \/ Saved(step, ok)]
        /\ \E next \in After(step, ok) :
             /\ run' = [run EXCEPT !.todo = next.todo, !.verdict = next.verdict,
                  !.got = IF next.todo = <<>> THEN Append(@, next.verdict) ELSE @]
             /\ CASE next.todo # <<>> -> UNCHANGED <<pc, out>>
                  [] next.todo = <<>> /\ call.tool = "collect_debug_evidence" ->
                       pc' = "part" /\ UNCHANGED out
                  [] OTHER -> Finish(next.verdict, IF next.verdict = "success" THEN "ok"
                                                   ELSE "adapter_error")
  BY DEF Command
<1>4. PICK next \in After(step, ok) :
        /\ run' = [run EXCEPT !.todo = next.todo, !.verdict = next.verdict,
             !.got = IF next.todo = <<>> THEN Append(@, next.verdict) ELSE @]
        /\ CASE next.todo # <<>> -> UNCHANGED <<pc, out>>
             [] next.todo = <<>> /\ call.tool = "collect_debug_evidence" ->
                  pc' = "part" /\ UNCHANGED out
             [] OTHER -> Finish(next.verdict, IF next.verdict = "success" THEN "ok"
                                              ELSE "adapter_error")
  BY <1>3
<1> HIDE DEF step
<1>5. run'.todo = next.todo /\ run'.verdict = next.verdict
  BY <1>4 DEF Shape, Fields
<1>6. obs'.saved = (obs.saved \/ Saved(step, ok))
  BY <1>3 DEF Saw, Shape, Fields
<1>7. /\ next.todo \in Seq(PlainStep) /\ next.verdict \in Outcomes
      /\ next.verdict = "success" => run.verdict = "success"
  BY <1>2, <1>4, AfterPlain DEF step
<1>8. next.verdict = "success" => obs'.saved \/ \E k \in DOMAIN next.todo : Saves(next.todo[k])
  <2> SUFFICES ASSUME next.verdict = "success", ~obs.saved
               PROVE  Saved(step, ok) \/ \E k \in DOMAIN next.todo : Saves(next.todo[k])
    BY <1>6
  <2>1. PICK k \in DOMAIN run.todo : Saves(run.todo[k])
    BY <1>2, <1>7
  <2> QED BY <1>2, <1>4, <2>1, SavesStays DEF step
<1>9. CASE next.todo # <<>>
  <2>1. pc' = pc /\ out' = out
    BY <1>4, <1>9
  <2> QED BY <1>1, <1>5, <1>7, <1>8, <1>9, <2>1 DEF SavedInv, Answering
<1>10. CASE next.todo = <<>>
  <2>1. pc' = "done" /\ out'.status = next.verdict
    BY <1>1, <1>4, <1>10 DEF Finish, Evidence
  <2>2. next.verdict = "success" => obs'.saved
    BY <1>8, <1>10
  <2> QED BY <2>1, <2>2 DEF SavedInv, Answering
<1> QED BY <1>9, <1>10

SavingInv == ExitInv /\ SavedInv

LEMMA StepSaves == SavingInv /\ [Next]_vars => SavingInv'
<1> SUFFICES ASSUME SavingInv, [Next]_vars PROVE SavingInv'
  OBVIOUS
<1>1. ExitInv'
  BY StepExits DEF SavingInv
<1>2. SavedInv'
  <2>1. CASE UNCHANGED vars
    BY <2>1 DEF vars, SavingInv, SavedInv, Leaving, Unsaved, Answering
  <2>2. CASE Next /\ ~Leaving
    <3>1. call' = call
      BY <2>2, StepShape DEF SavingInv, ExitInv, UiInv
    <3> QED BY <2>2, <3>1 DEF SavedInv, Leaving, Unsaved
  <2>3. CASE Next /\ Leaving
    <3>1. Shape /\ Planned /\ PlanInv /\ SavedInv
      BY <2>3 DEF SavingInv, ExitInv, UiInv, Leaving, Capturing, Planned
    <3>2. Begin \/ Command \/ Drift
      BY <2>3, <3>1, PlanOnly
    <3>3. CASE Drift
      <4>1. call' = call /\ pc' = pc /\ run' = run /\ out' = out /\ obs'.saved = obs.saved
        BY <3>1, <3>3 DEF Drift, Saw, Shape, Fields
      <4> QED BY <3>1, <4>1 DEF SavedInv, Leaving, Unsaved, Answering
    <3> QED BY <2>3, <3>1, <3>2, <3>3, SavingBegins, SavingGoesOn
  <2> QED BY <2>1, <2>2, <2>3
<1> QED BY <1>1, <1>2 DEF SavingInv

\* A call that answers with success and names an artifact has written it.
THEOREM ArtifactsAreWritten == Spec => []ArtifactSaved
<1>1. Init => SavingInv
  BY InitExits DEF SavingInv, Init, SavedInv, Answering
<1>2. SavingInv => ArtifactSaved
  BY DEF SavingInv, SavedInv, Leaving, ArtifactSaved, Answered, Answering
<1> QED BY <1>1, <1>2, StepSaves, PTL DEF Spec

-----------------------------------------------------------------------------
(* What was typed. *)
Filling == call.tool = "type_into_element"
TypedInv == Filling => TypedIsObserved

\* The steps of a call that types into an element.
LEMMA FillingOnly ==
    ASSUME Shape, Filling, Next
    PROVE  Begin \/ Capture \/ LookedTarget \/ VerifyPoint \/ Tap \/ Type \/ VerifyTyped \/ ReadTyped
           \/ Drift
<1>1. /\ pc \in Typing \cup {"begin", "look", "read", "looked", "verify", "tap", "tap_again", "done"}
      /\ run.stage = "only"
  BY DEF Shape, Placed, Filling
<1>2. UiToolStep => LookedTarget \/ VerifyPoint \/ Tap \/ Type \/ VerifyTyped \/ ReadTyped
  BY <1>1 DEF UiToolStep, Typing, Filling, PolledWait, PauseWait, PolledStable, PauseStable,
     InspectedIos, InspectedAndroid, LookedQuery, LookedScroll, Scrolling, Swipe
<1>3. ~(LookedViewport \/ ScrollSwipe \/ LookedBefore \/ ProbeEdge \/ LookedEdge \/ Back
        \/ LookAfter \/ LookedAfter \/ Compare \/ Screenshot \/ LookedCrop)
  BY <1>1 DEF Typing, Filling, LookedViewport, ScrollSwipe, LookedBefore, ProbeEdge, LookedEdge, Back,
     LookAfter, LookedAfter, Compare, Screenshot, LookedCrop
<1>4. ~DebugStep /\ ~Hear /\ ~Command
  BY <1>1 DEF Typing, DebugStep, ListTargets, NextPart, ListenEnds, Report, Hear, HearLog, HearRequest,
     Command
<1> QED BY <1>2, <1>3, <1>4 DEF Next, Step

\* A success of such a call is the reading of the field, where there is one.
LEMMA FillingSteps == ASSUME Shape, TypedInv, Filling, Next PROVE TypedInv'
<1>1. call' = call /\ Filling' /\ Fields
  BY StepShape DEF Filling, Shape
<1>3. CASE ~Answering'
  BY <1>3 DEF TypedInv, TypedIsObserved, Answered, Answering
<1>4. CASE Answering'
  <2>1. CASE Type
    <3>1. run' = run
      BY <2>1 DEF Type
    <3>2. ~Confirmable
      <4> SUFFICES ASSUME Confirmable PROVE FALSE
        OBVIOUS
      <4>1. PICK result \in Attempt(pc) :
              IF result = "failed" /\ FallsBack(pc)
              THEN pc' = "type_again" /\ UNCHANGED out
              ELSE Typed(result)
        BY <2>1 DEF Type
      <4>2. result \in {"ok", "failed", "no_backend"}
        BY DEF Attempt
      <4>3. CASE result = "ok"
        BY <1>4, <4>1, <4>3 DEF Typed, TypedFinish, Finish, Filling, Answering
      <4>4. CASE result = "failed"
        BY <1>4, <4>1, <4>4 DEF Typed, TypedFinish, Finish, Filling, Answering
      <4>5. CASE result = "no_backend"
        BY <1>4, <4>1, <4>5 DEF Typed, TypedFinish, Finish, Filling, Answering
      <4> QED BY <4>2, <4>3, <4>4, <4>5
    <3>3. ~Confirmable'
      BY <1>1, <3>1, <3>2 DEF Confirmable
    <3> QED BY <3>3 DEF TypedInv, TypedIsObserved
  <2>2. CASE ReadTyped
    <3>1. dev' = dev /\ run' = run /\ call' = call
      BY <2>2 DEF ReadTyped
    <3>2. PICK node \in Described \cup {Nothing} : Verified(node) /\ HasValue(node)
      BY <1>4, <2>2 DEF ReadTyped, Finish, Answering
    <3>3. ASSUME Confirmable', run'.kind = "field"
          PROVE  (\E n \in Described : Verified(n) /\ Holds(n))'
      <4>1. node.locator # NoLocator /\ Holds(node)
        BY <3>1, <3>2, <3>3 DEF Confirmable, Verified, HasValue
      <4>2. node \in Described
        BY <3>2, <4>1 DEF Nothing
      <4>3. Described' = Described
        BY <3>1 DEF Described, NodesNow, PointNode, NodesAt, At
      <4>4. \A n : (Verified(n)' <=> Verified(n)) /\ (Holds(n)' <=> Holds(n))
        BY <3>1 DEF Verified, Holds, ValueAt
      <4> QED BY <3>2, <4>1, <4>2, <4>3, <4>4
    <3> QED BY <3>3 DEF TypedInv, TypedIsObserved
  <2>3. ~Begin
    <3>1. CASE Begin
      <4>1. Guard(call).status = "success"
        <5>1. FirstStep(call) # "done"
          BY DEF FirstStep, Filling, DebuggerTools, Captures, CommandTools
        <5> QED BY <1>4, <3>1, <5>1 DEF Begin, Answering
      <4>2. Guard(call) = ResolveGuard(call)
        BY DEF Guard, TypeIntoGuard, Filling, Scrolling, DebuggerTools, Captures
      <4>3. ResolveGuard(call).status # "success"
        BY DEF ResolveGuard, Misconfigured, Refuse, Unsupported, NoAnswer
      <4> QED BY <4>1, <4>2, <4>3
    <3> QED BY <3>1
  <2>4. ~Capture /\ ~Drift
    BY <1>4 DEF Capture, DumpUi, ReadUi, CaptureIos, Captured, Drift, Answering
  <2>5. ~LookedTarget
    BY <1>4 DEF LookedTarget, Filling, Finish, NextAfterAim, Answering
  <2>6. ~VerifyPoint /\ ~VerifyTyped
    BY <1>4 DEF VerifyPoint, VerifyTyped, Finish, Answering
  <2>7. ~Tap
    BY <1>4 DEF Tap, Tapped, Filling, Answering
  <2> QED BY <2>1, <2>2, <2>3, <2>4, <2>5, <2>6, <2>7, FillingOnly
<1> QED BY <1>3, <1>4

\* A success of typing into a field that shows its value is a value that was
\* read back from a field with the locator of the element that was resolved.
THEOREM TypingIsReadBack == Spec => []TypedIsObserved
<1> DEFINE Inv == Shape /\ TypedInv
<1>1. Init => Inv
  <2> SUFFICES ASSUME Init PROVE Inv
    OBVIOUS
  <2>1. pc = "begin"
    BY DEF Init
  <2> QED BY <2>1, InitShape DEF TypedInv, TypedIsObserved, Answered
<1>2. Inv /\ [Next]_vars => Inv'
  <2> SUFFICES ASSUME Inv, [Next]_vars PROVE Inv'
    OBVIOUS
  <2>1. CASE UNCHANGED vars
    <3>1. call' = call /\ pc' = pc /\ dev' = dev /\ run' = run /\ out' = out /\ obs' = obs
      BY <2>1 DEF vars
    <3>2. Shape'
      BY <3>1 DEF Shape, Fields, Placed, Evidence
    <3>3. TypedInv'
      <4>1. Described' = Described
        BY <3>1 DEF Described, NodesNow, PointNode, NodesAt, At
      <4>2. \A n : (Verified(n)' <=> Verified(n)) /\ (Holds(n)' <=> Holds(n))
        BY <3>1 DEF Verified, Holds, ValueAt
      <4> QED BY <3>1, <4>1, <4>2 DEF TypedInv, Filling, TypedIsObserved, Answered, Confirmable
    <3> QED BY <3>2, <3>3
  <2>2. CASE Next /\ ~Filling
    <3>1. Shape' /\ call' = call
      BY <2>2, StepShape
    <3> QED BY <2>2, <3>1 DEF TypedInv, Filling
  <2>3. CASE Next /\ Filling
    BY <2>3, StepShape, FillingSteps
  <2> QED BY <2>1, <2>2, <2>3
<1>3. Inv => TypedIsObserved
  BY DEF TypedInv, TypedIsObserved, Answered, Filling
<1> QED BY <1>1, <1>2, <1>3, PTL DEF Spec

-----------------------------------------------------------------------------
(* Taps. *)
\* Every set of naturals has a least member.
LEMMA LeastNat ==
    ASSUME NEW T, T \subseteq Nat, T # {}
    PROVE  \E x \in T : \A y \in T : x <= y
<1> DEFINE R == OpToRel(<, Nat)
<1>1. IsWellFoundedOn(R, Nat)
  BY NatLessThanWellFounded
<1>2. \E x \in T : \A y \in T : ~ (<<y, x>> \in R)
  <2> HIDE DEF R
  <2> QED BY <1>1, WFMin
<1>3. \A x \in Nat, y \in Nat : <<y, x>> \in R <=> y < x
  BY DEF OpToRel
<1> HIDE DEF R
<1>4. PICK x \in T : \A y \in T : ~ (<<y, x>> \in R)
  BY <1>2
<1>5. \A y \in T : x <= y
  <2> TAKE y \in T
  <2>1. x \in Nat /\ y \in Nat /\ ~ (y < x)
    BY <1>3, <1>4
  <2> QED BY <2>1
<1> QED BY <1>5

\* A screen's nodes, as far as they are ranked, and what the first sort compares.
Listed(nodes) ==
    /\ Len(nodes) \in Nat /\ DOMAIN nodes = 1..Len(nodes)
    /\ \A i \in DOMAIN nodes : nodes[i].bonus \in Int /\ nodes[i].far \in Nat
Keyed(a) == \A i \in 1..6 : a[i] \in Int

LEMMA NodesAreKeyed ==
    ASSUME NEW nodes, Listed(nodes), NEW i \in DOMAIN nodes, NEW field
    PROVE  Keyed(FirstKey(nodes, i, field)) /\ FinalScore(nodes, i, field) \in Int
<1>0. i \in Nat /\ nodes[i].bonus \in Int /\ nodes[i].far \in Nat
  BY DEF Listed
<1>1. NodeScore(nodes[i], field) \in Int
  <2>1. MatchScore(nodes[i].quality, field) \in Int
    BY DEF MatchScore
  <2> QED BY <1>0, <2>1 DEF NodeScore
<1>2. FinalScore(nodes, i, field) \in Int
  <2> DEFINE score == NodeScore(nodes[i], field)
             lost == CASE Obscured(nodes, i, field) -> IF nodes[i].clickable THEN 1 ELSE 2
                       [] ~Obscured(nodes, i, field) /\ BarelyVisible(nodes[i]) -> 1
                       [] OTHER -> 0
  <2>1. lost \in Int
    OBVIOUS
  <2>2. FinalScore(nodes, i, field) = score - lost
    BY DEF FinalScore
  <2> HIDE DEF score, lost
  <2>3. score \in Int
    BY <1>1 DEF score
  <2> QED BY <2>1, <2>2, <2>3
<1>3. \A k \in 1..6 : k = 1 \/ k = 2 \/ k = 3 \/ k = 4 \/ k = 5 \/ k = 6
  OBVIOUS
<1> QED BY <1>0, <1>1, <1>2, <1>3 DEF FirstKey, Keyed

\* The order of the first sort is strict ...
LEMMA AheadIsStrict ==
    ASSUME NEW a, NEW b, NEW c, Keyed(a), Keyed(b), Keyed(c)
    PROVE  ~Ahead(a, a) /\ (Ahead(a, b) /\ Ahead(b, c) => Ahead(a, c))
<1>1. ~Ahead(a, a)
  BY DEF Ahead, Keyed
<1>2. ASSUME Ahead(a, b), Ahead(b, c) PROVE Ahead(a, c)
  <2>1. PICK i \in 1..6 : a[i] > b[i] /\ \A j \in 1..(i - 1) : a[j] = b[j]
    BY <1>2 DEF Ahead
  <2>2. PICK k \in 1..6 : b[k] > c[k] /\ \A j \in 1..(k - 1) : b[j] = c[j]
    BY <1>2 DEF Ahead
  <2>3. CASE i < k
    <3>1. b[i] = c[i] /\ a[i] > c[i]
      BY <2>1, <2>2, <2>3 DEF Keyed
    <3>2. \A j \in 1..(i - 1) : a[j] = c[j]
      BY <2>1, <2>2, <2>3
    <3> QED BY <3>1, <3>2 DEF Ahead
  <2>4. CASE i = k
    <3>1. a[i] > c[i]
      BY <2>1, <2>2, <2>4 DEF Keyed
    <3>2. \A j \in 1..(i - 1) : a[j] = c[j]
      BY <2>1, <2>2, <2>4
    <3> QED BY <3>1, <3>2 DEF Ahead
  <2>5. CASE i > k
    <3>1. a[k] = b[k] /\ a[k] > c[k]
      BY <2>1, <2>2, <2>5 DEF Keyed
    <3>2. \A j \in 1..(k - 1) : a[j] = c[j]
      BY <2>1, <2>2, <2>5
    <3> QED BY <3>1, <3>2 DEF Ahead
  <2> QED BY <2>3, <2>4, <2>5
<1> QED BY <1>1, <1>2

\* ... and so is that of both.
LEMMA BeforeIsStrict ==
    ASSUME NEW nodes, Listed(nodes), NEW field,
           NEW i \in DOMAIN nodes, NEW j \in DOMAIN nodes, NEW k \in DOMAIN nodes
    PROVE  /\ ~Before(nodes, i, i, field)
           /\ Before(nodes, i, j, field) /\ Before(nodes, j, k, field) => Before(nodes, i, k, field)
<1> DEFINE K(n) == FirstKey(nodes, n, field)
           S(n) == FinalScore(nodes, n, field)
<1>1. Keyed(K(i)) /\ Keyed(K(j)) /\ Keyed(K(k)) /\ S(i) \in Int /\ S(j) \in Int /\ S(k) \in Int
  BY NodesAreKeyed
<1>2. \A m, n : Before(nodes, m, n, field) <=> S(m) > S(n) \/ (S(m) = S(n) /\ Ahead(K(m), K(n)))
  BY DEF Before
<1> HIDE DEF K, S
<1>3. ~Ahead(K(i), K(i)) /\ (Ahead(K(i), K(j)) /\ Ahead(K(j), K(k)) => Ahead(K(i), K(k)))
  BY <1>1, AheadIsStrict
<1> QED BY <1>1, <1>2, <1>3

\* So one match comes first: nothing is above it.
LEMMA FirstOfMatches ==
    ASSUME NEW nodes, Listed(nodes), NEW field, Matches(nodes) # {}
    PROVE  \E i \in Matches(nodes) : Cardinality(Above(nodes, i, field)) = 0
<1> DEFINE M == Matches(nodes)
           A(i) == Above(nodes, i, field)
           C(i) == Cardinality(A(i))
           B(i, j) == Before(nodes, i, j, field)
<1>1. M \subseteq DOMAIN nodes /\ IsFiniteSet(M)
  <2>1. M \subseteq 1..Len(nodes) /\ M \subseteq DOMAIN nodes
    BY DEF Matches, Listed
  <2>2. IsFiniteSet(1..Len(nodes))
    BY FS_Interval DEF Listed
  <2> HIDE DEF M
  <2> QED BY <2>1, <2>2, FS_Subset
<1>2. \A i, j, k \in M : ~B(i, i) /\ (B(i, j) /\ B(j, k) => B(i, k))
  <2> TAKE i, j, k \in M
  <2>1. i \in DOMAIN nodes /\ j \in DOMAIN nodes /\ k \in DOMAIN nodes
    BY <1>1
  <2> QED BY <2>1, BeforeIsStrict
<1>4. \A i \in M : A(i) \subseteq M /\ IsFiniteSet(A(i)) /\ C(i) \in Nat
  <2> TAKE i \in M
  <2>1. A(i) \subseteq M
    BY DEF Above
  <2>2. IsFiniteSet(A(i))
    <3> HIDE DEF M, A
    <3> QED BY <1>1, <2>1, FS_Subset
  <2>3. C(i) \in Nat
    <3> HIDE DEF A
    <3> QED BY <2>2, FS_CardinalityType
  <2> QED BY <2>1, <2>2, <2>3
<1>5. \A i, j \in M : j \in A(i) <=> B(j, i)
  BY DEF Above
<1> DEFINE T == {C(i) : i \in M}
<1>6. T \subseteq Nat /\ T # {}
  <2> HIDE DEF C
  <2> QED BY <1>4
<1>7. PICK i \in M : \A j \in M : C(i) <= C(j)
  <2>1. PICK x \in T : \A y \in T : x <= y
    <3> HIDE DEF T
    <3> QED BY <1>6, LeastNat
  <2> HIDE DEF C
  <2> QED BY <2>1
<1>8. A(i) = {}
  <2> SUFFICES ASSUME NEW j \in A(i) PROVE FALSE
    OBVIOUS
  <2>1. j \in M
    BY <1>4
  <2>2. A(j) \subseteq A(i)
    <3> SUFFICES ASSUME NEW k \in A(j) PROVE k \in A(i)
      OBVIOUS
    <3>1. k \in M
      BY <1>4, <2>1
    <3> HIDE DEF M, A, B, C
    <3> QED BY <1>2, <1>5, <2>1, <3>1
  <2>3. j \notin A(j)
    <3> HIDE DEF M, A, B, C
    <3> QED BY <1>2, <1>5, <2>1
  <2>4. C(j) <= C(i) /\ (C(i) = C(j) => A(i) = A(j))
    <3> HIDE DEF B, A, M
    <3> QED BY <1>4, <2>2, FS_Subset
  <2>5. C(i) = C(j)
    <3> HIDE DEF C
    <3> QED BY <1>4, <1>7, <2>1, <2>4
  <2> QED BY <2>3, <2>4, <2>5
<1>9. C(i) = 0
  BY <1>8, FS_EmptySet
<1> QED BY <1>7, <1>9

\* Only a first match that has bounds is resolved.
LEMMA FirstIsResolved ==
    ASSUME NEW result, NEW field, Resolution(result, field).status = "resolved"
    PROVE  /\ result.total # 0 /\ result.matches[1].node.bounds
           /\ Resolution(result, field).node = result.matches[1].node
<1>1. CASE result.total = 0
  BY <1>1 DEF Resolution
<1>2. CASE result.total # 0 /\ result.total > 1
  BY <1>2 DEF Resolution, Dominates
<1>3. CASE result.total # 0 /\ ~(result.total > 1)
  BY <1>3 DEF Resolution
<1> QED BY <1>1, <1>2, <1>3

\* What a query resolves to is a node of the screen that has bounds.
LEMMA ResolvedIsNode ==
    ASSUME NEW nodes, Listed(nodes), NEW query, query.limit \in Nat,
           Resolution(QueryResult(nodes, query), query.field).status = "resolved"
    PROVE  \E i \in DOMAIN nodes :
              /\ nodes[i].bounds
              /\ Resolution(QueryResult(nodes, query), query.field).node = nodes[i]
<1> DEFINE result == QueryResult(nodes, query)
           ranked == Ranked(nodes, query.field)
           S == {ranked[k] : k \in DOMAIN ranked}
           N == Cardinality(Matches(nodes))
<1>1. result.total # 0 /\ result.matches[1].node.bounds
      /\ Resolution(result, query.field).node = result.matches[1].node
  BY FirstIsResolved
<1>2. Matches(nodes) \subseteq DOMAIN nodes /\ IsFiniteSet(Matches(nodes)) /\ N \in Nat
  <2>1. Matches(nodes) \subseteq 1..Len(nodes) /\ Matches(nodes) \subseteq DOMAIN nodes
    BY DEF Matches, Listed
  <2>2. IsFiniteSet(1..Len(nodes))
    BY FS_Interval DEF Listed
  <2> QED BY <2>1, <2>2, FS_Subset, FS_CardinalityType
<1>3. DOMAIN ranked = 1..N /\ ranked = [k \in 1..N |-> ranked[k]]
  BY DEF Ranked
<1>4. ranked \in Seq(S) /\ Len(ranked) = N
  <2> HIDE DEF ranked, N
  <2>1. ranked \in [1..N -> S]
    BY <1>3
  <2> HIDE DEF S
  <2> QED BY <1>2, <2>1
<1>5. result.total = N /\ N > 0
  <2>1. result.total = N
    BY DEF QueryResult
  <2> HIDE DEF ranked, result, N
  <2> QED BY <1>1, <1>2, <2>1
<1>6. result.matches[1] = ranked[1]
  <2>1. result.matches = IF query.limit = 0 \/ query.limit >= Len(ranked)
                         THEN ranked ELSE SubSeq(ranked, 1, query.limit)
    BY DEF QueryResult
  <2> HIDE DEF ranked, result, N, S
  <2>2. CASE query.limit = 0 \/ query.limit >= Len(ranked)
    BY <2>1, <2>2
  <2>3. CASE ~(query.limit = 0 \/ query.limit >= Len(ranked))
    <3>1. SubSeq(ranked, 1, query.limit)[1] = ranked[1]
      BY <1>2, <1>4, <1>5, <2>3
    <3> QED BY <2>1, <2>3, <3>1
  <2> QED BY <2>2, <2>3
<1>7. \E i \in Matches(nodes) : ranked[1].node = nodes[i]
  <2> DEFINE Top(i) == Cardinality(Above(nodes, i, query.field)) = 0
             top == CHOOSE i \in Matches(nodes) : Top(i)
  <2>1. Matches(nodes) # {}
    BY <1>2, <1>5, FS_EmptySet
  <2>2. \E i \in Matches(nodes) : Top(i)
    BY <2>1, FirstOfMatches
  <2>3. top \in Matches(nodes)
    <3> HIDE DEF Top
    <3> QED BY <2>2
  <2>4. ranked[1].node = nodes[top]
    <3>1. 1 \in 1..N /\ 1 - 1 = 0
      BY <1>2, <1>5
    <3> QED BY <3>1 DEF Ranked
  <2> HIDE DEF top
  <2> QED BY <2>3, <2>4
<1> HIDE DEF ranked, result
<1>8. PICK i \in Matches(nodes) : ranked[1].node = nodes[i]
  BY <1>7
<1>9. i \in DOMAIN nodes /\ nodes[i].bounds /\ Resolution(result, query.field).node = nodes[i]
  BY <1>1, <1>2, <1>6, <1>8
<1> QED BY <1>9 DEF result

\* The tools that resolve a selector.
Targeting == call.tool \in Resolving \cup Scrolling
\* What the call is about to act on is over its place; or, where that can be
\* confirmed, its locator is what a look there can be told.
Over == {Ref(node) : node \in Reached}
Named == {node.locator : node \in Described}
There == IF Confirmable THEN run.target.locator \in Named ELSE run.target \in Over
\* Before a tool has a target, and while it may get another.
Seeking == pc \in {"begin", "look", "read", "looked", "swipe"} /\ run.stage \in {"only", "before"}
Doubtful == obs.moved \/ obs.stale
\* Where such a call can be; only one that goes back waits for the screen after.
TargetPlace ==
    /\ pc \notin {"screenshot", "back", "probe_edge"}
    /\ run.stage \in {"only", "before", "stable", "after"}
    /\ call.tool # "back_selector" => run.stage = "only"
    /\ pc \in {"pause", "after", "compare"} => run.stage \in {"stable", "after"}
\* What it saw last, and what it is about to act on, is what is shown, unless
\* there is an excuse.
Aimed ==
    /\ dev.shown \in Screens
    /\ pc = "read" /\ run.wrote => obs.moved \/ dev.file = dev.shown
    /\ pc = "looked" /\ cap.status = "ok" => Doubtful \/ Shows(cap.shown, dev.shown, TRUE)
    /\ pc = "verify" => Confirmable
    /\ pc \in {"tap", "tap_again"} => Doubtful \/ There
TapInv == Targeting =>
    /\ TargetPlace /\ Aimed /\ TapsAtResolved
    /\ \E S : obs.hits \in Seq(S)
    /\ pc = "begin" \/ Seeking => obs.hits = <<>>

\* What a capture of the screen resolves to is a node of the screen.
LEMMA FoundIsNode ==
    ASSUME call \in Calls, dev.shown \in Screens, Shows(cap.shown, dev.shown, TRUE),
           Found.status = "resolved"
    PROVE  \E m \in NodesAt(Content[dev.shown].nodes, Found.node.place) : Ref(m) = Ref(Found.node)
<1> DEFINE s == cap.shown
           q == call.query
           nodes == ContentOf(s).nodes
           whole == Content[dev.shown].nodes
<1>1. s \in Contents /\ (s # NoDump => s \in DOMAIN Content)
  BY DeviceAssumption DEF Shows, Contents
<1>2. q \in Queries /\ q.limit \in Nat
  BY DeviceAssumption DEF Queries
<1>3. Listed(nodes) /\ (s = NoDump => nodes = <<>>)
  <2>1. CASE s = NoDump
    BY <2>1 DEF ContentOf, Listed
  <2>2. CASE s # NoDump
    BY <1>1, <2>2, ContentAssumption DEF ContentOf, Listed
  <2> QED BY <2>1, <2>2
<1>4. Found = Resolution(QueryResult(nodes, q), q.field)
  <2>2. Answers[s][q] = QueryResult(nodes, q)
    BY <1>1, <1>2 DEF Answers
  <2>3. Resolved[s][q] = Resolution(Answers[s][q], q.field)
    BY <1>1, <1>2 DEF Resolved
  <2>4. Found = Resolved[s][q]
    BY DEF Found
  <2> HIDE DEF s, q, nodes
  <2> QED BY <2>2, <2>3, <2>4
<1>5. PICK i \in DOMAIN nodes : nodes[i].bounds /\ Found.node = nodes[i]
  <2> HIDE DEF nodes, s, q
  <2> QED BY <1>2, <1>3, <1>4, ResolvedIsNode
<1>6. s # NoDump /\ nodes = Content[s].nodes
  <2>1. s # NoDump
    BY <1>3, <1>5
  <2> QED BY <2>1 DEF ContentOf
<1>7. /\ i \in DOMAIN whole /\ whole[i].bounds
      /\ whole[i].place = nodes[i].place /\ whole[i].locator = nodes[i].locator
  <2>1. CASE s = dev.shown
    BY <1>5, <1>6, <2>1
  <2>2. CASE s \in Cuts[dev.shown]
    BY <1>5, <1>6, <2>2, CutAssumption DEF SameNode
  <2> QED BY <1>6, <2>1, <2>2 DEF Shows
<1>8. whole[i].place \in whole[i].covers
  <2>1. dev.shown \in DOMAIN Content
    BY DeviceAssumption
  <2> QED BY <1>7, <2>1, ContentAssumption
<1>9. whole[i] \in NodesAt(whole, whole[i].place)
  BY <1>7, <1>8 DEF NodesAt, At
<1>10. Ref(whole[i]) = Ref(nodes[i])
  BY <1>7 DEF Ref
<1> HIDE DEF nodes, whole
<1>11. whole[i] \in NodesAt(whole, Found.node.place) /\ Ref(whole[i]) = Ref(Found.node)
  BY <1>5, <1>7, <1>9, <1>10
<1> QED BY <1>11 DEF whole

\* So it is over the point that is aimed at.
LEMMA AimIsThere ==
    ASSUME Fields, call \in Calls, dev.shown \in Screens, Shows(cap.shown, dev.shown, TRUE),
           Found.status = "resolved", Aim(Found.node), dev' = dev
    PROVE  (run.target \in Over)'
<1>1. run'.target = Ref(Found.node) /\ run'.target.place = Found.node.place
  BY DEF Aim, Fields, Ref
<1>2. PICK m \in NodesAt(Content[dev.shown].nodes, Found.node.place) : Ref(m) = Ref(Found.node)
  BY FoundIsNode
<1>3. Reached' = NodesAt(Content[dev.shown].nodes, Found.node.place)
  BY <1>1 DEF Reached, NodesNow, NodesAt, At
<1>4. \A n \in Reached' : Ref(n) \in Over'
  BY DEF Over, Ref
<1> QED BY <1>1, <1>2, <1>3, <1>4

\* The steps of such a call.
LEMMA TargetingOnly ==
    ASSUME Shape, TapInv, Targeting, Next
    PROVE  \/ Begin \/ Capture \/ LookedTarget \/ LookedScroll \/ Swipe \/ VerifyPoint \/ Tap \/ Type
           \/ VerifyTyped \/ ReadTyped \/ Drift
           \/ PolledStable \/ PauseStable \/ LookedBefore \/ LookAfter \/ LookedAfter \/ Compare
<1>1. pc \notin Debugs
  BY DEF Shape, Placed, Targeting, Resolving, Scrolling, CommandTools, DebuggerTools, Captures
<1>2. ~DebugStep /\ ~Hear /\ ~Command
  BY <1>1 DEF Debugs, DebugStep, ListTargets, NextPart, ListenEnds, Report, Hear, HearLog, HearRequest,
     Command
<1>3. ~PolledWait /\ ~PauseWait /\ ~InspectedIos /\ ~InspectedAndroid /\ ~LookedQuery
      /\ ~LookedViewport /\ ~ScrollSwipe /\ ~LookedCrop /\ ~Screenshot
      /\ ~LookedEdge /\ ~Back /\ ~ProbeEdge
  BY DEF PolledWait, PauseWait, InspectedIos, InspectedAndroid, LookedQuery, LookedViewport,
     ScrollSwipe, LookedCrop, Screenshot, LookedEdge, Back, ProbeEdge, TapInv, TargetPlace, Targeting, Resolving, Scrolling
<1> QED BY <1>2, <1>3 DEF Next, Step, UiToolStep

\* A target that stays, and hits that stay, stay as they were.
LEMMA HitsStay ==
    ASSUME TapsAtResolved, call' = call, obs'.hits = obs.hits,
           obs.hits = <<>> \/ run'.target = run.target
    PROVE  TapsAtResolved'
BY DEF TapsAtResolved, Confirmable

\* What is there stays while the screen does.
LEMMA ThereStays ==
    ASSUME There, call' = call, dev'.shown = dev.shown, run'.target = run.target
    PROVE  There'
<1>1. Reached' = Reached /\ Described' = Described
  BY DEF Reached, Described, NodesNow, PointNode, NodesAt, At
<1>2. Over' = Over /\ Named' = Named
  BY <1>1 DEF Over, Named, Ref
<1> QED BY <1>2 DEF There, Confirmable

LEMMA BeginTargets == ASSUME Shape, TapInv, Targeting, call \in Calls, Begin PROVE TapInv'
<1>1. /\ call' = call /\ dev' = dev /\ cap' = cap /\ obs' = obs /\ pc = "begin" /\ obs.hits = <<>>
      /\ Targeting' /\ Fields
  BY DEF Begin, TapInv, Targeting, Shape
<1>2. pc' \in {"look", "done"}
  BY DEF Begin, FirstStep, Targeting, Resolving, Scrolling, CommandTools, DebuggerTools, Captures
<1>3. run'.stage = run.stage \/ (call.tool = "back_selector" /\ run'.stage = "before")
  BY <1>1 DEF Begin, Fields, Targeting, Resolving, Scrolling
<1>4. TargetPlace' /\ Aimed'
  BY <1>1, <1>2, <1>3 DEF TapInv, TargetPlace, Aimed
<1>5. TapsAtResolved'
  BY <1>1, HitsStay DEF TapInv
<1> QED BY <1>1, <1>4, <1>5 DEF TapInv

LEMMA CaptureTargets == ASSUME Shape, TapInv, Targeting, Capture PROVE TapInv'
<1>1. call' = call /\ Targeting' /\ Fields
  BY DEF Capture, DumpUi, ReadUi, CaptureIos, Targeting, Shape
<1>2. CASE DumpUi
  <2>1. PICK wrote \in BOOLEAN :
          /\ run'.wrote = wrote /\ run'.stage = run.stage /\ run'.target = run.target
          /\ dev' = [dev EXCEPT !.file = IF wrote THEN dev.shown ELSE @]
          /\ obs' = [obs EXCEPT !.moved = ~wrote /\ @]
    BY <1>1, <1>2 DEF DumpUi, Fields
  <2>2. /\ dev'.shown = dev.shown /\ (wrote => dev'.file = dev.shown)
        /\ obs'.hits = obs.hits /\ pc' = "read" /\ pc = "look"
    BY <1>1, <1>2, <2>1 DEF DumpUi, Fields
  <2>3. TapsAtResolved'
    BY <1>1, <2>1, <2>2, HitsStay DEF TapInv
  <2> QED BY <1>1, <2>1, <2>2, <2>3 DEF TapInv, TargetPlace, Aimed, Seeking
<1>3. CASE ReadUi
  <2>1. PICK readable, xml \in BOOLEAN, read \in Readings :
         LET status == ReadOutcome(readable, xml)
             shown  == IF status = "ok" /\ readable THEN read ELSE NoDump
         IN  /\ ~readable => ~xml /\ read = NoDump
             /\ Captured(status, shown)
             /\ obs' = [obs EXCEPT !.took = Recent(@, [status |-> status, shown |-> shown]),
                                   !.cut = readable /\ (shown = NoDump \/ shown # dev.file),
                                   !.stale = @ \/ (shown # NoDump /\ ~run.wrote)]
    BY <1>3 DEF ReadUi
  <2> DEFINE status == ReadOutcome(readable, xml)
             shown  == IF status = "ok" /\ readable THEN read ELSE NoDump
  <2>2. /\ dev' = dev /\ run' = run /\ pc = "read" /\ pc' = "looked"
        /\ obs'.hits = obs.hits /\ obs'.moved = obs.moved
        /\ obs'.stale = (obs.stale \/ (shown # NoDump /\ ~run.wrote))
    BY <1>1, <1>3, <2>1 DEF ReadUi, Captured, Fields
  <2>3. cap'.shown = shown
    BY <2>1 DEF Captured
  <2>4. shown = NoDump \/ shown = dev.file \/ shown \in Cuts[dev.file]
    BY DEF Readings
  <2> HIDE DEF shown
  <2>5. Doubtful' \/ Shows(cap'.shown, dev'.shown, TRUE)
    <3>1. CASE shown = NoDump
      BY <2>3, <3>1 DEF Shows
    <3>2. CASE shown # NoDump /\ ~run.wrote
      BY <2>2, <3>2 DEF Doubtful
    <3>3. CASE shown # NoDump /\ run.wrote
      <4>1. obs.moved \/ dev.file = dev.shown
        BY <2>2, <3>3 DEF TapInv, Aimed
      <4> QED BY <2>2, <2>3, <2>4, <3>3, <4>1 DEF Shows, Doubtful
    <3> QED BY <3>1, <3>2, <3>3
  <2>6. (pc = "looked" /\ cap.status = "ok" => Doubtful \/ Shows(cap.shown, dev.shown, TRUE))'
    BY <2>5 DEF Shows
  <2>7. TapsAtResolved'
    BY <1>1, <2>2, HitsStay DEF TapInv
  <2>8. dev.shown \in Screens
    BY DEF TapInv, Aimed
  <2>9. Aimed' /\ TargetPlace'
    BY <1>1, <2>2, <2>6, <2>8 DEF TapInv, TargetPlace, Aimed
  <2> QED BY <1>1, <2>2, <2>7, <2>9 DEF TapInv, Seeking
<1>4. CASE CaptureIos
  <2>1. PICK status \in {"ok", "failed"}, shown \in {dev.shown, NoDump} :
         /\ Captured(status, shown)
         /\ obs' = [obs EXCEPT !.took = Recent(@, [status |-> status, shown |-> shown]),
                               !.cut = status = "ok" /\ shown = NoDump,
                               !.moved = status # "ok" /\ @]
    BY <1>4 DEF CaptureIos
  <2>2. /\ dev' = dev /\ run' = run /\ pc = "look" /\ pc' = "looked"
        /\ obs'.hits = obs.hits
    BY <1>1, <1>4, <2>1 DEF CaptureIos, Captured, Fields
  <2>3. Shows(cap'.shown, dev'.shown, TRUE)
    BY <2>1, <2>2 DEF Captured, Shows
  <2>4. (pc = "looked" /\ cap.status = "ok" => Doubtful \/ Shows(cap.shown, dev.shown, TRUE))'
    BY <2>3 DEF Shows
  <2>5. TapsAtResolved'
    BY <1>1, <2>2, HitsStay DEF TapInv
  <2>6. Aimed' /\ TargetPlace'
    BY <1>1, <2>2, <2>4 DEF TapInv, TargetPlace, Aimed
  <2> QED BY <1>1, <2>2, <2>5, <2>6 DEF TapInv, Seeking
<1> QED BY <1>2, <1>3, <1>4 DEF Capture

\* A target is taken from the screen that was captured.
LEMMA AimTargets ==
    ASSUME Shape, TapInv, Targeting, call \in Calls, call' = call, dev' = dev, obs' = obs,
           pc = "looked", cap.status = "ok", run.stage = "only", Found.status = "resolved",
           Aim(Found.node), pc' = NextAfterAim(Found.node)
    PROVE  TapInv'
<1>1. Targeting' /\ Fields
  BY DEF Targeting, Shape
<1>2. /\ run'.target = Ref(Found.node) /\ run'.stage = run.stage /\ obs.hits = <<>>
      /\ pc' \in {"verify", "tap"}
  BY <1>1 DEF Aim, Fields, TapInv, Seeking, NextAfterAim
<1>3. Confirmable' <=> pc' = "verify"
  BY <1>2 DEF NextAfterAim, Confirmable, Ref
<1>4. Doubtful \/ (run.target \in Over)'
  BY <1>1, AimIsThere DEF TapInv, Aimed
<1>5. TapsAtResolved'
  BY <1>2, HitsStay DEF TapInv
<1>6. Doubtful' <=> Doubtful
  BY DEF Doubtful
<1>7. Aimed'
  <2>1. pc' = "tap" => Doubtful' \/ There'
    BY <1>3, <1>4, <1>6 DEF There
  <2> QED BY <1>2, <1>3, <2>1 DEF TapInv, Aimed
<1> QED BY <1>1, <1>2, <1>5, <1>7 DEF TapInv, TargetPlace

LEMMA LooksTarget ==
    ASSUME Shape, TapInv, Targeting, call \in Calls, LookedTarget \/ LookedScroll
    PROVE  TapInv'
<1>1. call' = call /\ dev' = dev /\ obs' = obs /\ cap' = cap /\ pc = "looked" /\ Targeting' /\ Fields
  BY DEF LookedTarget, LookedScroll, Targeting, Shape
<1>2. run.stage = "only"
  BY DEF LookedTarget, LookedScroll, TapInv, TargetPlace, Scrolling
<1>3. CASE cap.status = "ok" /\ Found.status = "resolved" /\ Aim(Found.node)
           /\ pc' = NextAfterAim(Found.node)
  BY <1>1, <1>2, <1>3, AimTargets
<1>4. CASE pc' \in {"done", "look", "swipe"} /\ run'.target = run.target /\ run'.stage = run.stage
  <2>1. TapsAtResolved'
    BY <1>1, <1>4, HitsStay DEF TapInv
  <2> QED BY <1>1, <1>2, <1>4, <2>1 DEF TapInv, TargetPlace, Aimed, Seeking
<1>5. CASE LookedTarget
  <2>1. \/ Finish(out'.status, out'.reason) /\ run' = run
        \/ /\ cap.status = "ok" /\ Found.status = "resolved"
           /\ Aim(Found.node) /\ pc' = NextAfterAim(Found.node)
    BY <1>5 DEF LookedTarget, Finish
  <2> QED BY <1>3, <1>4, <2>1 DEF Finish
<1>6. CASE LookedScroll
  <2>1. \/ pc' \in {"done", "look", "swipe"}  /\ run'.target = run.target /\ run'.stage = run.stage
        \/ /\ cap.status = "ok" /\ Found.status = "resolved"
           /\ Aim(Found.node) /\ pc' = NextAfterAim(Found.node)
    BY <1>1, <1>6 DEF LookedScroll, Finish, Look, Fields
  <2> QED BY <1>3, <1>4, <2>1
<1> QED BY <1>5, <1>6

\* The point that was verified holds the target, whatever moved before.
LEMMA VerifyTargets == ASSUME Shape, TapInv, Targeting, VerifyPoint PROVE TapInv'
<1>1. /\ call' = call /\ dev' = dev /\ run' = run /\ cap' = cap /\ pc = "verify"
      /\ Targeting' /\ Fields
  BY DEF VerifyPoint, Targeting, Shape
<1>2. obs'.hits = obs.hits
      /\ (pc' = "done" \/ (pc' = "tap" /\ \E node \in Described \cup {Nothing} : Verified(node)))
  BY <1>1 DEF VerifyPoint, Finish, Fields
<1>3. ASSUME NEW node \in Described \cup {Nothing}, Verified(node) PROVE There
  <2>1. Confirmable /\ run.target.locator # NoLocator
    BY <1>1 DEF TapInv, Aimed, Confirmable
  <2>2. node \in Described /\ node.locator = run.target.locator
    BY <1>3, <2>1 DEF Verified, Nothing
  <2> QED BY <2>1, <2>2 DEF There, Named
<1>4. pc' = "tap" => There'
  BY <1>1, <1>2, <1>3, ThereStays
<1>5. TapsAtResolved'
  BY <1>1, <1>2, HitsStay DEF TapInv
<1> QED BY <1>1, <1>2, <1>4, <1>5 DEF TapInv, TargetPlace, Aimed, Seeking

\* One more tap: it hits the target, or has an excuse.
LEMMA OneMoreHit ==
    ASSUME NEW S, NEW hits \in Seq(S), NEW h
    PROVE  /\ Append(hits, h) \in Seq(S \cup {h})
           /\ \A i \in DOMAIN Append(hits, h) :
                 Append(hits, h)[i] = h \/ (i \in DOMAIN hits /\ Append(hits, h)[i] = hits[i])
<1>1. hits \in Seq(S \cup {h})
  OBVIOUS
<1>2. Append(hits, h) \in Seq(S \cup {h})
  BY <1>1
<1>3. ASSUME NEW i \in DOMAIN Append(hits, h)
      PROVE  Append(hits, h)[i] = h \/ (i \in DOMAIN hits /\ Append(hits, h)[i] = hits[i])
  <2>1. Len(hits) \in Nat /\ DOMAIN hits = 1..Len(hits)
    OBVIOUS
  <2>2. i \in 1..(Len(hits) + 1)
    BY <1>1
  <2> QED BY <1>1, <2>1, <2>2
<1> QED BY <1>2, <1>3

LEMMA TapTargets == ASSUME Shape, TapInv, Targeting, Tap PROVE TapInv'
<1>1. call' = call /\ cap' = cap /\ pc \in {"tap", "tap_again"} /\ Targeting' /\ Fields
  BY DEF Tap, Targeting, Shape
<1>2. PICK result \in Attempt(pc), lands \in BOOLEAN, s \in Screens :
        /\ ~lands => s = dev.shown
        /\ IF lands THEN Deliver(s) ELSE UNCHANGED dev
        /\ obs' = [Saw(obs, s) EXCEPT !.hits = IF lands THEN Append(@, Hit) ELSE @,
                                      !.sent = Sent("tap", result = "ok")]
        /\ IF result = "failed" /\ FallsBack(pc)
           THEN pc' = "tap_again" /\ UNCHANGED <<run, out>>
           ELSE Tapped(result)
  BY DEF Tap
<1>3. /\ DOMAIN Saw(obs, s) = DOMAIN obs
      /\ Saw(obs, s).hits = obs.hits /\ Saw(obs, s).stale = obs.stale
      /\ Saw(obs, s).moved = (obs.moved \/ s # dev.shown)
  BY <1>1 DEF Saw, Fields
<1>4. /\ obs'.hits = (IF lands THEN Append(obs.hits, Hit) ELSE obs.hits)
      /\ obs'.stale = obs.stale /\ (obs'.moved <=> (obs.moved \/ s # dev.shown))
  BY <1>1, <1>2, <1>3 DEF Fields
<1>5. dev'.shown = s
  <2>1. Showing(dev, s).shown = s /\ DOMAIN Showing(dev, s) = DOMAIN dev
    BY <1>1 DEF Showing, Fields
  <2> QED BY <1>1, <1>2, <2>1 DEF Deliver, Fields
<1>6. /\ run'.target = run.target
      /\ pc' \in {"tap_again", "type", "look", "done"}
      /\ (run'.stage = run.stage \/ (call.tool = "back_selector" /\ run'.stage = "stable"))
      /\ (pc' = "look" => run'.stage = "stable")
  BY <1>1, <1>2 DEF Tapped, Finish, Look, Fields
<1>7. ~Seeking'
  BY <1>6 DEF Seeking
<1>8. pc' = "tap_again" => Doubtful' \/ There'
  <2>1. CASE s # dev.shown
    BY <1>4, <2>1 DEF Doubtful
  <2>2. CASE s = dev.shown
    <3>1. Doubtful => Doubtful'
      BY <1>4 DEF Doubtful
    <3>2. There => There'
      BY <1>1, <1>5, <1>6, <2>2, ThereStays
    <3> QED BY <1>1, <3>1, <3>2 DEF TapInv, Aimed
  <2> QED BY <2>1, <2>2
<1>9. PICK S : obs.hits \in Seq(S)
  BY DEF TapInv
<1> DEFINE Fair(h, target) == h.moved \/ h.stale \/ IF Confirmable THEN target.locator \in h.told
                                                      ELSE target \in h.over
<1>10. Fair(Hit, run.target)
  <2>1. Hit.moved = obs.moved /\ Hit.stale = obs.stale /\ Hit.over = Over /\ Hit.told = Named
    BY DEF Hit, Over, Named
  <2>2. Doubtful \/ There
    BY <1>1 DEF TapInv, Aimed
  <2> QED BY <2>1, <2>2 DEF Doubtful, There
<1>11. TapsAtResolved' /\ \E T : obs'.hits \in Seq(T)
  <2>1. \A i \in DOMAIN obs'.hits :
           obs'.hits[i] = Hit \/ (i \in DOMAIN obs.hits /\ obs'.hits[i] = obs.hits[i])
    BY <1>4, <1>9, OneMoreHit
  <2>2. \A i \in DOMAIN obs.hits : Fair(obs.hits[i], run.target)
    BY DEF TapInv, TapsAtResolved, Targeting
  <2>3. \E T : obs'.hits \in Seq(T)
    <3>1. CASE lands
      <4>1. obs'.hits \in Seq(S \cup {Hit})
        BY <1>4, <1>9, <3>1, OneMoreHit
      <4> QED BY <4>1
    <3>2. CASE ~lands
      BY <1>4, <1>9, <3>2
    <3> QED BY <3>1, <3>2
  <2>4. \A i \in DOMAIN obs'.hits : Fair(obs'.hits[i], run'.target)
    <3> HIDE DEF Hit, Fair
    <3> QED BY <1>6, <1>10, <2>1, <2>2
  <2>5. Confirmable' <=> Confirmable
    BY <1>1, <1>6 DEF Confirmable
  <2> QED BY <2>3, <2>4, <2>5 DEF TapsAtResolved
<1>12. TargetPlace' /\ Aimed'
  BY <1>1, <1>5, <1>6, <1>8 DEF TapInv, TargetPlace, Aimed
<1> QED BY <1>1, <1>6, <1>7, <1>11, <1>12 DEF TapInv

\* The other steps move the screen, or only the call.
LEMMA RestTargets ==
    ASSUME Shape, TapInv, Targeting,
           \/ Swipe \/ Drift \/ Type \/ VerifyTyped \/ ReadTyped \/ PolledStable \/ PauseStable
           \/ LookedBefore \/ LookAfter \/ LookedAfter \/ Compare,
           call \in Calls
    PROVE  TapInv'
<1>1. call' = call /\ cap' = cap /\ Targeting' /\ Fields /\ call.platform \in {"android", "ios", "none"}
      /\ (call.tool = "back_selector" => call.platform # "android")
  BY DeviceAssumption DEF Swipe, Drift, Type, VerifyTyped, ReadTyped, PolledStable, PauseStable, LookedBefore,
     LookAfter, LookedAfter, Compare, Targeting, Shape
<1>2. CASE Swipe \/ Drift
  <2>1. PICK s \in Screens : /\ dev'.shown = s /\ obs'.hits = obs.hits /\ obs'.stale = obs.stale
                             /\ obs'.moved = (obs.moved \/ s # dev.shown)
                             /\ (Drift => s # dev.shown)
    BY <1>1, <1>2 DEF Swipe, Drift, Showing, Saw, Fields
  <2>2. /\ run'.target = run.target /\ run'.stage = run.stage
        /\ run'.wrote = run.wrote
        /\ (Drift => pc' = pc) /\ pc # "begin"
        /\ (Swipe => pc = "swipe" /\ pc' \in {"look", "done"})
    BY <1>1, <1>2 DEF Swipe, Drift, Finish, Look, Fields
  <2>3. Drift => obs'.moved
    BY <2>1
  <2>4. Drift => run' = run
    BY DEF Drift
  <2>5. TapsAtResolved'
    BY <1>1, <2>1, <2>2, HitsStay DEF TapInv
  <2> HIDE DEF Swipe, Drift
  <2>6. Aimed'
    BY <1>1, <1>2, <2>1, <2>2, <2>3, <2>4 DEF TapInv, Aimed, Doubtful, Confirmable
  <2> QED BY <1>1, <1>2, <2>1, <2>2, <2>5, <2>6 DEF TapInv, TargetPlace, Seeking
<1>3. CASE Type \/ VerifyTyped \/ ReadTyped
  <2>1. /\ pc' \in {"type_again", "verify_typed", "read_typed", "done"}
        /\ run' = run /\ obs'.hits = obs.hits /\ dev'.shown = dev.shown
    BY <1>1, <1>3 DEF Type, Typed, TypedFinish, VerifyTyped, ReadTyped, Finish, Fields
  <2>2. TapsAtResolved'
    BY <1>1, <2>1, HitsStay DEF TapInv
  <2> QED BY <1>1, <2>1, <2>2 DEF TapInv, TargetPlace, Aimed, Seeking
<1>4. CASE PolledStable \/ PauseStable \/ LookAfter \/ LookedAfter \/ Compare
  <2>1. run.stage # "only"
    BY <1>4 DEF PolledStable, PauseStable, LookAfter, LookedAfter, Compare, TapInv, TargetPlace,
       Targeting, Resolving, Scrolling
  <2>2. /\ run'.target = run.target /\ run'.stage \in {run.stage, "after"} /\ dev' = dev /\ obs' = obs
        /\ pc' \in {"pause", "after", "compare", "look", "done"}
        /\ (pc' \in {"pause", "after", "compare", "look"} => run'.stage \in {"stable", "after"})
    <3>1. CASE PolledStable \/ PauseStable
      <4>1. run.stage = "stable" /\ call.tool # "wait_for_ui_stable"
        BY <3>1 DEF PolledStable, PauseStable, Targeting, Resolving, Scrolling
      <4>2. run'.target = run.target /\ run'.stage = run.stage /\ dev' = dev /\ obs' = obs
        BY <1>1, <3>1 DEF PolledStable, PauseStable, Fields
      <4>3. pc' \in {"pause", "after", "compare", "look"}
        BY <3>1, <4>1 DEF PolledStable, PauseStable, StableEnds, Look
      <4> QED BY <4>1, <4>2, <4>3
    <3>2. CASE LookAfter
      BY <1>1, <3>2 DEF LookAfter, Look, Fields
    <3>3. CASE LookedAfter
      BY <1>1, <3>3 DEF LookedAfter, Fields
    <3>4. CASE Compare
      BY <3>4 DEF Compare, Finish
    <3> QED BY <1>4, <3>1, <3>2, <3>3, <3>4
  <2>3. TapsAtResolved'
    BY <1>1, <2>2, HitsStay DEF TapInv
  <2> QED BY <1>1, <2>1, <2>2, <2>3 DEF TapInv, TargetPlace, Aimed, Seeking
<1>5. CASE LookedBefore
  <2>1. call.tool = "back_selector" /\ pc = "looked" /\ run.stage = "before"
    BY <1>5 DEF LookedBefore, TapInv, TargetPlace
  <2>2. /\ run'.target = run.target /\ run'.stage = "only" /\ dev' = dev /\ obs' = obs
        /\ pc' = "look"
    BY <1>1, <1>5, <2>1 DEF LookedBefore, Fields
  <2>3. TapsAtResolved'
    BY <1>1, <2>2, HitsStay DEF TapInv
  <2> QED BY <1>1, <2>1, <2>2, <2>3 DEF TapInv, TargetPlace, Aimed, Seeking
<1> QED BY <1>2, <1>3, <1>4, <1>5

LEMMA StepTargets == ASSUME Shape, TapInv, Targeting, call \in Calls, Next PROVE TapInv'
BY TargetingOnly, BeginTargets, CaptureTargets, LooksTarget, VerifyTargets, TapTargets, RestTargets

\* Every tap of a tool that resolves a selector goes to a point where what was
\* resolved still is, or, where that can be confirmed, where what is there has its
\* locator, unless the screen moved after the last look or that look was stale.
THEOREM TapsAreOnTarget == Spec => []TapsAtResolved
<1> DEFINE Inv == Shape /\ call \in Calls /\ TapInv
<1>1. Init => Inv
  <2> SUFFICES ASSUME Init PROVE Inv
    OBVIOUS
  <2>1. /\ pc = "begin" /\ run.stage = "only" /\ obs.hits = <<>> /\ dev.shown \in Screens
        /\ call \in Calls
    BY DEF Init
  <2>2. TapsAtResolved /\ obs.hits \in Seq({})
    BY <2>1 DEF TapsAtResolved
  <2> QED BY <2>1, <2>2, InitShape DEF TapInv, TargetPlace, Aimed
<1>2. Inv /\ [Next]_vars => Inv'
  <2> SUFFICES ASSUME Inv, [Next]_vars PROVE Inv'
    OBVIOUS
  <2>1. CASE UNCHANGED vars
    <3>1. /\ call' = call /\ pc' = pc /\ dev' = dev /\ run' = run /\ cap' = cap /\ out' = out
          /\ obs' = obs
      BY <2>1 DEF vars
    <3>2. There => There'
      BY <3>1, ThereStays
    <3>3. TapInv'
      BY <3>1, <3>2 DEF TapInv, Targeting, TargetPlace, Aimed, Seeking, Doubtful, Confirmable, TapsAtResolved
    <3>4. Shape'
      BY <3>1 DEF Shape, Fields, Placed, Evidence
    <3> QED BY <3>1, <3>3, <3>4
  <2>2. CASE Next
    <3>1. Shape' /\ call' = call
      BY <2>2, StepShape
    <3>2. Targeting => TapInv'
      BY <2>2, StepTargets
    <3>3. ~Targeting => TapInv'
      BY <3>1 DEF TapInv, Targeting
    <3> QED BY <3>1, <3>2, <3>3
  <2> QED BY <2>1, <2>2
<1>3. Inv => TapsAtResolved
  BY DEF TapInv, TapsAtResolved, Targeting
<1> QED BY <1>1, <1>2, <1>3, PTL DEF Spec
====
