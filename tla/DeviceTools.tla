------------------------------ MODULE DeviceTools ------------------------------
(***************************************************************************)
(* One call of any tool that touches the device: the UI tools of UiTools,  *)
(* the plans of DeviceCommands, the captures of DebugTools, and the tools  *)
(* that do some of both: scroll_only, navigate_back and                    *)
(* capture_element_screenshot (packages/adapter-maestro/src).              *)
(***************************************************************************)
EXTENDS DebugTools

----------------------------------------------------------------------------
\* The guards of each tool.
ScrollOnlyGuard(c) ==
    CASE ~c.gesture \/ c.platform = "none" -> Misconfigured
      [] c.device = "none" -> Refuse("failed", "device_unavailable")
      [] c.dry /\ CannotBuild(c) -> Refuse("threw", "adapter_error")
      [] c.dry -> Succeeds
      [] OTHER -> NoAnswer

\* iOS has no system back, and an app back needs a selector or an edge swipe.
BackGuard(c) ==
    CASE c.platform = "none" -> Misconfigured
      [] c.platform = "ios" /\ c.system -> Unsupported("failed")
      [] c.device = "none" -> Refuse("failed", "device_unavailable")
      [] c.platform = "android" -> IF c.dry THEN Succeeds ELSE NoAnswer
      [] c.tool = "back_selector" -> TapElementGuard(c)
      [] ~c.edge -> Refuse("failed", "no_match")
      [] c.dry /\ CannotBuild(c) -> Unsupported("failed")
      [] c.dry -> Succeeds
      [] OTHER -> NoAnswer

\* A dry run still goes through the crop, on the preview of a screenshot.
CropGuard(c) == IF c.platform = "none" THEN Misconfigured ELSE NoAnswer

Guard(c) ==
    CASE c.tool = "wait_for_ui" -> WaitGuard(c)
      [] c.tool = "wait_for_ui_stable" -> StableGuard(c)
      [] c.tool = "inspect_ui" -> InspectGuard(c)
      [] c.tool = "query_ui" -> QueryGuard(c)
      [] c.tool = "resolve_ui_target" -> ResolveGuard(c)
      [] c.tool = "tap_element" -> TapElementGuard(c)
      [] c.tool = "type_into_element" -> TypeIntoGuard(c)
      [] c.tool \in Scrolling -> ScrollGuard(c)
      [] c.tool = "tap" -> TapGuard(c)
      [] c.tool = "type_text" -> TypeGuard(c)
      [] c.tool = "scroll_only" -> ScrollOnlyGuard(c)
      [] c.tool \in {"navigate_back", "back_selector"} -> BackGuard(c)
      [] c.tool = "capture_element_screenshot" -> CropGuard(c)
      [] c.tool \in DebuggerTools -> DebugGuard(c)
      [] OTHER -> CommandGuard(c)

----------------------------------------------------------------------------
\* navigate_back hashes the screen first, unless it will not wait afterwards;
\* scroll_only looks on iOS, for the size of the viewport.
FirstStep(c) ==
    CASE c.tool = "tap" -> "tap"
      [] c.tool = "type_text" -> "type"
      [] c.tool = "scroll_only" -> IF c.platform = "ios" THEN "look" ELSE "swipe"
      [] c.tool = "navigate_back" ->
           IF c.wait THEN "look" ELSE IF c.platform = "ios" THEN "probe_edge" ELSE "back"
      [] c.tool = "capture_element_screenshot" -> "screenshot"
      [] c.tool \in DebuggerTools -> FirstDebugStep(c)
      [] c.tool \in CommandTools -> "command"
      [] OTHER -> "look"

Begin ==
    /\ pc = "begin"
    /\ IF Guard(call) # NoAnswer
       THEN /\ out' = Guard(call) /\ pc' = "done" /\ UNCHANGED run
       ELSE /\ pc' = FirstStep(call) /\ UNCHANGED out
            /\ run' = [run EXCEPT
                 !.stage = IF call.tool \in {"navigate_back", "back_selector"} /\ call.wait
                           THEN "before" ELSE @,
                 !.todo = IF call.tool \in CommandTools THEN Plan(call) ELSE @,
                 !.target = [place |-> call.place, locator |-> NoLocator]]
    /\ UNCHANGED <<call, dev, cap, now, obs>>

----------------------------------------------------------------------------
\* scroll_only: stops at the first swipe that fails; the answer is the last one's.
LookedViewport ==
    /\ pc = "looked" /\ call.tool = "scroll_only"
    /\ IF CannotBuild(call) THEN Finish("threw", "adapter_error")
       ELSE pc' = "swipe" /\ UNCHANGED out
    /\ UNCHANGED <<call, dev, cap, run, now, obs>>

ScrollSwipe ==
    /\ pc = "swipe" /\ call.tool = "scroll_only"
    /\ \E ok \in BOOLEAN, s \in Screens :
         /\ dev' = Showing(dev, s)
         /\ obs' = [Saw(obs, s) EXCEPT !.sent = Sent("swipe", ok)]
         /\ run' = [run EXCEPT !.swipes = IF ok THEN @ + 1 ELSE @]
         /\ CASE ~ok -> Finish("failed", "action_scroll_failed")
              [] ok /\ run.swipes + 1 = call.count -> Finish("success", "ok")
              [] OTHER -> UNCHANGED <<pc, out>>
    /\ UNCHANGED <<call, cap, now>>

----------------------------------------------------------------------------
\* navigate_back.
HashOf(c) == IF c.status = "ok" THEN TreeHash(ContentOf(c.shown)) ELSE NoHash

LookedBefore ==
    /\ pc = "looked" /\ run.stage = "before"
    /\ run' = [run EXCEPT !.before = HashOf(cap), !.stage = "only"]
    /\ pc' = CASE call.tool = "back_selector" -> "look"
               [] call.platform = "android" -> "back"
               [] OTHER -> "probe_edge"
    /\ UNCHANGED <<call, dev, cap, now, out, obs>>

\* The edge swipe looks once more, for the navigation bar; a failure is ignored.
ProbeEdge ==
    /\ pc = "probe_edge"
    /\ run' = [run EXCEPT !.stage = "edge"]
    /\ IF CannotBuild(call) THEN Finish("failed", "unsupported_operation")
       ELSE Look /\ UNCHANGED out
    /\ UNCHANGED <<call, dev, cap, now, obs>>
LookedEdge ==
    /\ pc = "looked" /\ run.stage = "edge"
    /\ pc' = "back"
    /\ UNCHANGED <<call, dev, cap, run, now, out, obs>>

\* KEYEVENT_BACK, or the swipe, which iOS probes its tool chain for.
Back ==
    /\ pc = "back"
    /\ \E ok \in BOOLEAN, s \in Screens :
         /\ dev' = Showing(dev, s)
         /\ obs' = [Saw(obs, s) EXCEPT !.sent = Sent("back", ok)]
         /\ CASE ~ok -> Finish("failed", "adapter_error") /\ UNCHANGED run
              [] ok /\ ~call.wait -> Finish("success", "ok") /\ UNCHANGED run
              [] OTHER -> /\ run' = [run EXCEPT !.stage = "stable", !.polling = TRUE]
                          /\ Look /\ UNCHANGED out
    /\ UNCHANGED <<call, cap, now>>

\* Only a screen that was stable is hashed again.
LookAfter ==
    /\ pc = "after"
    /\ run' = [run EXCEPT !.stage = "after", !.polling = FALSE]
    /\ Look
    /\ UNCHANGED <<call, dev, cap, now, out, obs>>
LookedAfter ==
    /\ pc = "looked" /\ run.stage = "after"
    /\ run' = [run EXCEPT !.after = HashOf(cap)]
    /\ pc' = "compare"
    /\ UNCHANGED <<call, dev, cap, now, out, obs>>

\* The edge swipe answers partial when the two hashes are known and equal; the
\* others report the comparison and succeed.
Unchanged == run.before # NoHash /\ run.before = run.after
Compare ==
    /\ pc = "compare"
    /\ IF call.tool = "navigate_back" /\ call.platform = "ios" /\ Unchanged
       THEN Finish("partial", "retry_exhausted_no_state_change")
       ELSE Finish("success", "ok")
    /\ UNCHANGED <<call, dev, cap, run, now, obs>>

----------------------------------------------------------------------------
\* capture_element_screenshot: the image and the bounds are two moments.  A dry
\* run takes no image, and finds the one an earlier call left, if any.
Screenshot ==
    /\ pc = "screenshot"
    /\ \E ok \in BOOLEAN :
         /\ call.dry => ok
         /\ \E image \in IF call.dry THEN Screens \cup {NoDump} ELSE {dev.shown} :
              obs' = [obs EXCEPT !.shot = IF ok THEN image ELSE @,
                                 !.sent = IF call.dry THEN @ ELSE Sent("screenshot", ok)]
         /\ IF ok THEN Look /\ UNCHANGED out ELSE Finish("failed", "adapter_error")
    /\ UNCHANGED <<call, dev, cap, run, now>>

\* A node that matches exactly and has bounds; an unread dump has none.
Cropped ==
    cap.status = "ok"
    /\ \E i \in DOMAIN ContentOf(cap.shown).nodes :
         ContentOf(cap.shown).nodes[i].quality = "exact" /\ ContentOf(cap.shown).nodes[i].bounds
LookedCrop ==
    /\ pc = "looked" /\ call.tool = "capture_element_screenshot"
    /\ CASE cap.status = "failed" -> Finish("failed", "capture_failed")
         [] cap.status # "failed" /\ ~Cropped -> Finish("failed", "no_match")
         [] obs.shot = NoDump -> Finish("threw", "no_image")
         [] OTHER -> Finish("success", "ok")
    /\ UNCHANGED <<call, dev, cap, run, now, obs>>

----------------------------------------------------------------------------
Step ==
    \/ Begin \/ Capture \/ UiToolStep
    \/ LookedViewport \/ ScrollSwipe
    \/ LookedBefore \/ ProbeEdge \/ LookedEdge \/ Back \/ LookAfter \/ LookedAfter \/ Compare
    \/ Screenshot \/ LookedCrop
    \/ Command
    \/ DebugStep

Next == Drift \/ Hear \/ Step

\* A tool is a chain of awaits on commands that end: it goes on.
Spec == Init /\ [][Next]_vars /\ WF_vars(Step)

----------------------------------------------------------------------------
Answered(tools) == pc = "done" /\ call.tool \in tools /\ ~call.dry /\ out.status = "success"

\* wait_for_ui succeeds only if its condition held of a screen the device
\* showed during the call, whatever moved, failed or stayed unread meanwhile.
\* Two things can deceive it: a dump left by an earlier capture; and a capture
\* that exits 0 and holds less than the screen, which is taken for all of it.
\* Then "gone" may be answered of an element that is there, and the others may
\* be judged by some of the matches, but never without one on the screen.
Seen(s) ==
    \/ WaitConditionMet(Answers[s][call.query], call.until)
    \/ obs.cut /\ (call.until = "gone" \/ Answers[s][call.query].total > 0)
WaitMatchHeld ==
    Answered({"wait_for_ui"}) /\ ~obs.stale => \E s \in obs.shown : Seen(s)

\* wait_for_ui_stable succeeds only when the screen has stopped changing: its
\* last captures were read and show one screen.
StableMeansUnchanged ==
    Answered({"wait_for_ui_stable"}) =>
        \A i, j \in DOMAIN obs.took :
            obs.took[i].status = "ok" /\ obs.took[i].shown = obs.took[j].shown

\* Every tap of a tool that resolves a selector goes to a point where what was
\* resolved still is, unless the screen moved after the last look at it or the
\* look was stale; on iOS that look is the confirmation, made after the screen
\* was captured, and what it can be told of the point has the locator of what
\* was resolved.  Which of the nodes over the point takes the tap is the
\* device's choice: a child or an overlay may.
TapsAtResolved ==
    call.tool \in (Resolving \cup Scrolling) =>
        \A i \in DOMAIN obs.hits :
            \/ obs.hits[i].moved \/ obs.hits[i].stale
            \/ IF Confirmable THEN run.target.locator \in obs.hits[i].told
               ELSE run.target \in obs.hits[i].over

\* type_into_element succeeds on an iOS field that can be confirmed only if a
\* field with its locator held the typed value when the point was read back: it
\* still does, unless the screen moved since.
TypedIsObserved ==
    Answered({"type_into_element"}) /\ Confirmable /\ run.kind = "field" /\ ~obs.moved =>
        \E node \in Described : Verified(node) /\ Holds(node)

\* An answer of success means that every command whose result the tool waits
\* for exited 0, the first attempt of one repeated by the fallback, and a focus
\* tap whose tool chain was not found, excepted.
Excused(i) ==
    \/ obs.sent[i].cmd = "devicectl" /\ i < Len(obs.sent)
    \/ i < Len(obs.sent) /\ obs.sent[i].cmd = obs.sent[i + 1].cmd /\ FallsBack(obs.sent[i].cmd)
    \/ call.tool = "type_into_element" /\ run.focus = "partial" /\ obs.sent[i].cmd = "tap"
SuccessMeansExit ==
    pc = "done" /\ out.status = "success" =>
        \A i \in DOMAIN obs.sent : obs.sent[i].ok \/ Excused(i)

\* An answer of success that names an artifact names one this call has written;
\* a recording of an iOS simulator and the crash reports of an iPhone excepted.
Unsaved == \/ call.tool = "record_screen" /\ call.platform = "ios"
           \/ call.tool = "get_crash_signals" /\ call.device = "physical"
ArtifactSaved == Answered(Capturing) /\ ~Unsaved => obs.saved

\* Whatever fails and however the screen moves, the call is answered.
CallEnds == <>(pc = "done")

================================================================================
