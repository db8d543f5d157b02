------------------------------- MODULE UiTools -------------------------------
(***************************************************************************)
(* The tools that look at a screen, wait for it, and act on what they saw: *)
(* inspect_ui, query_ui, resolve_ui_target, wait_for_ui, wait_for_ui_stable,*)
(* tap, type_text, tap_element, type_into_element,                         *)
(* scroll_and_resolve_ui_target and scroll_and_tap_element of              *)
(* packages/adapter-maestro.  Every await of a call is a step, and the     *)
(* screen may move between any two of them.                                *)
(***************************************************************************)
EXTENDS DeviceScreen

\* DEFAULT_WAIT_MAX_CONSECUTIVE_CAPTURE_FAILURES
MaxReadFailures == 2

Resolving == {"resolve_ui_target", "tap_element", "type_into_element", "back_selector"}
Scrolling == {"scroll_and_resolve_ui_target", "scroll_and_tap_element"}

\* simctl throws from every command builder; the tools that preview one first
\* throw with it.
CannotBuild(c) == c.platform = "ios" /\ c.backend = "simctl"

----------------------------------------------------------------------------
\* The guards of each tool, in its order: the answer of a call that ends there.
Refuse(status, reason) == [status |-> status, reason |-> reason]
Misconfigured == Refuse("failed", "configuration_error")
Unsupported(status) == Refuse(status, "unsupported_operation")
Succeeds == Refuse("success", "ok")

WaitGuard(c) ==
    CASE c.platform = "none" \/ ~c.selector -> Misconfigured
      [] CannotBuild(c) -> Refuse("threw", "adapter_error")
      [] c.dry -> Unsupported("partial")
      [] OTHER -> NoAnswer
ResolveGuard(c) ==
    CASE c.platform = "none" \/ ~c.selector -> Misconfigured
      [] CannotBuild(c) -> Refuse("threw", "adapter_error")
      [] c.dry -> Unsupported("partial")
      [] OTHER -> NoAnswer
\* Tools that resolve first answer as resolve_ui_target does.
TapElementGuard(c) == ResolveGuard(c)
TypeIntoGuard(c) == ResolveGuard(c)
QueryGuard(c) ==
    CASE c.platform = "none" \/ ~c.selector -> Misconfigured
      [] CannotBuild(c) -> Refuse("threw", "adapter_error")
      [] c.dry -> IF c.platform = "ios" THEN Unsupported("partial") ELSE Succeeds
      [] OTHER -> NoAnswer
InspectGuard(c) ==
    CASE c.platform = "none" -> Misconfigured
      [] CannotBuild(c) -> Refuse("threw", "adapter_error")
      [] c.dry -> Succeeds
      [] OTHER -> NoAnswer
StableGuard(c) == IF c.platform = "none" THEN Misconfigured ELSE NoAnswer
\* The direct command is built first, for a physical device as well.
TapGuard(c) ==
    CASE c.platform = "none" -> Misconfigured
      [] CannotBuild(c) -> Refuse("threw", "adapter_error")
      [] c.dry -> Succeeds
      [] OTHER -> NoAnswer
TypeGuard(c) ==
    CASE c.platform = "none" -> Misconfigured
      [] CannotBuild(c) -> Refuse("threw", "adapter_error")
      [] c.dry -> IF c.platform = "ios" THEN Succeeds ELSE Unsupported("partial")
      [] OTHER -> NoAnswer
\* scroll_and_resolve_ui_target is for Android only.
ScrollGuard(c) ==
    CASE c.platform = "none" \/ ~c.selector -> Misconfigured
      [] c.platform = "ios" -> Unsupported("failed")
      [] c.dry -> Unsupported("partial")
      [] OTHER -> NoAnswer

----------------------------------------------------------------------------
\* wait_for_ui: runUiWaitPollingLoop.
Answer == IF cap.status = "ok" THEN Answers[cap.shown][call.query] ELSE EmptyResult

\* Only Android counts failures; iOS polls until the deadline.
PolledWait ==
    /\ pc = "looked" /\ call.tool = "wait_for_ui"
    /\ LET fails == IF cap.status = "ok" THEN 0 ELSE run.fails + 1
       IN  /\ run' = [run EXCEPT !.fails = fails]
           /\ CASE cap.status # "ok" /\ call.platform = "android" /\ fails >= MaxReadFailures ->
                     Finish("failed", "capture_failed")
                [] cap.status = "ok" /\ WaitConditionMet(Answer, call.until) ->
                     Finish("success", "ok")
                [] OTHER -> pc' = "pause" /\ UNCHANGED out
    /\ UNCHANGED <<call, dev, cap, now, obs>>

\* The deadline belongs to the loop: it polls once more when it is just reached.
PauseWait ==
    /\ pc = "pause" /\ call.tool = "wait_for_ui"
    /\ now' = IF now < Timeout THEN now + 1 ELSE now
    /\ CASE now' <= Timeout -> Look /\ UNCHANGED out
         [] now' > Timeout /\ cap.status = "failed" -> Finish("failed", "capture_failed")
         [] OTHER -> Finish("partial", IF call.until = "gone" THEN "timeout" ELSE "no_match")
    /\ UNCHANGED <<call, dev, cap, run, obs>>

----------------------------------------------------------------------------
\* wait_for_ui_stable.  A dump that was not read is no failure here: its empty
\* content has a hash.
StableCount(hash) == IF hash = run.hash THEN run.stable + 1 ELSE 0
AfterFailure == [stable |-> 0, hash |-> NoHash]

\* What the caller does once the loop says whether the screen was stable.
StableEnds(status) ==
    IF call.tool = "wait_for_ui_stable"
    THEN Finish(status, IF status = "success" THEN "ok" ELSE "stability_timeout")
    ELSE /\ pc' = IF status = "success" THEN "after" ELSE "compare"
         /\ UNCHANGED out

PolledStable ==
    /\ pc = "looked" /\ (call.tool = "wait_for_ui_stable" \/ run.stage = "stable")
    /\ \E hash \in StabilityHashes(call.platform, ContentOf(cap.shown)) :
       LET count == StableCount(hash)
       IN  IF cap.status = "failed"
           THEN /\ run' = [run EXCEPT !.stable = AfterFailure.stable,
                                      !.hash = AfterFailure.hash]
                /\ pc' = "pause" /\ UNCHANGED out
           ELSE /\ run' = [run EXCEPT !.stable = count, !.hash = hash]
                /\ IF count >= StableTarget THEN StableEnds("success")
                   ELSE pc' = "pause" /\ UNCHANGED out
    /\ UNCHANGED <<call, dev, cap, now, obs>>

\* Mutant: a failed capture is repeated at once, before the deadline is looked at.
RetriedAtOnce ==
    /\ pc = "pause" /\ (call.tool = "wait_for_ui_stable" \/ run.stage = "stable")
    /\ now' = IF cap.status # "failed" /\ now < Timeout THEN now + 1 ELSE now
    /\ IF now' < Timeout \/ cap.status = "failed" THEN Look /\ UNCHANGED out
       ELSE StableEnds("partial")
    /\ UNCHANGED <<call, dev, cap, run, obs>>

PauseStable ==
    /\ pc = "pause" /\ (call.tool = "wait_for_ui_stable" \/ run.stage = "stable")
    /\ now' = IF cap.status = "failed" \/ now < Timeout THEN now + 1 ELSE now
    /\ IF now' < Timeout THEN Look /\ UNCHANGED out ELSE StableEnds("partial")
    /\ UNCHANGED <<call, dev, cap, run, obs>>

----------------------------------------------------------------------------
\* Tools that look once.
InspectedIos ==
    /\ pc = "looked" /\ call.tool = "inspect_ui" /\ call.platform = "ios"
    /\ IF cap.status = "ok" THEN Finish("success", "ok") ELSE Finish("partial", "capture_failed")
    /\ UNCHANGED <<call, dev, cap, run, now, obs>>
InspectedAndroid ==
    /\ pc = "looked" /\ call.tool = "inspect_ui" /\ call.platform = "android"
    /\ IF cap.status = "ok" THEN Finish("success", "ok") ELSE Finish("failed", "capture_failed")
    /\ UNCHANGED <<call, dev, cap, run, now, obs>>

LookedQuery ==
    /\ pc = "looked" /\ call.tool = "query_ui"
    /\ IF cap.status = "ok" THEN Finish("success", "ok") ELSE Finish("failed", "capture_failed")
    /\ UNCHANGED <<call, dev, cap, run, now, obs>>

Found == Resolved[cap.shown][call.query]
Ref(node) == [place |-> node.place, locator |-> node.locator]
Aim(node) == run' = [run EXCEPT !.target = Ref(node), !.kind = node.kind]

\* A resolved target is confirmed on iOS only, and only when it has a locator;
\* without one the verification is neither passed nor failed.
Confirmable == call.platform = "ios" /\ run.target.locator # NoLocator
NextAfterAim(node) ==
    IF call.platform = "ios" /\ node.locator # NoLocator THEN "verify" ELSE "tap"

LookedTarget ==
    /\ pc = "looked" /\ call.tool \in Resolving /\ run.stage = "only"
    /\ CASE cap.status # "ok" -> Finish("failed", "capture_failed") /\ UNCHANGED run
         [] cap.status = "ok" /\ Found.status # "resolved" ->
              Finish("partial", ReasonOf(Found.status)) /\ UNCHANGED run
         [] call.tool = "resolve_ui_target" -> Finish("success", "ok") /\ UNCHANGED run
         [] OTHER -> Aim(Found.node) /\ pc' = NextAfterAim(Found.node) /\ UNCHANGED out
    /\ UNCHANGED <<call, dev, cap, now, obs>>

----------------------------------------------------------------------------
\* runUiScrollResolveLoop.  `final' marks the confirming capture after the last
\* swipe: when it cannot be read the call ends on what was seen before it.
Keeps(status) == status \in {"no_match", "off_screen"}
LookedScroll ==
    /\ pc = "looked" /\ call.tool \in Scrolling
    /\ CASE cap.status # "ok" ->
              Finish(IF run.final THEN "partial" ELSE "failed",
                     IF run.final THEN "no_match" ELSE "capture_failed") /\ UNCHANGED run
         [] cap.status = "ok" /\ Found.status = "resolved" ->
              IF call.tool = "scroll_and_resolve_ui_target"
              THEN Finish("success", "ok") /\ UNCHANGED run
              ELSE Aim(Found.node) /\ pc' = NextAfterAim(Found.node) /\ UNCHANGED out
         [] cap.status = "ok" /\ Found.status # "resolved" /\ ~Keeps(Found.status) ->
              Finish("partial", ReasonOf(Found.status)) /\ UNCHANGED run
         [] run.final -> Finish("partial", "no_match") /\ UNCHANGED run
         [] run.swipes = call.maxSwipes ->
              run' = [run EXCEPT !.final = TRUE] /\ Look /\ UNCHANGED out
         [] OTHER -> pc' = "swipe" /\ UNCHANGED <<run, out>>
    /\ UNCHANGED <<call, dev, cap, now, obs>>

\* A command the device carries out may change the screen; one that fails may
\* have been carried out all the same.
Sent(cmd, ok) == Append(obs.sent, [cmd |-> cmd, ok |-> ok])
Swipe ==
    /\ pc = "swipe" /\ call.tool \in Scrolling
    /\ \E ok \in BOOLEAN, s \in Screens :
         /\ dev' = Showing(dev, s)
         /\ obs' = [Saw(obs, s) EXCEPT !.sent = Sent("swipe", ok)]
         /\ IF ok THEN /\ run' = [run EXCEPT !.swipes = @ + 1] /\ Look /\ UNCHANGED out
                  ELSE Finish("failed", "action_scroll_failed") /\ UNCHANGED run
    /\ UNCHANGED <<call, cap, now>>

----------------------------------------------------------------------------
\* What a look at the target's point can be told of: WDA sends the whole tree,
\* and the tool takes the smallest node there; axe names one element, and which
\* of those over the point is its own choice.  The answer may name nothing.
Nothing == [place |-> 0, locator |-> NoLocator, kind |-> "plain"]
Described ==
    LET nodes == Content[dev.shown].nodes
    IN  CASE nodes = <<>> -> {}
          [] nodes # <<>> /\ call.backend = "wda" -> {PointNode(nodes, run.target.place)}
          [] OTHER -> NodesNow(run.target.place)

\* Mutant: whatever is at the point is taken for the target.
VerifiedAnyway(node) == node.locator # NoLocator
\* verifyResolvedIosPointWithHooks: what is at the point now has the locator of
\* what was resolved.
Verified(node) == node.locator = run.target.locator

VerifyPoint ==
    /\ pc = "verify"
    /\ \/ /\ \E reason \in {"adapter_error", "configuration_error"} : Finish("partial", reason)
          /\ UNCHANGED obs
       \/ \E node \in Described \cup {Nothing} :
            /\ obs' = [obs EXCEPT !.moved = FALSE]
            /\ IF Verified(node) THEN pc' = "tap" /\ UNCHANGED out
               ELSE Finish("partial", "no_match")
    /\ UNCHANGED <<call, dev, cap, run, now>>

\* The nodes over the point of the tap: any of them may take it, or none, and
\* with it the focus.
Reached == NodesNow(run.target.place)
FocusOf(node) == IF node.kind = "plain" THEN dev.focus ELSE Ref(node)
\* The device taps: it may stay, focus a field, or show another screen.
Deliver(s) ==
    \E node \in Reached \cup {Nothing} :
        dev' = [Showing(dev, s) EXCEPT !.focus = IF s = dev.shown THEN FocusOf(node) ELSE NoRef]
Hit == [over |-> {Ref(node) : node \in Reached}, told |-> {node.locator : node \in Described},
        moved |-> obs.moved, stale |-> obs.stale]

\* A command for the physical device goes to a flow runner; the local one falls
\* back to Maestro when it fails.  The others go to adb, axe or WDA directly, on
\* iOS after a probe of the tool chain.
Physical == call.platform = "ios" /\ call.device = "physical"
FallsBack(step) == Physical /\ call.runner = "local_manual_runner" /\ step \in {"tap", "type"}
Attempt(step) ==
    {"ok", "failed"} \cup IF call.platform = "ios" /\ ~Physical THEN {"no_backend"} ELSE {}

\* What the caller of tapWithMaestroTool does with its result.
Tapped(result) ==
    LET status == CASE result = "ok" -> "success" [] result = "failed" -> "failed"
                    [] OTHER -> "partial"
    IN  IF call.tool = "type_into_element"
        THEN run' = [run EXCEPT !.focus = status] /\ pc' = "type" /\ UNCHANGED out
        ELSE IF call.tool = "back_selector"
        THEN /\ run' = [run EXCEPT !.focus = status, !.stage = "stable", !.polling = TRUE]
             /\ IF status = "success" /\ call.wait THEN Look /\ UNCHANGED out
                ELSE Finish(status, IF status = "success" THEN "ok" ELSE "action_failed")
        ELSE UNCHANGED run /\ Finish(status, IF status = "success" THEN "ok" ELSE "action_failed")

Tap ==
    /\ pc \in {"tap", "tap_again"}
    /\ \E result \in Attempt(pc), lands \in BOOLEAN, s \in Screens :
         /\ result = "ok" => lands
         /\ result = "no_backend" => ~lands
         /\ ~lands => s = dev.shown
         /\ IF lands THEN Deliver(s) ELSE UNCHANGED dev
         /\ obs' = [Saw(obs, s) EXCEPT !.hits = IF lands THEN Append(@, Hit) ELSE @,
                                       !.sent = Sent("tap", result = "ok")]
         /\ IF result = "failed" /\ FallsBack(pc)
            THEN pc' = "tap_again" /\ UNCHANGED <<run, out>>
            ELSE Tapped(result)
    /\ UNCHANGED <<call, cap, now>>

----------------------------------------------------------------------------
\* The text goes into whatever has the focus, whole, mangled or twice.
TypedFinish(status) ==
    CASE run.focus = "failed" -> Finish("failed", "action_focus_failed")
      [] status # "success" -> Finish(status, "action_type_failed")
      [] OTHER -> Finish("success", "ok")
Typed(result) ==
    LET status == CASE result = "ok" -> "success" [] result = "failed" -> "failed"
                    [] OTHER -> "partial"
    IN  CASE call.tool = "type_text" ->
               Finish(status, IF status = "success" THEN "ok" ELSE "action_failed")
          [] call.tool # "type_text" /\ status = "success" /\ run.focus # "failed" /\ Confirmable ->
               pc' = "verify_typed" /\ UNCHANGED out
          [] OTHER -> TypedFinish(status)

Type ==
    /\ pc \in {"type", "type_again"}
    /\ \E result \in Attempt(pc), value \in {"typed", "other"} :
         /\ result = "no_backend" => value = "other"
         /\ dev' = IF result = "no_backend" \/ dev.focus = NoRef THEN dev
                   ELSE [dev EXCEPT !.field = [of |-> dev.focus, value |-> value]]
         /\ obs' = [obs EXCEPT !.sent = Sent("type", result = "ok")]
         /\ IF result = "failed" /\ FallsBack(pc)
            THEN pc' = "type_again" /\ UNCHANGED out
            ELSE Typed(result)
    /\ UNCHANGED <<call, cap, run, now>>

\* verifyTypedIosPostconditionWithHooks: the point is verified, then read again
\* for the value of the field.
VerifyTyped ==
    /\ pc = "verify_typed"
    /\ \/ \E reason \in {"adapter_error", "configuration_error"} : Finish("partial", reason)
       \/ \E node \in Described \cup {Nothing} :
            IF Verified(node) THEN pc' = "read_typed" /\ UNCHANGED out
            ELSE Finish("partial", "no_match")
    /\ UNCHANGED <<call, dev, cap, run, now, obs>>

ValueAt(ref) == IF dev.field.of = ref THEN dev.field.value ELSE "other"
Holds(node) == node.kind = "field" /\ ValueAt(Ref(node)) = "typed"
\* Mutant: the value of the field is not looked at.
AnyValue(node) == node.kind \in {"plain", "field", "secret"}
\* Only a field that shows its value can be compared with what was typed.
HasValue(node) == run.kind = "field" => Holds(node)

ReadTyped ==
    /\ pc = "read_typed"
    /\ \/ /\ \E reason \in {"adapter_error", "configuration_error"} : Finish("partial", reason)
          /\ UNCHANGED obs
       \/ \E node \in Described \cup {Nothing} :
            /\ obs' = [obs EXCEPT !.moved = FALSE]
            /\ CASE ~Verified(node) -> Finish("partial", "no_match")
                 [] Verified(node) /\ ~HasValue(node) -> Finish("partial", "action_type_failed")
                 [] OTHER -> TypedFinish("success")
    /\ UNCHANGED <<call, dev, cap, run, now>>

UiToolStep ==
    \/ PolledWait \/ PauseWait \/ PolledStable \/ PauseStable
    \/ InspectedIos \/ InspectedAndroid \/ LookedQuery \/ LookedTarget \/ LookedScroll \/ Swipe
    \/ VerifyPoint \/ Tap \/ Type \/ VerifyTyped \/ ReadTyped
================================================================================
