---------------------------- MODULE ActionVerdict ----------------------------
(***************************************************************************)
(* How the orchestrator judges one action from the summaries before and    *)
(* after it: failure category, step state, evidence, the budget of         *)
(* re-reads, the refresh, the checkpoint and the progress marker           *)
(* (action-orchestrator-model.ts and the loop of action-orchestrator.ts).  *)
(* v is the verdict in progress:                                           *)
(*   status, reason - of the action so far                                 *)
(*   low, target    - status and target resolution of the executed intent  *)
(*   pre, post      - the two summaries                                    *)
(*   handoff        - "none", or the phase that saw a manual handoff       *)
(*   attempt        - reads of the screen after the action so far          *)
(***************************************************************************)
EXTENDS ScreenState

Statuses == {"success", "partial", "failed"}

\* What executing an intent reports: its status, its reason and what became
\* of the target ("obscured" stands for obscuredByHigherRanked).
Targets == {"none", "resolved", "partial_match", "off_screen", "disabled_match", "obscured"}
Reasons == {"ok", "no_match", "ambiguous_match", "unsupported_operation", "adapter_error"}
ExecResult == [status: Statuses, reason: Reasons, target: Targets]

Changed(v) == HasStateChanged(v.pre, v.post)

FailureCategory(v) ==
    IF v.status = "success" /\ Changed(v) THEN "undefined"
    ELSE IF v.reason = "unsupported_operation" THEN "unsupported"
    ELSE IF v.reason = "no_match" THEN "selector_missing"
    ELSE IF v.reason = "ambiguous_match" THEN "selector_ambiguous"
    ELSE IF v.target = "off_screen" THEN "selector_missing"
    ELSE IF v.target \in {"obscured", "disabled_match"} THEN "blocked"
    ELSE IF v.pre.readiness = "interrupted" \/ v.pre.blocking # {} THEN "blocked"
    ELSE IF v.pre.readiness \in WaitingReadiness THEN "waiting"
    ELSE IF Changed(v) /\ v.low = "failed" THEN "transport"
    ELSE "no_state_change"

\* A handoff overrides the category and the step state wherever it is seen.
Category(v) == IF v.handoff # "none" THEN "blocked" ELSE FailureCategory(v)

StepState(v) ==
    IF v.handoff # "none" \/ v.post.readiness \in TerminalReadiness THEN "terminal_stop"
    ELSE IF v.status = "success" /\ Changed(v) THEN "checkpoint_candidate"
    ELSE IF v.status = "partial" /\ Changed(v) THEN "partial_progress"
    ELSE IF Category(v) = "blocked" THEN "replay_recommended"
    ELSE IF v.post.readiness \in WaitingReadiness THEN "recoverable_waiting"
    ELSE IF v.post.readiness = "degraded_success" THEN "degraded_but_continue_safe"
    ELSE IF v.status = "success" THEN "ready_to_execute"
    ELSE "terminal_stop"

RetryableSteps == {"recoverable_waiting", "partial_progress", "degraded_but_continue_safe"}

\* The budget is fixed by the first step state, not by the latest one.
MaxRetryAttempts(step) ==
    CASE step \in {"recoverable_waiting", "partial_progress"} -> 3
      [] step = "degraded_but_continue_safe" -> 2
      [] OTHER -> 1

\* The evidence is never "none": the runtime delta summary is always some
\* text, so the stop on missing evidence cannot bite.
EvidenceConfidence(v) ==
    IF v.pre.screenId # v.post.screenId THEN "strong"
    ELSE IF Changed(v) THEN "moderate" ELSE "weak"

ShouldRetryStep(v) ==
    /\ StepState(v) \in RetryableSteps /\ v.attempt < v.budget
    /\ EvidenceConfidence(v) = "none" => v.attempt <= 1

\* The loop reads at least once before it looks at a change.
ShouldReadAgain(v) == ShouldRetryStep(v) /\ (v.attempt = 1 \/ ~Changed(v))

\* A read of the screen after the action: a handoff on it makes the status
\* partial, whatever it was.
Reread(v, post) ==
    LET seen == [v EXCEPT !.post = post, !.attempt = @ + 1]
    IN IF post.manualHandoff
       THEN [seen EXCEPT !.handoff = "post", !.status = "partial",
                         !.reason = "manual_handoff_required"]
       ELSE seen

\* The first read after the action: it fixes the budget.
FirstRead(v, post) ==
    LET seen == [v EXCEPT !.post = post, !.attempt = 1]
        out  == IF v.handoff = "pre"
                THEN [seen EXCEPT !.status = "failed", !.reason = "manual_handoff_required"]
                ELSE IF post.manualHandoff
                THEN [seen EXCEPT !.handoff = "post", !.status = "partial",
                                  !.reason = "manual_handoff_required"]
                ELSE seen
    IN [out EXCEPT !.budget = MaxRetryAttempts(StepState(out))]

\* After the loop: an exhausted budget without a change and a terminal
\* readiness both fail the action.
\* Mutant: a terminal readiness does not fail the action.
SettleWithoutTerminal(v) ==
    IF ~Changed(v) /\ v.attempt >= v.budget /\ StepState(v) \in RetryableSteps
    THEN [v EXCEPT !.status = "failed", !.reason = "retry_exhausted"]
    ELSE v
Settle(v) ==
    LET exhausted == ~Changed(v) /\ v.attempt >= v.budget /\ StepState(v) \in RetryableSteps
    IN CASE v.post.readiness \in TerminalReadiness ->
              [v EXCEPT !.status = "failed", !.reason = "network_terminal"]
         [] v.post.readiness \notin TerminalReadiness /\ exhausted ->
              [v EXCEPT !.status = "failed", !.reason = "retry_exhausted"]
         [] OTHER -> v

ShouldRefresh(v) ==
    /\ v.handoff = "none" /\ ~Changed(v) /\ v.status # "failed"
    /\ Category(v) \in {"no_state_change", "transport", "undefined"}

\* The refresh takes the new screen only when it differs from the last read,
\* and looks for a handoff on it but not for a terminal readiness.
Refresh(v, post) ==
    IF HasStateChanged(v.post, post)
    THEN [Reread(v, post) EXCEPT !.attempt = v.attempt] ELSE v
=============================================================================
