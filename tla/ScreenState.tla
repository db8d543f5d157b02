---------------------------- MODULE ScreenState ----------------------------
(***************************************************************************)
(* What one look at the device yields: the state summary the adapter       *)
(* derives from the visible texts and the log, whatever became of them on  *)
(* the way (a capture may fail, be cut or be old), the comparisons between *)
(* two summaries, and the interruption that a summary shows                *)
(* (session-state.ts, interruption-detector.ts, interruption-classifier.ts,*)
(* interruption-orchestrator.ts).  A raw screen carries the content that   *)
(* two summaries are compared on; the strings behind it are left out.      *)
(***************************************************************************)
EXTENDS Naturals, Sequences, FiniteSets

CONSTANTS Pages,     \* screen ids: the first visible text of a page
          Contents   \* whatever else a page shows

\* detectBlockingSignals, in the order of the code.
Signals == {"permission_prompt", "loading_indicator", "network_instability",
            "error_state", "empty_state", "dialog_actions"}
PageHints == {"authentication", "detail", "catalog", "empty"}
LogWords  == {"network", "error", "offline", "backend"}
Roles     == {"none", "alert", "sheet", "dialog"}

RawScreen == [page: Pages, content: Contents, blocking: SUBSET Signals,
              hints: SUBSET PageHints, log: SUBSET LogWords, crash: BOOLEAN,
              challenge: BOOLEAN, role: Roles, clickable: BOOLEAN]

(***************************************************************************)
(* What a look at screen s yields instead of s.  A capture that failed, or *)
(* that was read without an error but holds no node, is an empty summary;  *)
(* one that was cut off shows less; an Android read after a failed dump    *)
(* shows the file of an earlier dump; and the log is read apart from all   *)
(* of these, or not.                                                       *)
(***************************************************************************)
Unseen == "unseen"    \* the page and the content of a capture without nodes
Empty(s) == [s EXCEPT !.page = Unseen, !.content = Unseen, !.blocking = {}, !.hints = {},
                      !.challenge = FALSE, !.role = "none", !.clickable = FALSE]
Cut(s)   == [s EXCEPT !.blocking = {}, !.hints = {}, !.challenge = FALSE, !.role = "none"]
Stale(s, dump) == [dump EXCEPT !.log = s.log, !.crash = s.crash]
WithoutLog(s)  == [s EXCEPT !.log = {}, !.crash = FALSE]

Partial(s) == {Empty(s), Cut(s), WithoutLog(s), WithoutLog(Empty(s)), WithoutLog(Cut(s))}
Outdated(s, dump) == {Stale(s, dump), WithoutLog(Stale(s, dump))}

HasInterruption(s) == s.blocking \cap {"permission_prompt", "dialog_actions"} # {}
HasNetworkInstability(s) == "network_instability" \in s.blocking \/ "network" \in s.log
HasErrorState(s) == "error_state" \in s.blocking \/ "error" \in s.log
HasLoading(s) == "loading_indicator" \in s.blocking
HasOfflineSignal(s) == "offline" \in s.log
HasBackendTerminal(s) == HasErrorState(s) /\ ~HasLoading(s) /\ "backend" \in s.log
HasDegradedSuccess(s) ==
    /\ HasNetworkInstability(s) /\ s.clickable
    /\ ~HasLoading(s) /\ ~HasOfflineSignal(s) /\ ~HasBackendTerminal(s)

AppPhase(s) ==
    CASE s.crash                                  -> "crashed"
      [] ~s.crash /\ (HasInterruption(s) \/ HasErrorState(s)) -> "blocked"
      [] OTHER ->
           IF "authentication" \in s.hints THEN "authentication"
           ELSE IF "detail" \in s.hints THEN "detail"
           ELSE IF "catalog" \in s.hints THEN "catalog"
           ELSE IF "empty" \in s.hints \/ "empty_state" \in s.blocking THEN "empty"
           ELSE IF HasLoading(s) THEN "loading"
           ELSE IF s.page # Unseen THEN "ready" ELSE "unknown"

Readiness(s) ==
    IF HasInterruption(s) THEN "interrupted"
    ELSE IF HasOfflineSignal(s) THEN "offline_terminal"
    ELSE IF HasBackendTerminal(s) THEN "backend_failed_terminal"
    ELSE IF HasLoading(s)
         THEN IF HasNetworkInstability(s) THEN "waiting_network" ELSE "waiting_ui"
    ELSE IF HasDegradedSuccess(s) THEN "degraded_success"
    ELSE IF HasNetworkInstability(s) THEN "waiting_network"
    ELSE IF AppPhase(s) = "ready" THEN "ready" ELSE "unknown"

\* The summary of a raw screen: what every later decision reads.
Summary(s) ==
    [screenId |-> s.page, content |-> s.content, appPhase |-> AppPhase(s),
     readiness |-> Readiness(s), blocking |-> s.blocking, hints |-> s.hints,
     failures |-> s.log, manualHandoff |-> s.challenge]

\* hasStateChanged compares every material field of two summaries.
HasStateChanged(a, b) == a # b

\* hasStateDrift compares four fields only: other content may differ.
HasStateDrift(a, b) ==
    \/ a.appPhase # b.appPhase  \/ a.readiness # b.readiness
    \/ a.screenId # b.screenId  \/ a.blocking # b.blocking

TerminalReadiness == {"backend_failed_terminal", "offline_terminal"}
WaitingReadiness  == {"waiting_network", "waiting_ui"}

(***************************************************************************)
(* Interruptions: the keys of the signals the detector pushes, whether they*)
(* amount to an interruption, and the type the classifier gives them by    *)
(* its scores (a stable sort: the first of the best wins).                 *)
(***************************************************************************)
SignalKeys(s) ==
    s.blocking
      \cup (IF Readiness(s) = "interrupted" THEN {"readiness"} ELSE {})
      \cup (IF "permission_prompt" \in s.blocking THEN {"owner", "visible_text"} ELSE {})
      \cup (IF s.role # "none" THEN {"container_role"} ELSE {})

Detected(s) ==
    SignalKeys(s) \cap {"permission_prompt", "dialog_actions", "interrupted",
                        "container_role", "visible_text"} # {}

Score(s, type) ==
    LET keys   == SignalKeys(s)
        one(c) == IF c THEN 1 ELSE 0
    IN CASE type = "permission_prompt" ->
              2 * one("permission_prompt" \in keys) + one("owner" \in keys)
         [] type = "action_sheet" ->
              one("container_role" \in keys) + one(s.role = "sheet")
         [] type = "system_alert" ->
              one(s.role \in {"alert", "dialog"}) + one("dialog_actions" \in keys)
         [] type = "overlay" ->
              one("dialog_actions" \in keys) + one("owner" \in keys)

InterruptionTypes == <<"permission_prompt", "action_sheet", "system_alert", "overlay">>

ClassifyInterruption(s) ==
    LET score(i) == Score(s, InterruptionTypes[i])
        winner   == CHOOSE i \in 1..4 :
                       \A j \in 1..4 : score(j) < score(i) \/ (score(j) = score(i) /\ i <= j)
    IN IF score(winner) = 0 THEN "unknown" ELSE InterruptionTypes[winner]

\* The slots a classification offers; a type without a list checks nothing.
ButtonSlots(type) ==
    CASE type = "permission_prompt" -> {"primary", "secondary"}
      [] type = "action_sheet"      -> {"primary", "cancel", "destructive"}
      [] OTHER -> {"primary", "secondary", "cancel", "destructive", "unset"}
=============================================================================
