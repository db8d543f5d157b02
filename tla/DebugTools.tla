------------------------------ MODULE DebugTools ------------------------------
(***************************************************************************)
(* The tools that ask the debugger of a JavaScript application through     *)
(* Metro (js-debug.ts): list_js_debug_targets, capture_js_console_logs and *)
(* capture_js_network_events; and collect_debug_evidence                   *)
(* (diagnostics-tools.ts), which runs them after the tools for logs,       *)
(* crashes and diagnostics, and sums up what they answered.                *)
(***************************************************************************)
EXTENDS DeviceCommands

Captures   == {"capture_js_console_logs", "capture_js_network_events"}
DebuggerTools == Captures \cup {"list_js_debug_targets", "collect_debug_evidence"}

----------------------------------------------------------------------------
\* The guards.  A target is a socket that is given, or none.
ListGuard(c) == IF c.dry THEN Succeeds ELSE NoAnswer
CaptureGuard(c) ==
    CASE c.dry -> Succeeds
      [] c.target = "none" -> Misconfigured
      [] c.target = "malformed" -> Refuse("threw", "adapter_error")
      [] OTHER -> NoAnswer
EvidenceGuard(c) ==
    CASE c.platform = "none" -> Misconfigured
      [] c.dry -> Succeeds
      [] OTHER -> NoAnswer

DebugGuard(c) ==
    CASE c.tool = "list_js_debug_targets" -> ListGuard(c)
      [] c.tool \in Captures -> CaptureGuard(c)
      [] c.tool = "collect_debug_evidence" -> EvidenceGuard(c)

\* The evidence looks for a target itself unless one is given.
FirstDebugStep(c) ==
    CASE c.tool \in Captures -> "listen"
      [] c.tool = "collect_debug_evidence" /\ ~(c.js /\ c.target = "none") -> "part"
      [] OTHER -> "list"

----------------------------------------------------------------------------
\* One request to Metro, cut off by a timer; an empty list is a success.
ListTargets ==
    /\ pc = "list"
    /\ \E answer \in {"refused", "none", "given"} :
         /\ obs' = [obs EXCEPT !.sent = Sent("json_list", answer # "refused")]
         /\ IF call.tool = "collect_debug_evidence"
            THEN /\ run' = [run EXCEPT !.socket = IF answer = "given" THEN "given" ELSE "none"]
                 /\ pc' = "part" /\ UNCHANGED out
            ELSE /\ UNCHANGED run
                 /\ IF answer = "refused" THEN Finish("failed", "configuration_error")
                    ELSE Finish("success", "ok")
    /\ UNCHANGED <<call, dev, cap, now>>

----------------------------------------------------------------------------
\* The parts of the evidence, and the one that runs.
Parts(c) ==
    <<"get_logs", "get_crash_signals">>
    \o Only(c.bundle, "collect_diagnostics")
    \o IF c.js THEN <<"capture_js_console_logs", "capture_js_network_events">> ELSE <<>>
Part == IF call.tool = "collect_debug_evidence" THEN Parts(call)[Len(run.got) + 1] ELSE call.tool

\* A part that fails is noted and does not stop the others; a malformed socket
\* ends the whole call.
NextPart ==
    /\ pc = "part"
    /\ CASE Len(run.got) = Len(Parts(call)) -> pc' = "report" /\ UNCHANGED <<run, out>>
         [] Len(run.got) < Len(Parts(call)) /\ Part \in CommandTools ->
              /\ run' = [run EXCEPT !.todo = Plan([call EXCEPT !.tool = Part]),
                                    !.verdict = "success"]
              /\ pc' = "command" /\ UNCHANGED out
         [] Len(run.got) < Len(Parts(call)) /\ Part \in Captures /\ run.socket = "none" ->
              run' = [run EXCEPT !.got = Append(@, "failed")] /\ UNCHANGED <<pc, out>>
         [] Len(run.got) < Len(Parts(call)) /\ Part \in Captures /\ run.socket = "malformed" ->
              Finish("threw", "adapter_error") /\ UNCHANGED run
         [] OTHER -> run' = [run EXCEPT !.heard = Silence] /\ pc' = "listen" /\ UNCHANGED out
    /\ UNCHANGED <<call, dev, cap, now, obs>>

----------------------------------------------------------------------------
\* A capture listens to the debugger until it has enough, the socket fails, or
\* its timer ends it, which is a success whatever it has heard.
Settle(status) ==
    IF call.tool = "collect_debug_evidence"
    THEN run' = [run EXCEPT !.got = Append(@, status), !.heard = Silence]
         /\ pc' = "part" /\ UNCHANGED out
    ELSE UNCHANGED run
         /\ Finish(status, IF status = "success" THEN "ok" ELSE "configuration_error")
HeardOf(heard, enough) ==
    IF enough THEN Settle("success") ELSE run' = [run EXCEPT !.heard = heard] /\ UNCHANGED <<pc, out>>

HearLog ==
    /\ pc = "listen" /\ Part = "capture_js_console_logs"
    /\ LET heard == [run.heard EXCEPT !.logs = @ + 1]
       IN  HeardOf(heard, heard.logs >= call.most)
    /\ UNCHANGED <<call, dev, cap, now, obs>>

\* What one message says of a request: a later status replaces an earlier one,
\* an error stays.
Told(request, message) ==
    CASE message \in {"fine", "bad"} -> [request EXCEPT !.known = TRUE, !.status = message]
      [] message = "lost" -> [request EXCEPT !.known = TRUE, !.lost = TRUE]
      [] OTHER -> [request EXCEPT !.known = TRUE]
\* The evidence asks for failures only.
Failing(request) == request.lost \/ request.status = "bad"
Kept(requests) ==
    {r \in DOMAIN requests : requests[r].known
        /\ (call.failuresOnly \/ call.tool = "collect_debug_evidence" => Failing(requests[r]))}

HearRequest ==
    /\ pc = "listen" /\ Part = "capture_js_network_events"
    /\ \E r \in Requests, message \in {"sent", "fine", "bad", "lost"} :
         LET heard == [run.heard EXCEPT !.requests[r] = Told(@, message)]
         IN  HeardOf(heard, Cardinality(Kept(heard.requests)) >= call.most)
    /\ UNCHANGED <<call, dev, cap, now, obs>>

\* Events of the application: they need not come.
Hear == HearLog \/ HearRequest

ListenEnds ==
    /\ pc = "listen"
    /\ \E ok \in BOOLEAN :
         /\ Settle(IF ok THEN "success" ELSE "failed")
         /\ obs' = IF ok THEN obs ELSE [obs EXCEPT !.sent = Sent("socket", FALSE)]
    /\ UNCHANGED <<call, dev, cap, now>>

----------------------------------------------------------------------------
\* The answer: the first native tool that failed gives the reason, else the
\* diagnostics, else the console, even if these succeeded.
Verdict(got) ==
    CASE {got[i] : i \in DOMAIN got} = {"success"} -> "success"
      [] "success" \notin {got[i] : i \in DOMAIN got} -> "failed"
      [] OTHER -> "partial"
Reason(got) ==
    CASE Verdict(got) = "success" -> "ok"
      [] got[1] # "success" \/ got[2] # "success" -> "adapter_error"
      [] call.bundle -> IF got[3] = "success" THEN "ok" ELSE "adapter_error"
      [] OTHER -> IF got[3] = "success" THEN "ok" ELSE "configuration_error"

\* The latest file that an action on an iPhone left may tell of a startup of the
\* runner that failed; this takes a success back.
Startups == IF call.platform = "ios" THEN {"none", "failed"} ELSE {"none"}

\* The report is written whatever was found.
Report ==
    /\ pc = "report"
    /\ \E startup \in Startups :
         IF Reason(run.got) = "ok" /\ startup = "failed"
         THEN Finish("partial", "startup")
         ELSE Finish(Verdict(run.got), Reason(run.got))
    /\ obs' = [obs EXCEPT !.saved = TRUE]
    /\ UNCHANGED <<call, dev, cap, run, now>>

DebugStep == ListTargets \/ NextPart \/ ListenEnds \/ Report
================================================================================
