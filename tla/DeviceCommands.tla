---------------------------- MODULE DeviceCommands ----------------------------
(***************************************************************************)
(* The tools that are a plan of commands, run one after the other:         *)
(* launch_app, install_app, reset_app_state, terminate_app,                *)
(* take_screenshot, record_screen, get_logs, get_crash_signals,            *)
(* collect_diagnostics and the two performance tools                       *)
(* (packages/adapter-maestro/src).                                         *)
(*                                                                         *)
(* A step of a plan is [cmd, fail, file]: what the tool does when the      *)
(* command does not exit with 0, and when the artifact the answer names is *)
(* written.                                                                *)
(***************************************************************************)
EXTENDS UiTools

CommandTools == {"launch_app", "install_app", "reset_app_state", "terminate_app",
                 "take_screenshot", "record_screen", "get_logs", "get_crash_signals",
                 "collect_diagnostics", "measure_android_performance",
                 "measure_ios_performance"}
\* Those whose answer names an artifact of the call.
Capturing == CommandTools \ {"launch_app", "install_app", "reset_app_state", "terminate_app"}

Failures == {"stop",     \* the tool answers failed at once
             "partial",  \* ... or partial
             "late",     \* it goes on, and answers failed at the end
             "degrade",  \* ... or partial
             "ignore",   \* it goes on as if nothing had happened
             "cleanup",  \* it answers failed after the last command of the plan
             "next"}     \* the next command is tried instead, or the tool fails
Run(cmd, fail, file) == [cmd |-> cmd, fail |-> fail, file |-> file]
Must(cmd) == Run(cmd, "stop", "no")
Try(cmd)  == Run(cmd, "ignore", "no")
Only(test, step) == IF test THEN <<step>> ELSE <<>>

----------------------------------------------------------------------------
\* The application tools.
LaunchGuard(c) ==
    CASE c.platform = "none" -> Misconfigured
      [] c.profile = "phase1" /\ ~c.url -> Refuse("partial", "configuration_error")
      [] c.dry -> Succeeds
      [] OTHER -> NoAnswer
InstallGuard(c) ==
    CASE c.platform = "none" -> Misconfigured
      [] c.profile = "phase1" -> Unsupported("partial")
      [] ~c.artifact -> Refuse("partial", "configuration_error")
      [] c.dry -> Succeeds
      [] OTHER -> NoAnswer

\* buildResetPlan of each platform: <<>> is a strategy it does not support.
\* clear_data takes the application off an iOS simulator.
Reinstall == <<Must("uninstall"), Must("install")>>
AndroidReset(strategy) ==
    CASE strategy = "clear_data" -> <<Must("clear")>>
      [] strategy = "uninstall_reinstall" -> Reinstall
      [] OTHER -> <<>>
IosReset(strategy) ==
    CASE strategy = "clear_data" -> <<Must("uninstall")>>
      [] strategy = "uninstall_reinstall" -> Reinstall
      [] OTHER -> <<Must("keychain")>>
ResetPlan(c) ==
    CASE c.platform = "android" -> AndroidReset(c.strategy)
      [] c.platform = "ios" /\ c.device = "physical" -> <<>>
      [] OTHER -> IosReset(c.strategy)

ResetGuard(c) ==
    CASE c.platform = "none" -> Misconfigured
      [] ResetPlan(c) = <<>> -> Unsupported("partial")
      [] ~c.appId /\ c.strategy # "keychain_reset" -> Misconfigured
      [] c.strategy = "uninstall_reinstall" /\ ~c.artifact -> Misconfigured
      [] c.dry -> Succeeds
      [] OTHER -> NoAnswer

\* The other tools of this module have no guard of their own.
PlainGuard(c) ==
    CASE c.platform = "none" -> Misconfigured
      [] c.dry -> Succeeds
      [] OTHER -> NoAnswer

CommandGuard(c) ==
    CASE c.tool = "launch_app" -> LaunchGuard(c)
      [] c.tool = "install_app" -> InstallGuard(c)
      [] c.tool = "reset_app_state" -> ResetGuard(c)
      [] OTHER -> PlainGuard(c)

----------------------------------------------------------------------------
\* The plans.
TerminatePlan == <<Must("terminate_app")>>

\* On Android the tool writes what screencap printed, whatever its exit.
ScreenshotPlan(c) ==
    <<Run("screenshot", "stop", IF c.platform = "android" THEN "always" ELSE "ok")>>

\* What could not be recorded is cleaned up, and so is what could not be pulled.
\* On iOS one script records, and ends with 0 whatever simctl did.
RecordPlan(c) ==
    IF c.platform = "ios" THEN <<Run("record", "ignore", "ok")>>
    ELSE <<Run("record", "cleanup", "no"), Run("pull", "late", "ok"), Try("cleanup")>>

\* Mutant: the log is answered and not saved.
LogsUnsaved(c) ==
    Only(c.platform = "android" /\ c.appId, Try("pidof")) \o <<Must("logs")>>

\* The filter by application asks for its process first; without an answer the
\* logs are not filtered.
LogsPlan(c) ==
    Only(c.platform = "android" /\ c.appId, Try("pidof")) \o <<Run("logs", "stop", "ok")>>

\* Android reads the crash buffer and the list of ANR traces, and both must do.
AndroidCrashPlan(c) ==
    Only(c.appId, Try("pidof"))
    \o <<Run("crash_buffer", "late", "no"), Run("anr_list", "late", "ok"), Try("anr_pull")>>
\* A phone has two ways to its reports, and nothing saves what they return.
PhoneCrashPlan == <<Run("devicectl", "next", "no"), Run("idevicecrashreport", "next", "no")>>
CrashPlan(c) ==
    CASE c.platform = "android" -> AndroidCrashPlan(c)
      [] c.platform = "ios" /\ c.device = "physical" -> PhoneCrashPlan
      [] OTHER -> <<Run("getenv", "stop", "ok")>>

DiagnosticsPlan == <<Run("diagnose", "stop", "ok")>>

\* Perfetto: three probes, the capture, and the analysis of what was pulled,
\* whose report is written even when the trace could not be queried.
PerfettoProbes  == <<Try("sdk"), Must("trace_processor"), Must("perfetto")>>
PerfettoCapture == <<Must("push"), Must("record"), Run("pull", "partial", "no")>>
PerfettoQueries == <<Run("tables", "degrade", "always"), Try("queries")>>

\* xctrace attaches to the application, and launches it when it is not running.
XctraceCapture(c) == Only(c.appId, Try("attach")) \o <<Must("record")>>
XctraceExports == <<Run("toc", "degrade", "no"), Run("export", "degrade", "always")>>

Plan(c) ==
    CASE c.tool = "launch_app" -> <<Must("launch_app")>>
      [] c.tool = "install_app" -> <<Must("install")>>
      [] c.tool = "reset_app_state" -> ResetPlan(c)
      [] c.tool = "terminate_app" -> TerminatePlan
      [] c.tool = "take_screenshot" -> ScreenshotPlan(c)
      [] c.tool = "record_screen" -> RecordPlan(c)
      [] c.tool = "get_logs" -> LogsPlan(c)
      [] c.tool = "get_crash_signals" -> CrashPlan(c)
      [] c.tool = "collect_diagnostics" -> DiagnosticsPlan
      [] c.tool = "measure_android_performance" ->
           PerfettoProbes \o PerfettoCapture \o PerfettoQueries
      [] c.tool = "measure_ios_performance" -> XctraceCapture(c) \o XctraceExports

----------------------------------------------------------------------------
\* Mutant: the tool goes on with the plan after a command that failed.
AfterAnything(step, ok) ==
    {[todo |-> Tail(run.todo), verdict |-> IF ok THEN "success" ELSE "failed"]}

\* What is left of the plan after a step, and the answer it will end with.
Stopping(verdict) == [todo |-> <<>>, verdict |-> verdict]
After(step, ok) ==
    LET rest == Tail(run.todo)
        GoesOn(verdict) == [todo |-> rest, verdict |-> verdict]
    IN  IF ok
        THEN {IF step.fail = "next" THEN Stopping("success") ELSE GoesOn(run.verdict)}
        ELSE CASE step.fail = "stop" -> {Stopping("failed")}
               [] step.fail = "partial" -> {Stopping("partial")}
               [] step.fail = "late" -> {GoesOn("failed")}
               [] step.fail = "degrade" -> {GoesOn("partial")}
               [] step.fail = "cleanup" ->
                    {[todo |-> <<run.todo[Len(run.todo)]>>, verdict |-> "failed"]}
               [] step.fail = "next" -> {Stopping("failed"), GoesOn("failed")}
               [] step.fail = "ignore" -> {GoesOn(run.verdict)}

Saved(step, ok) ==
    step.file = "always" \/ (step.file = "ok" /\ ok /\ run.verdict = "success")

AppAfter(cmd, ok) ==
    CASE cmd = "install" /\ ok -> "installed"
      [] cmd = "uninstall" /\ ok -> "absent"
      [] OTHER -> dev.app

\* A recording and a trace are files of the device; only the first is removed.
RemoteAfter(cmd, ok) ==
    CASE cmd = "record" /\ call.platform = "android" -> {ok, TRUE}
      [] cmd = "cleanup" -> {dev.remote /\ ~ok}
      [] OTHER -> {dev.remote}

Disturbing == {"launch_app", "terminate_app", "clear", "uninstall", "attach"}

Command ==
    /\ pc = "command"
    /\ LET step == Head(run.todo)
       IN  \E ok \in BOOLEAN, s \in Screens, remote \in BOOLEAN :
             /\ s # dev.shown => step.cmd \in Disturbing
             /\ remote \in RemoteAfter(step.cmd, ok)
             /\ dev' = [Showing(dev, s) EXCEPT !.app = AppAfter(step.cmd, ok),
                                               !.remote = remote]
             /\ obs' = [Saw(obs, s) EXCEPT
                  !.sent = IF step.fail = "ignore" THEN @ ELSE Sent(step.cmd, ok),
                  !.saved = @ \/ Saved(step, ok)]
             /\ \E next \in After(step, ok) :
                  /\ run' = [run EXCEPT !.todo = next.todo, !.verdict = next.verdict,
                       !.got = IF next.todo = <<>> THEN Append(@, next.verdict) ELSE @]
                  /\ CASE next.todo # <<>> -> UNCHANGED <<pc, out>>
                       [] next.todo = <<>> /\ call.tool = "collect_debug_evidence" ->
                            pc' = "part" /\ UNCHANGED out
                       [] OTHER -> Finish(next.verdict, IF next.verdict = "success" THEN "ok"
                                                        ELSE "adapter_error")
    /\ UNCHANGED <<call, cap, now>>
================================================================================
