-------------------------------- MODULE Replays --------------------------------
(***************************************************************************)
(* The tools of packages/adapter-maestro that carry out several actions,   *)
(* one after the other: replay_checkpoint_chain, run_flow (a preview step  *)
(* by step, or a script that runs the flow a number of times),             *)
(* complete_task, and validate_flow, which only looks at the steps.        *)
(*                                                                         *)
(* Calls of one session follow each other, with plain actions in between.  *)
(* They share the records of the actions and the directory of the runs.    *)
(***************************************************************************)
EXTENDS Integers, FiniteSets, SequencesExt, Filters

CONSTANTS Calls,    \* calls of the tools
          Records,  \* what an action can leave: [command, outcome, full, risky, post]: full
                    \* progress or a met postcondition; a risky word or a fallback
          Posts,    \* screens: [screen, readiness, phase], a field may be Unknown
          MaxLog,   \* bound: records of the session
          MaxCalls, \* bound: calls in a row
          MaxRuns   \* bound: runs of one flow

Unknown == "unknown"

ASSUME ReplayAssumption ==
    /\ \A r \in Records : r.outcome \in {"success", "partial", "failed"} /\ r.post \in Posts
    /\ MaxLog \in Nat /\ MaxCalls \in Nat /\ MaxRuns \in Nat \ {0}
    /\ \A c \in Calls : /\ c.count \in 1..MaxRuns /\ c.from \in Nat /\ c.max \in Nat
                        /\ c.flow \in Seq(STRING)

VARIABLES log,     \* records of the session's actions, oldest first
          dir,     \* the artifactRoot the calls give: what result.txt of each run says
          call, pc,
          run,     \* the call's variables: [plan, todo, anchor, newest, verdict]
          results, \* what the answer says of each step: [step, status]
          events,  \* what the call wrote to the timeline
          did,     \* history: what the call really did: [step, verdict]
          out,     \* what it answered
          left     \* calls to come

vars == <<log, dir, call, pc, run, results, events, did, out, left>>
stores == <<log, dir>>

NoRun == [plan |-> <<>>, todo |-> <<>>, anchor |-> 0, newest |-> 0, verdict |-> "success"]

Init ==
    /\ log = <<>> /\ dir = [k \in 1..MaxRuns |-> "none"]
    /\ call \in Calls /\ pc = "idle" /\ run = NoRun
    /\ results = <<>> /\ events = <<>> /\ did = <<>> /\ out = "none" /\ left = MaxCalls

Answer(status) == out' = status /\ pc' = "idle"
Goes(step) == pc' = step /\ UNCHANGED out
Note(kinds) == events' = events \o kinds
Result(n, status) == [step |-> n, status |-> status]
Skipped(steps) == [i \in DOMAIN steps |-> Result(steps[i], "skipped")]
UpTo(n) == [i \in 1..n |-> i]
SomeResult(status) == \E i \in DOMAIN results : results[i].status = status

----------------------------------------------------------------------------
\* Any action of the session leaves a record; the last one written is listed
\* first.
Act ==
    /\ pc = "idle" /\ Len(log) < MaxLog
    /\ \E r \in Records : log' = Append(log, r)
    /\ UNCHANGED <<dir, call, pc, run, results, events, did, out, left>>

\* The action a step carries out.  A verdict is what
\* perform_action_with_evidence answers; a guard of it that refuses leaves no
\* record.
Live == [status : {"success", "partial", "failed"}, terminal : BOOLEAN, post : Posts,
         full : BOOLEAN, recorded : BOOLEAN]
Verdicts == {v \in Live : /\ v.full => v.status = "success"
                          /\ ~v.recorded => v.status = "failed"}
Perform(command, v) ==
    log' = IF v.recorded
           THEN Append(log, [command |-> command, outcome |-> v.status,
                             full |-> v.full, risky |-> FALSE, post |-> v.post])
           ELSE log

----------------------------------------------------------------------------
\* replay_checkpoint_chain.
Listing == Reverse(UpTo(Len(log)))
Stable(n) == log[n].outcome = "success" /\ log[n].full
SafeCommands == {"tap", "type", "wait", "launch", "terminate"}
ReplaySafe(n) ==
    log[n].outcome = "success" /\ ~log[n].risky /\ log[n].command \in SafeCommands

\* The walk starts at the end of a list that begins with the latest record.
Anchors == {i \in DOMAIN Listing : Stable(Listing[i])}
Anchor == Max(Anchors)
AfterAnchor == SubSeq(Listing, Anchor + 1, Len(Listing))
Window(c) ==
    LET offered == SubSeq(AfterAnchor, c.from + 1, Len(AfterAnchor))
    IN  IF c.max = 0 \/ c.max > Len(offered) THEN offered ELSE SubSeq(offered, 1, c.max)

ChainBegin(c) ==
    /\ c.tool = "replay_checkpoint_chain" /\ UNCHANGED <<stores, events, did>>
    /\ IF c.platform = "none" \/ Anchors = {}
       THEN Answer("failed") /\ run' = NoRun /\ results' = <<>>
       ELSE LET safe == {i \in DOMAIN Window(c) : ReplaySafe(Window(c)[i])}
                todo == Picked(Window(c), safe)
            IN  /\ run' = [NoRun EXCEPT !.plan = Window(c), !.todo = todo,
                             !.anchor = Listing[Anchor],
                             !.newest = Listing[Min(Anchors)]]
                /\ results' = Skipped(Picked(Window(c), DOMAIN Window(c) \ safe))
                /\ IF todo = <<>> THEN Answer("success") ELSE Goes("check")

\* Two of the three must differ from what the anchor saw for a refusal.  A
\* preview knows nothing of the screen.
Divergences(seen) ==
    LET then == log[run.anchor].post
        Differ(a, b) == a # b
    IN  Cardinality({f \in {"readiness", "phase"} : Differ(then[f], seen[f])}
                    \cup {f \in {"screen"} : Unknown \notin {then[f], seen[f]}
                                            /\ Differ(then[f], seen[f])})
Nowhere == [screen |-> Unknown, readiness |-> Unknown, phase |-> Unknown]

ChainCheck ==
    /\ pc = "check"
    /\ \E read \in BOOLEAN, seen \in IF call.dry THEN {Nowhere} ELSE Posts :
         IF read /\ Divergences(seen) >= 2 THEN Answer("partial") ELSE Goes("replay")
    /\ UNCHANGED <<stores, call, run, results, events, did, left>>

\* A step that fails does not stop the chain.
Compared(n, v) ==
    CASE v.status = "failed" -> "failed"
      [] v.status = "partial" -> "diverged"
      [] Unknown \notin {v.post.screen, log[n].post.screen}
         /\ v.post.screen # log[n].post.screen -> "diverged"
      [] OTHER -> "success"
ChainReplay ==
    /\ pc = "replay" /\ run.todo # <<>>
    /\ LET n == Head(run.todo)
       IN  IF call.dry
           THEN results' = Append(results, Result(n, "success")) /\ UNCHANGED <<log, did>>
           ELSE \E v \in Verdicts :
                  /\ Perform(log[n].command, v)
                  /\ results' = Append(results, Result(n, Compared(n, v)))
                  /\ did' = Append(did, Result(n, v.status))
    /\ run' = [run EXCEPT !.todo = Tail(@)]
    /\ UNCHANGED <<dir, call, pc, events, out, left>>
ChainEnds ==
    /\ pc = "replay" /\ run.todo = <<>>
    /\ Answer(IF SomeResult("success") THEN "success" ELSE "failed")
    /\ UNCHANGED <<stores, call, run, results, events, did, left>>

----------------------------------------------------------------------------
\* run_flow.  A flow is the sequence of its commands; a command without
\* arguments is no mapping, and the parser passes it over but counts it.
Commands == {"launch", "tap", "blind", "type", "wait", "absent", "gesture"}
Steps(flow) == InOrder({n \in DOMAIN flow : flow[n] \in Commands})
UnsupportedSteps(flow) == InOrder({n \in DOMAIN flow : flow[n] = "unsupported"})
Counted(flow) == InOrder({n \in DOMAIN flow : flow[n] # "bare"})

\* What the tool does before it runs anything; a preview wants a generated flow.
Preview(c) == c.dry /\ c.generated
FlowBegin(c) ==
    /\ c.tool = "run_flow" /\ UNCHANGED <<stores, did>>
    /\ CASE c.platform = "none" -> Answer("failed") /\ run' = NoRun /\ results' = <<>>
              /\ events' = <<>>
         [] c.platform # "none" /\ Preview(c) /\ UnsupportedSteps(c.flow) = <<>> ->
              /\ run' = [NoRun EXCEPT !.plan = Steps(c.flow), !.todo = Steps(c.flow)]
              /\ results' = <<>> /\ events' = <<"started">> /\ Goes("preview")
         [] c.platform # "none" /\ Preview(c) /\ UnsupportedSteps(c.flow) # <<>> ->
              /\ run' = [NoRun EXCEPT !.plan = Counted(c.flow)]
              /\ results' = [i \in DOMAIN Counted(c.flow) |->
                               Result(Counted(c.flow)[i],
                                      IF c.flow[Counted(c.flow)[i]] = "unsupported"
                                      THEN "failed" ELSE "skipped")]
              /\ events' = <<"started">>
                           \o [i \in DOMAIN UnsupportedSteps(c.flow) |-> "step_failed"]
                           \o <<"stopped", "persisted">>
              /\ Answer("partial")
         [] OTHER ->
              /\ LET runs == IF c.writes THEN UpTo(c.count) ELSE <<>>
                 IN  run' = [NoRun EXCEPT !.plan = runs, !.todo = runs]
              /\ results' = <<>> /\ events' = <<>>
              /\ IF c.custom THEN Answer("partial")
                 ELSE IF c.dry THEN Answer("success")
                 ELSE Goes(IF c.platform = "android" THEN "probe" ELSE "run")

\* executeIntentWithMaestro in a dry run: a selector is not resolved, a step
\* without one is refused, which a text always is, and whatever it does not know
\* is a terminate_app.
DryStatus(command) ==
    CASE command \in {"launch", "absent", "gesture"} -> "success"
      [] command \in {"blind", "type"} -> "failed"
      [] OTHER -> "partial"
DryStepState(command) ==
    IF DryStatus(command) = "success" THEN "ready_to_execute" ELSE "terminal_stop"

\* Mutant: only a failed step stops the replay.
StopsOnFailure(command) == DryStatus(command) = "failed"
ShouldStop(command) ==
    \/ DryStepState(command) \in {"terminal_stop", "recoverable_waiting", "replay_recommended"}
    \/ DryStatus(command) = "failed"

PreviewStep ==
    /\ pc = "preview" /\ run.todo # <<>>
    /\ LET n == Head(run.todo)
           command == call.flow[n]
           status == DryStatus(command)
           stops == ShouldStop(command)
       IN  /\ did' = Append(did, Result(n, status))
           /\ log' = Append(log, [command |-> command, outcome |-> status, full |-> FALSE,
                                  risky |-> FALSE, post |-> Nowhere])
           /\ results' = Append(results, Result(n, status))
                         \o IF stops THEN Skipped(Tail(run.todo)) ELSE <<>>
           /\ Note(<<"step_started", IF status = "failed" THEN "step_failed"
                                     ELSE "step_completed">>
                   \o IF stops THEN <<"stopped">> ELSE <<>>)
           /\ run' = [run EXCEPT !.todo = IF stops THEN <<>> ELSE Tail(@)]
    /\ UNCHANGED <<dir, call, pc, out, left>>

\* A replay that stopped on a partial step is noted as completed as well.
PreviewEnds ==
    /\ pc = "preview" /\ run.todo = <<>>
    /\ Note((IF SomeResult("failed") THEN <<>> ELSE <<"completed">>) \o <<"persisted">>)
    /\ Answer(CASE SomeResult("failed") -> "failed"
                [] SomeResult("partial") -> "partial"
                [] OTHER -> "success")
    /\ UNCHANGED <<stores, call, run, results, did, left>>

\* selectAndroidReplayBackend: the helper packages matter only to a flow with
\* commands that the adb backend does not know.
FlowProbe ==
    /\ pc = "probe"
    /\ \E helpers \in BOOLEAN :
         IF UnsupportedSteps(call.flow) # <<>> /\ ~helpers
         THEN Answer("failed") ELSE Goes("run")
    /\ UNCHANGED <<stores, call, run, results, events, did, left>>

\* The script runs the flow `count' times, each into its own directory, and may
\* end at any point with another exit than 0.
FlowRun ==
    /\ pc = "run" /\ run.todo # <<>>
    /\ LET k == Head(run.todo)
       IN  \E result \in {"PASS", "FAIL"} :
             /\ dir' = [dir EXCEPT ![k] = result]
             /\ did' = Append(did, Result(k, result))
    /\ run' = [run EXCEPT !.todo = Tail(@)]
    /\ UNCHANGED <<log, call, pc, results, events, out, left>>
FlowBreaks ==
    /\ pc = "run"
    /\ \/ UNCHANGED dir
       \/ run.todo # <<>> /\ dir' = [dir EXCEPT ![Head(run.todo)] = IF @ = "none" THEN "empty" ELSE @]
    /\ Answer("failed")
    /\ UNCHANGED <<log, call, run, results, events, did, left>>

\* readRunCounts counts every run-* of the directory, whoever left it.
RunsThere == {k \in DOMAIN dir : dir[k] # "none"}
FlowCollect ==
    /\ pc = "run" /\ run.todo = <<>>
    /\ Answer(CASE RunsThere = {} -> "partial"
                [] \E k \in RunsThere : dir[k] # "PASS" -> "failed"
                [] OTHER -> "success")
    /\ UNCHANGED <<stores, call, run, results, events, did, left>>

----------------------------------------------------------------------------
\* complete_task: at most eight steps, one at least.
MaxTaskSteps == 8
TaskSteps(c) ==
    LET max == IF c.max = 0 THEN 1 ELSE IF c.max > MaxTaskSteps THEN MaxTaskSteps ELSE c.max
    IN  UpTo(IF c.count < max THEN c.count ELSE max)
TaskBegin(c) ==
    /\ c.tool = "complete_task" /\ UNCHANGED <<stores, did>>
    /\ run' = [NoRun EXCEPT !.plan = TaskSteps(c), !.todo = TaskSteps(c)]
    /\ results' = <<>> /\ events' = <<>> /\ Goes("task")

\* The last step that did not succeed decides the status, unless the call went
\* on to see that the state is terminal.
TaskStep ==
    /\ pc = "task" /\ run.todo # <<>>
    /\ \E v \in Verdicts :
         /\ Perform("tap", v)
         /\ results' = Append(results, Result(Head(run.todo), v.status))
         /\ did' = Append(did, Result(Head(run.todo), v.status))
         /\ run' = [run EXCEPT
              !.verdict = IF v.status # "success" /\ (call.strict \/ ~v.terminal) THEN v.status
                          ELSE IF v.terminal THEN "failed" ELSE @,
              !.todo = IF v.terminal \/ (v.status # "success" /\ call.strict) THEN <<>> ELSE Tail(@)]
    /\ UNCHANGED <<dir, call, pc, events, out, left>>
TaskEnds ==
    /\ pc = "task" /\ run.todo = <<>>
    /\ Answer(IF run.verdict = "success" /\ Len(results) < Len(run.plan)
              THEN "partial" ELSE run.verdict)
    /\ UNCHANGED <<stores, call, run, results, events, did, left>>

----------------------------------------------------------------------------
\* validate_flow: the steps of a file or of the records, none of them carried
\* out.  The query it makes is a dry run, which matches nothing.
SessionSteps == [i \in DOMAIN Listing |-> log[Listing[i]].command]
FileSteps(flow) == [i \in DOMAIN Counted(flow) |-> flow[Counted(flow)[i]]]
Queried(c) == IF c.source = "file" THEN {"tap", "wait", "absent"} ELSE {"tap", "wait"}
Validation(c, command) ==
    IF c.platform # "none" /\ command \in Queried(c) THEN "fail" ELSE "warn"
ValidateFlow(c) ==
    /\ c.tool = "validate_flow" /\ UNCHANGED <<stores, events, did>>
    /\ LET steps == CASE c.source = "file" -> FileSteps(c.flow)
                      [] c.source = "session" -> SessionSteps
                      [] OTHER -> <<>>
       IN  /\ run' = [NoRun EXCEPT !.plan = UpTo(Len(steps))]
           /\ results' = [i \in DOMAIN steps |-> Result(i, Validation(c, steps[i]))]
           /\ Answer(IF steps = <<>> \/ \E i \in DOMAIN steps : Validation(c, steps[i]) = "fail"
                     THEN "failed" ELSE "success")

----------------------------------------------------------------------------
\* The next call; the variables of the last one are gone.
Issue ==
    /\ pc = "idle" /\ left > 0
    /\ left' = left - 1
    /\ pc' = "begin" /\ call' \in Calls
    /\ run' = NoRun /\ results' = <<>> /\ events' = <<>> /\ did' = <<>> /\ out' = "none"
    /\ UNCHANGED stores
Begin ==
    /\ pc = "begin"
    /\ ChainBegin(call) \/ FlowBegin(call) \/ TaskBegin(call) \/ ValidateFlow(call)
    /\ UNCHANGED <<call, left>>

\* A record, a timeline event, a summary or a log that cannot be written, and a
\* configuration, a flow or a directory that cannot be read, end the call with an
\* error.
Throw ==
    /\ pc # "idle"
    /\ Answer("threw")
    /\ UNCHANGED <<stores, call, run, results, events, did, left>>

Step ==
    \/ Begin
    \/ ChainCheck \/ ChainReplay \/ ChainEnds
    \/ PreviewStep \/ PreviewEnds
    \/ FlowProbe \/ FlowRun \/ FlowBreaks \/ FlowCollect
    \/ TaskStep \/ TaskEnds
    \/ Throw

Next == Issue \/ Act \/ Step

Spec == Init /\ [][Next]_vars

----------------------------------------------------------------------------
Answered == pc = "idle" /\ out \notin {"none", "threw"}

\* Every step of a preview, of a rejected flow and of a chain that was not
\* refused has exactly one result; those of a task are a prefix of its plan.
OneResultEach ==
    LET told == {results[i].step : i \in DOMAIN results}
    IN  /\ Len(results) = Cardinality(told)
        /\ told \subseteq {run.plan[i] : i \in DOMAIN run.plan}
        /\ \/ call.tool = "run_flow" /\ Preview(call)
           \/ call.tool = "replay_checkpoint_chain" /\ out # "partial"
           => Len(results) = Len(run.plan)

\* What was carried out is the plan from its beginning, nothing left out before
\* the last step done; a chain, which leaves out what is not safe, carries the
\* records of its plan out in the order the plan lists them, the latest first.
DoneAsPlanned ==
    IF call.tool = "replay_checkpoint_chain"
    THEN \A i, j \in DOMAIN did : i < j => did[i].step > did[j].step
    ELSE \A i \in DOMAIN did : i \in DOMAIN run.plan /\ did[i].step = run.plan[i]

\* Nothing is carried out after a step of a preview that did not succeed, nor
\* after one of a strict task.
NothingAfterStop ==
    (Preview(call) /\ call.tool = "run_flow") \/ (call.tool = "complete_task" /\ call.strict) =>
        \A i \in DOMAIN did : i < Len(did) => did[i].status = "success"

\* Success is earned: by every step of a task or of a preview, each carried out
\* and each a success; by every run of a script, each of this call and each
\* passed.  Less is asked, as in the code, of three: a script that wrote no run is
\* answered by the runs that earlier calls have left, so nothing is asked of it; a
\* script in a dry run carries out nothing; and a chain that replayed something
\* needs one step that succeeded, whatever the others came to.
AllDid(status) == Len(did) = Len(run.plan) /\ \A i \in DOMAIN did : did[i].status = status
SuccessIsEarned ==
    out = "success" =>
        CASE call.tool = "complete_task" -> AllDid("success")
          [] call.tool = "run_flow" /\ Preview(call) -> AllDid("success")
          [] call.tool = "run_flow" /\ ~Preview(call) ->
               call.dry \/ ~call.writes \/ AllDid("PASS")
          [] call.tool = "replay_checkpoint_chain" ->
               did # <<>> => \E i \in DOMAIN did : did[i].status = "success"
          [] OTHER -> ~SomeResult("fail")

\* What a call answers agrees with what it did and with the order of its plan,
\* for every interleaving of failures, stops and records of other calls.
ReplayAccounted ==
    Answered => OneResultEach /\ DoneAsPlanned /\ NothingAfterStop /\ SuccessIsEarned

\* A checkpoint chain replays what came after the last stable checkpoint, in
\* the order in which it was done.
ChainGoesForward ==
    call.tool = "replay_checkpoint_chain" =>
        \A i, j \in DOMAIN did :
            /\ did[i].step > run.newest
            /\ i < j => did[i].step < did[j].step

================================================================================
