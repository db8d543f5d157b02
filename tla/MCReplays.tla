------------------------------- MODULE MCReplays -------------------------------
(***************************************************************************)
(* An instance of Replays: one session, two calls of any of the tools, and *)
(* up to three actions before, between and after them.                     *)
(***************************************************************************)
EXTENDS Replays

MCPosts == {[screen |-> "list", readiness |-> "ready", phase |-> "ready"],
            [screen |-> "detail", readiness |-> "waiting", phase |-> "ready"]}

Record(command, outcome, full, risky, post) ==
    [command |-> command, outcome |-> outcome, full |-> full, risky |-> risky, post |-> post]
MCRecords ==
    {Record("tap", "success", TRUE, FALSE, p) : p \in MCPosts}
    \cup UNION {{Record("launch", "success", FALSE, FALSE, p), Record("tap", "success", FALSE, TRUE, p)}
                  : p \in {q \in MCPosts : q.screen = "list"}}

Base == [tool |-> "replay_checkpoint_chain", platform |-> "android", dry |-> FALSE,
         from |-> 0, max |-> 0, flow |-> <<>>, generated |-> TRUE, custom |-> FALSE,
         writes |-> TRUE, count |-> 2, strict |-> TRUE, source |-> "none"]
Flow(commands) == [Base EXCEPT !.tool = "run_flow", !.flow = commands]
Task(steps, most) == [Base EXCEPT !.tool = "complete_task", !.count = steps, !.max = most]
Validate(from, commands) ==
    [Base EXCEPT !.tool = "validate_flow", !.source = from, !.flow = commands]

Flows == {<<"launch", "gesture">>, <<"launch", "tap", "type">>, <<"launch", "blind", "wait">>,
          <<"bare", "gesture", "absent">>, <<"tap", "unsupported", "launch">>, <<>>}
Chains == {Base, [Base EXCEPT !.dry = TRUE], [Base EXCEPT !.max = 1], [Base EXCEPT !.from = 1],
           [Base EXCEPT !.platform = "none"]}
LiveFlows == {Flow(<<"launch">>), [Flow(<<"launch">>) EXCEPT !.count = 1],
              [Flow(<<"launch">>) EXCEPT !.platform = "ios"], Flow(<<"unsupported">>),
              [Flow(<<"launch">>) EXCEPT !.writes = FALSE],
              [Flow(<<"launch">>) EXCEPT !.custom = TRUE],
              [Flow(<<"launch">>) EXCEPT !.platform = "none"],
              [Flow(<<"launch">>) EXCEPT !.dry = TRUE, !.generated = FALSE]}
MCCalls == Chains \cup LiveFlows
           \cup {[Flow(f) EXCEPT !.dry = TRUE] : f \in Flows}
           \cup {Task(2, 8), Task(2, 1), [Task(2, 0) EXCEPT !.strict = FALSE],
                 [Task(2, 3) EXCEPT !.strict = FALSE]}
           \cup {Validate("none", <<>>), Validate("session", <<>>), Validate("file", <<>>),
                 Validate("file", <<"launch", "bare">>), Validate("file", <<"absent">>),
                 [Validate("file", <<"tap">>) EXCEPT !.platform = "none"]}
MCChains == {Base}
================================================================================
