----------------------------- MODULE ActionCall -----------------------------
(***************************************************************************)
(* The action tools of one session: perform_action_with_evidence with its  *)
(* interruption guards, OCR fallback, re-reads, records and optional auto  *)
(* remediation; resolve_interruption, resume_interrupted_action,           *)
(* recover_to_known_state and replay_last_stable_path.                     *)
(* The calls of a session run one at a time (the device lease); within a   *)
(* call every await is a step, so the screen can move and the process can  *)
(* die, or a store throw, between any two of them; and a look may fail,    *)
(* which the code reads as an empty screen, or show an old one.            *)
(***************************************************************************)
EXTENDS InterruptionRules, ActionVerdict, Integers, FiniteSetsExt

CONSTANTS Screens,      \* raw screens the device can show
          Intents,      \* records [kind, risky, text, target] of the client
          RiskyPages,   \* pages whose id holds a keyword of the risk check
          ExecResults,  \* what executing an intent can report
          Starts,       \* sessions and earlier actions the tools may begin with
          MaxActions,   \* bound: actions issued
          MaxCalls,     \* bound: calls of the client, the earlier action's included
          MaxDrifts,    \* bound: moves of the screen on its own
          MaxFailures,  \* bound: calls that die half way
          MaxMisreads,  \* bound: looks that do not show the device
          MaxEvents     \* bound: the four together

\* An intent names its target by a resource id ("own") or by other fields only
\* ("none"); a replay puts the id of a page in the place of a missing one.
NoIntent  == [kind |-> "none", risky |-> FALSE, text |-> FALSE, target |-> "none"]

ASSUME ActionAssumption ==
    /\ Screens \subseteq RawScreen /\ ExecResults \subseteq ExecResult
    /\ Unseen \notin Pages /\ RiskyPages \subseteq Pages
    /\ Intents \subseteq [kind: {"tap", "type", "wait", "launch"},
                          risky: BOOLEAN, text: BOOLEAN, target: {"own", "none"}]
    /\ Starts \subseteq [open: BOOLEAN, audit: BOOLEAN, earlier: Intents \cup {NoIntent},
                         landed: Pages, profile: {"standard", "no_tap", "high_risk"}]
    /\ \A s \in Starts : s.audit => s.open
    /\ MaxActions \in Nat \ {0} /\ MaxCalls \in Nat
    /\ MaxDrifts \in Nat /\ MaxFailures \in Nat /\ MaxMisreads \in Nat /\ MaxEvents \in Nat

VARIABLES device,    \* the screen as it is
          dump,      \* the screen in the dump file an Android look reads
          call,      \* the call in progress, Idle if none
          outer,     \* the action under remediation while its recovery runs
          records,   \* the record of each action, or NoRecord
          baseline,  \* action ids in the baseline index
          session,   \* the session record: [open, audit, profile, checkpoint]
          remedy,    \* auto_remediation_* events in the timeline, per action
          reports,   \* what the client was told of each action
          trail,     \* history: issued intent, execution, OCR taps, clearing, lost audit
          last,      \* history: the last execution
          calls, drifts, failures, misreads

vars == <<device, dump, call, outer, records, baseline, session, remedy, reports,
          trail, last, calls, drifts, failures, misreads>>
budgets == <<calls, drifts, failures>>
sight   == <<dump, misreads>>
stores  == <<records, baseline, session, remedy>>

Ids      == 0..MaxActions            \* 0: an action of before, if any
Blank    == [kind |-> "tap", risky |-> FALSE, text |-> FALSE, target |-> "none"]
NoAction == MaxActions + 1
NoExecution == [action |-> NoAction, intent |-> Blank, why |-> "none"]
NoCheckpoint == [action |-> NoAction, intent |-> Blank]
NoRecord == [intent |-> NoIntent, outcome |-> "none", updatedAt |-> 0, landed |-> Unseen]

NoScreen   == CHOOSE s \in Screens : TRUE
NoVerdict  == [status |-> "failed", reason |-> "none", low |-> "failed", target |-> "none",
               pre |-> Summary(NoScreen), post |-> Summary(NoScreen),
               handoff |-> "none", attempt |-> 0, budget |-> 0, refreshed |-> FALSE,
               category |-> "none"]

Never == -1       \* history: no look that showed the device
Idle == [tool |-> "none", at |-> "idle", action |-> NoAction, intent |-> Blank,
         caller |-> "client", remediate |-> FALSE, guard |-> "none",
         seen |-> NoScreen, attempts |-> 0, result |-> "none", v |-> NoVerdict,
         clearAt |-> Never, senseAt |-> Never]
Active == call.at # "idle"
EventsLeft == calls + drifts + failures + misreads < MaxEvents

\* A look yields the device, or less of it, or the file of an earlier dump.
Sights ==
    {device} \cup IF misreads < MaxMisreads /\ EventsLeft
                  THEN Partial(device) \cup Outdated(device, dump) ELSE {}
Sees(seen) ==
    \/ seen = device /\ dump' = device /\ UNCHANGED misreads
    \/ /\ seen # device /\ misreads' = misreads + 1
       /\ dump' \in {dump} \cup IF seen \in Partial(device) THEN {device} ELSE {}

Issued(a) == trail[a].intent # NoIntent
NextId == Max({a \in Ids : a = 0 \/ Issued(a)}) + 1
CanIssue == NextId \in Ids

\* Every record is a file of its own, with the time of its last write.
\* listActionRecordsForSession sorts by that time, the latest first, and the
\* replay takes the first success.
\* Mutant: a partial outcome counts as stable.
StableUnlessFailed == {a \in Ids : records[a].outcome \in {"success", "partial"}}
Stable == {a \in Ids : records[a].outcome = "success"}
LastStable == CHOOSE a \in Stable : \A b \in Stable : records[b].updatedAt <= records[a].updatedAt
LastWrite == Max({records[a].updatedAt : a \in Ids})
WriteRecord(a, intent, outcome, landed) ==
    records' = [records EXCEPT ![a] = [intent |-> intent, outcome |-> outcome,
                                       updatedAt |-> LastWrite + 1, landed |-> landed]]

\* The replayed intent: a missing resource id is filled in with the id of the
\* page the recorded action ended on.  Only the recorded intent is checked.
FilledIn(i, page) == IF i.target = "none" /\ page \in Pages THEN [i EXCEPT !.target = page] ELSE i
StableIntent == records[LastStable].intent
ReplayedIntent == FilledIn(StableIntent, records[LastStable].landed)
IsHighRisk(i) == i.risky \/ i.target \in RiskyPages
AllIntents == Intents \cup {FilledIn(i, page) : i \in Intents, page \in Pages}

----------------------------------------------------------------------------
Init ==
    /\ device \in Screens /\ dump \in Screens /\ call = Idle /\ outer = Idle
    /\ \E s \in Starts :
         /\ session = [open |-> s.open, audit |-> s.audit, profile |-> s.profile,
                       checkpoint |-> NoCheckpoint]
         /\ records = [a \in Ids |->
                         IF a = 0 /\ s.earlier # NoIntent
                         THEN [intent |-> s.earlier, outcome |-> "success", updatedAt |-> 1,
                               landed |-> s.landed]
                         ELSE NoRecord]
         /\ trail = [a \in Ids |->
                       [intent |-> IF a = 0 THEN s.earlier ELSE NoIntent,
                        done |-> a = 0 /\ s.earlier # NoIntent, taps |-> 0, cleared |-> FALSE,
                        unaudited |-> FALSE]]
         /\ calls = IF s.earlier = NoIntent THEN 0 ELSE 1
    /\ baseline = {} /\ remedy = [a \in Ids |-> {}]
    /\ reports = [a \in Ids |-> "none"] /\ last = NoExecution
    /\ drifts = 0 /\ failures = 0 /\ misreads = 0

\* The client starts a call.  Its other tools may have dumped the screen since.
StartCall(c) ==
    /\ ~Active /\ calls < MaxCalls /\ EventsLeft
    /\ calls' = calls + 1 /\ call' = c /\ dump' \in {dump, device}
    /\ UNCHANGED <<device, outer, records, baseline, session, remedy, reports, last,
                   drifts, failures, misreads>>

IssueAction(a, i) == trail' = [trail EXCEPT ![a].intent = i]

PerformCall(a, i, remediate, caller) ==
    [Idle EXCEPT !.tool = "perform", !.at = "guard", !.guard = "pre", !.action = a,
                 !.intent = i, !.remediate = remediate, !.caller = caller]

Perform(i, remediate) ==
    /\ CanIssue /\ IssueAction(NextId, i)
    /\ StartCall(PerformCall(NextId, i, remediate, "client"))

\* resolve_interruption: the caller may name an action; the checkpoint then
\* names that action but carries no intent of it.
ResolveInterruption(a) ==
    /\ a # NoAction => a \in 1..MaxActions /\ Issued(a)
    /\ StartCall([Idle EXCEPT !.tool = "resolve", !.at = "guard", !.guard = "tool",
                              !.action = a])
    /\ UNCHANGED trail

\* resume_interrupted_action: the session's checkpoint, whether or not an
\* earlier resume has replayed it.
ResumeInterruptedAction ==
    /\ session.checkpoint # NoCheckpoint
    /\ StartCall([Idle EXCEPT !.tool = "resume", !.at = "resumeLook", !.guard = "tool",
                              !.action = session.checkpoint.action,
                              !.intent = session.checkpoint.intent])
    /\ UNCHANGED trail

RecoverToKnownState ==
    /\ StartCall([Idle EXCEPT !.tool = "recover", !.at = "recoverLook"])
    /\ UNCHANGED trail

\* replay_last_stable_path: refused without a recorded success and for a
\* risky one; otherwise a new action with the recorded intent, filled in.
Replayable == Stable # {} /\ ~IsHighRisk(StableIntent)
ReplayLastStablePath ==
    /\ Replayable /\ CanIssue /\ IssueAction(NextId, ReplayedIntent)
    /\ StartCall(PerformCall(NextId, ReplayedIntent, FALSE, "replay"))

----------------------------------------------------------------------------
\* The steps of the call in progress.  What runs an intent may dump the screen
\* it finds or the one it leaves.
Go(at) == call' = [call EXCEPT !.at = at]
At(at) == call.at = at
Dumps == dump' \in {dump, device, device'} /\ UNCHANGED misreads
KeepStores == UNCHANGED <<stores, reports, trail, last, budgets>>

\* The call is over: a nested replay or recovery hands over to the
\* remediation that started it.
Over(recovered) ==
    call' = IF outer.at = "idle" THEN Idle
            ELSE [Idle EXCEPT !.tool = "perform", !.at = "remedyClose",
                              !.action = outer.action,
                              !.result = IF recovered THEN "recovered" ELSE "not_recovered"]

\* The interruption guard: before and after every action, and as the
\* resolve_interruption tool (the only one that is given a profile).
GuardProfile == IF call.guard = "tool" THEN session.profile ELSE "unchecked"

AfterGuard(result) ==
    CASE call.guard = "pre"  -> [call EXCEPT !.at = "sense", !.seen = NoScreen, !.attempts = 0]
      [] call.guard = "post" -> [call EXCEPT !.at = IF result = "resolved" THEN "resumeLook" ELSE "close",
                                             !.result = "passed",
                                             !.seen = NoScreen, !.attempts = 0]
      [] OTHER -> Idle

\* History: at this point the device itself was seen without an interruption.
Sighted(seen) == IF seen = device THEN drifts ELSE Never
Cleared(c, seen) == IF c.guard = "pre" THEN [c EXCEPT !.clearAt = Sighted(seen)] ELSE c

\* A look without an interruption passes the guard, an empty one included.
GuardLook ==
    /\ At("guard")
    /\ \E seen \in Sights :
         /\ Sees(seen)
         /\ call' = IF ~Detected(seen) THEN Cleared(AfterGuard("not_needed"), seen)
                    ELSE IF Verdict(GuardProfile, seen) # "resolved"
                    THEN [call EXCEPT !.at = "guardClose", !.result = Verdict(GuardProfile, seen)]
                    ELSE IF TapBudget(seen) = 0
                    THEN [call EXCEPT !.at = "guardClose", !.result = "failed"]
                    ELSE [call EXCEPT !.at = "guardTap", !.attempts = TapBudget(seen)]
    /\ UNCHANGED <<device, outer>> /\ KeepStores

\* A tap that fails, or a look that still finds an interruption, uses up an
\* attempt; the last one decides the result.
\* Mutant: only a tap that fails uses up an attempt.
AttemptLostOnTap ==
    IF call.at = "guardVerify" THEN [call EXCEPT !.at = "guardTap"]
    ELSE IF call.attempts = 1
    THEN [call EXCEPT !.at = "guardClose", !.result = "failed", !.attempts = 0]
    ELSE [call EXCEPT !.at = "guardTap", !.attempts = @ - 1]
AttemptLost ==
    IF call.attempts = 1
    THEN [call EXCEPT !.at = "guardClose", !.result = "failed", !.attempts = 0]
    ELSE [call EXCEPT !.at = "guardTap", !.attempts = @ - 1]

GuardTap ==
    /\ At("guardTap")
    /\ \/ device' \in Screens /\ Go("guardVerify")
       \/ device' = device /\ call' = AttemptLost
    /\ Dumps /\ UNCHANGED outer /\ KeepStores

GuardVerify ==
    /\ At("guardVerify")
    /\ \E seen \in Sights :
         /\ Sees(seen)
         /\ call' = IF Detected(seen) THEN AttemptLost
                    ELSE Cleared([call EXCEPT !.at = "guardClose", !.result = "resolved",
                                              !.attempts = 0], seen)
    /\ UNCHANGED <<device, outer>> /\ KeepStores

\* The interruption event is persisted, with a checkpoint when it was
\* resolved; a guard that did not pass ends the call or fails the action.
GuardClose ==
    /\ At("guardClose")
    /\ LET resolved   == call.result = "resolved"
           checkpoint == [action |-> call.action,
                          intent |-> IF call.guard = "tool" THEN Blank ELSE call.intent]
       IN /\ session' = IF session.open /\ resolved /\ call.action # NoAction
                        THEN [session EXCEPT !.checkpoint = checkpoint] ELSE session
          /\ trail' = IF resolved /\ call.action # NoAction
                      THEN [trail EXCEPT ![call.action].cleared = TRUE] ELSE trail
          /\ CASE resolved -> call' = AfterGuard("resolved") /\ UNCHANGED reports
               [] ~resolved /\ call.guard = "pre" ->
                    /\ reports' = [reports EXCEPT ![call.action] = "blocked"]
                    /\ Over(FALSE)
               [] ~resolved /\ call.guard = "post" ->
                    /\ call' = [call EXCEPT !.at = "close"] /\ UNCHANGED reports
               [] ~resolved /\ call.guard = "tool" -> call' = Idle /\ UNCHANGED reports
    /\ UNCHANGED <<device, sight, outer, records, baseline, remedy, last, budgets>>

----------------------------------------------------------------------------
\* perform_action_with_evidence between its guards.
\* Which results an intent can have, and whether it touches the device.
ResultsOf(i) ==
    IF i = Blank THEN {r \in ExecResults : r.status = "failed" /\ r.target = "none"}
    ELSE ExecResults
Touches(i, r) ==
    CASE i.kind = "wait"   -> FALSE
      [] i.kind = "launch" -> r.status # "failed"
      [] OTHER -> r.target \in {"resolved", "partial_match"}
Effect(i, r) == device' \in IF Touches(i, r) THEN Screens ELSE {device}

\* The verdict of a read: read again, look once more for a late change, or on
\* to the stores.
Judge(read) ==
    \E v \in {read} : \E settled \in {Settle(v)} :
        call' = IF ShouldReadAgain(v) THEN [call EXCEPT !.at = "reread", !.v = v]
                ELSE [call EXCEPT !.at = IF ShouldRefresh(settled) THEN "refresh" ELSE "baseline",
                                  !.v = settled]

\* A manual handoff on the screen before the action keeps it from being run.
\* Mutant: the handoff is not looked for before the action.
SenseWithoutHandoff ==
    /\ At("sense")
    /\ \E seen \in Sights :
         /\ Sees(seen)
         /\ call' = [call EXCEPT !.at = "execute", !.v.pre = Summary(seen),
                                 !.senseAt = Sighted(seen)]
    /\ UNCHANGED <<device, outer>> /\ KeepStores
Sense ==
    /\ At("sense")
    /\ \E seen \in Sights :
         /\ Sees(seen)
         /\ LET pre == Summary(seen)
            IN IF pre.manualHandoff
               THEN Judge(FirstRead([call.v EXCEPT !.pre = pre, !.handoff = "pre"], pre))
               ELSE call' = [call EXCEPT !.at = "execute", !.v.pre = pre,
                                         !.senseAt = Sighted(seen)]
    /\ UNCHANGED <<device, outer>> /\ KeepStores

\* canAttemptOcrFallback, and the policy that refuses it on a loading screen.
CanAttemptOcr(i, r) ==
    /\ r.status # "success" /\ i.kind \in {"tap", "wait"} /\ i.text
    /\ i.kind = "tap" => r.target \notin {"resolved", "partial_match"}
HasLoadingBlockers(st) ==
    \/ st.appPhase = "loading" \/ st.readiness \in WaitingReadiness
    \/ "loading_indicator" \in st.blocking

Execute ==
    /\ At("execute")
    /\ \E r \in ResultsOf(call.intent) :
         /\ Effect(call.intent, r)
         /\ call' = [call EXCEPT !.v.status = r.status, !.v.reason = r.reason,
                                 !.v.low = r.status, !.v.target = r.target,
                                 !.clearAt = Never, !.senseAt = Never,
                                 !.at = IF CanAttemptOcr(call.intent, r) /\ ~HasLoadingBlockers(call.v.pre)
                                        THEN "ocr" ELSE "look"]
    /\ trail' = [trail EXCEPT ![call.action].done = TRUE]
    /\ last' = [action |-> call.action, intent |-> call.intent,
                why |-> IF call.caller = "replay" THEN "replay" ELSE "act"]
    /\ Dumps /\ UNCHANGED <<outer, stores, reports, budgets>>

\* The screenshot is read once: it fails, proves a text for a wait, or gives
\* the coordinates every tap of the fallback uses.
Ocr ==
    /\ At("ocr")
    /\ \/ call' = [call EXCEPT !.at = "look", !.v.status = "failed", !.v.reason = "adapter_error"]
       \/ call' = IF call.intent.kind = "wait"
                  THEN [call EXCEPT !.at = "look", !.v.status = "success", !.v.reason = "ok"]
                  ELSE [call EXCEPT !.at = "ocrTap"]
    /\ UNCHANGED <<device, sight, outer>> /\ KeepStores

OcrTap ==
    /\ At("ocrTap")
    /\ \/ /\ device' \in Screens /\ Go("ocrVerify")
          /\ trail' = [trail EXCEPT ![call.action].taps = @ + 1]
          /\ last' = [action |-> call.action, intent |-> call.intent, why |-> "ocr"]
       \/ /\ call' = [call EXCEPT !.at = "look", !.v.status = "failed", !.v.reason = "adapter_error"]
          /\ UNCHANGED <<device, trail, last>>
    /\ UNCHANGED <<sight, outer, stores, reports, budgets>>

\* A tap that changed nothing is made once more, if the text is still found
\* among the blocks of the first screenshot.
OcrVerify ==
    /\ At("ocrVerify")
    /\ \E seen \in Sights :
         /\ Sees(seen)
         /\ LET post   == Summary(seen)
                passed == HasStateChanged(call.v.pre, post)
                v == [call.v EXCEPT !.status = IF passed THEN "success" ELSE "failed",
                                    !.reason = IF passed THEN "ok" ELSE "adapter_error"]
            IN \/ ~passed /\ trail[call.action].taps < 2 /\ Go("ocrTap")
               \/ Judge(FirstRead(v, post))
    /\ UNCHANGED <<device, outer>> /\ KeepStores

Look ==
    /\ At("look")
    /\ \E seen \in Sights : Sees(seen) /\ Judge(FirstRead(call.v, Summary(seen)))
    /\ UNCHANGED <<device, outer>> /\ KeepStores

RereadScreen ==
    /\ At("reread")
    /\ \E seen \in Sights : Sees(seen) /\ Judge(Reread(call.v, Summary(seen)))
    /\ UNCHANGED <<device, outer>> /\ KeepStores

RefreshScreen ==
    /\ At("refresh")
    /\ \E seen \in Sights :
         /\ Sees(seen)
         /\ call' = [call EXCEPT !.at = "baseline",
                                 !.v = [Refresh(call.v, Summary(seen)) EXCEPT !.refreshed = TRUE]]
    /\ UNCHANGED <<device, outer>> /\ KeepStores

\* After the session's timeline: a success goes to the baseline index, and
\* every outcome to its record, before the guard looks at the screen again.
\* The outcome keeps of the verdict what a remediation reads.
Outcome(v) ==
    IF ~call.remediate THEN [NoVerdict EXCEPT !.status = v.status]
    ELSE [NoVerdict EXCEPT !.status = v.status, !.reason = v.reason, !.handoff = v.handoff,
                           !.post = v.post, !.category = Category(v)]

\* Mutant: every outcome goes to the baseline.
RecordEveryBaseline ==
    /\ At("baseline") /\ Go("record")
    /\ baseline' = baseline \cup {call.action}
    /\ UNCHANGED <<device, sight, outer, records, session, remedy, reports, trail, last, budgets>>
RecordBaseline ==
    /\ At("baseline") /\ Go("record")
    /\ baseline' = IF call.v.status = "success" THEN baseline \cup {call.action} ELSE baseline
    /\ UNCHANGED <<device, sight, outer, records, session, remedy, reports, trail, last, budgets>>

PersistRecord ==
    /\ At("record")
    /\ WriteRecord(call.action, call.intent, call.v.status, call.v.post.screenId)
    /\ call' = [call EXCEPT !.at = "guard", !.guard = "post", !.v = Outcome(call.v)]
    /\ UNCHANGED <<device, sight, outer, baseline, session, remedy, reports, trail, last, budgets>>

----------------------------------------------------------------------------
\* Resuming an interrupted action: inside a call after its guard resolved an
\* interruption, or as the resume_interrupted_action tool.  The screen is
\* looked at before and after, but the look before decides nothing.
ResumeLook ==
    /\ At("resumeLook")
    /\ \E seen \in Sights : Sees(seen) /\ call' = [call EXCEPT !.at = "resumeExec", !.seen = seen]
    /\ UNCHANGED <<device, outer>> /\ KeepStores

ResumeExec ==
    /\ At("resumeExec")
    /\ \E r \in ResultsOf(call.intent) :
         /\ Effect(call.intent, r)
         /\ call' = [call EXCEPT !.at = "resumeCheck",
                                 !.result = IF r.status = "success" THEN "passed" ELSE "not_resumed"]
    /\ last' = [action |-> call.action, intent |-> call.intent, why |-> "resume"]
    /\ Dumps /\ UNCHANGED <<outer, stores, reports, trail, budgets>>

\* Resumed means a successful replay that left the screen where it was.
ResumeCheck ==
    /\ At("resumeCheck")
    /\ \E seen \in Sights :
         /\ Sees(seen)
         /\ LET resumed == /\ call.result = "passed"
                           /\ ~HasStateDrift(Summary(call.seen), Summary(seen))
            IN call' = IF call.tool = "resume" THEN Idle
                       ELSE [call EXCEPT !.at = "close", !.seen = NoScreen,
                                         !.result = IF resumed THEN "passed" ELSE "not_resumed"]
    /\ session' = IF session.open
                  THEN [session EXCEPT !.checkpoint = [action |-> call.action, intent |-> call.intent]]
                  ELSE session
    /\ UNCHANGED <<device, outer, records, baseline, remedy, reports, trail, last, budgets>>

\* The end of the action: an interruption that was not resolved, or an action
\* that did not resume, fails it and rewrites its record.
FinalStatus == IF call.result = "passed" THEN call.v.status ELSE "failed"

\* classifyMetadataDrivenStop, for an action that did not succeed.
MetadataStop ==
    \/ call.v.handoff # "none" \/ call.v.post.manualHandoff
    \/ call.v.post.readiness \in TerminalReadiness
    \/ call.result # "passed"
    \/ call.v.category \in {"selector_missing", "selector_ambiguous", "blocked"}
    \/ call.v.reason = "retry_exhausted"
Remediates ==
    /\ call.remediate /\ FinalStatus # "success"
    /\ session.open /\ ~MetadataStop /\ session.audit

\* Mutant: the failed guard is reported but the record is left as it was.
CloseWithoutRewrite ==
    /\ At("close") /\ UNCHANGED records
    /\ reports' = [reports EXCEPT ![call.action] = FinalStatus]
    /\ IF Remediates THEN Go("remedyTrigger") ELSE Over(FinalStatus # "failed")
    /\ UNCHANGED <<device, sight, outer, baseline, session, remedy, trail, last, budgets>>
Close ==
    /\ At("close")
    /\ IF call.result = "passed" THEN UNCHANGED records
       ELSE WriteRecord(call.action, call.intent, "failed", records[call.action].landed)
    /\ reports' = [reports EXCEPT ![call.action] = FinalStatus]
    /\ IF Remediates THEN Go("remedyTrigger") ELSE Over(FinalStatus # "failed")
    /\ UNCHANGED <<device, sight, outer, baseline, session, remedy, trail, last, budgets>>

----------------------------------------------------------------------------
\* Auto remediation of the action the call has just failed.
Suspend(c, path) ==
    /\ outer' = [Idle EXCEPT !.action = call.action, !.at = "suspended", !.caller = path]
    /\ call' = c

Stop(events) ==
    /\ remedy' = [remedy EXCEPT ![call.action] = @ \cup events] /\ call' = Idle

\* The audit record could not be written, or is not there when it is read: the
\* call ends where it is.  The next write of the session makes it anew.
AuditFails ==
    /\ failures < MaxFailures /\ EventsLeft /\ failures' = failures + 1
    /\ trail' = [trail EXCEPT ![call.action].unaudited = TRUE]
    /\ call' = Idle

\* The event goes to the timeline first; without its audit nothing follows.
RemedyTrigger ==
    /\ At("remedyTrigger")
    /\ remedy' = [remedy EXCEPT ![call.action] = @ \cup {"triggered"}]
    /\ \/ /\ IF call.v.category = "waiting"
             THEN Suspend([Idle EXCEPT !.tool = "recover", !.at = "recoverLook"], "waiting")
             ELSE Go("remedyChoose") /\ UNCHANGED outer
          /\ UNCHANGED <<trail, failures>>
       \/ AuditFails /\ UNCHANGED outer
    /\ UNCHANGED <<device, sight, records, baseline, session, reports, last, calls, drifts>>

\* The failure analysis is an oracle: too weak, a crash, or suggestions that
\* do or do not speak of a replay.
WaitingLike(st) ==
    \/ st.readiness \in WaitingReadiness \/ st.appPhase = "loading"
    \/ "error_state" \in st.blocking

RemedyStop ==
    /\ At("remedyChoose") /\ Stop({"stopped"})
    /\ UNCHANGED <<device, sight, outer, records, baseline, session, reports, trail, last, budgets>>

RemedyRecover ==
    /\ At("remedyChoose")
    /\ Suspend([Idle EXCEPT !.tool = "recover", !.at = "recoverLook"], "planned")
    /\ UNCHANGED <<device, sight, stores, reports, trail, last, budgets>>

\* Both the failed action and the recorded one must be safe to replay.  A
\* refused replay is an unsuccessful recovery.
\* Mutant: a refused replay leaves the remediation open.
RemedyReplayUnclosed ==
    /\ At("remedyChoose") /\ ~WaitingLike(call.v.post) /\ ~IsHighRisk(call.intent)
    /\ IF Replayable
       THEN /\ CanIssue /\ IssueAction(NextId, ReplayedIntent)
            /\ Suspend(PerformCall(NextId, ReplayedIntent, FALSE, "replay"), "planned")
       ELSE call' = Idle /\ UNCHANGED <<outer, trail>>
    /\ UNCHANGED <<device, sight, records, baseline, session, remedy, reports, last, budgets>>
RemedyReplay ==
    /\ At("remedyChoose") /\ ~WaitingLike(call.v.post) /\ ~IsHighRisk(call.intent)
    /\ IF Replayable
       THEN /\ CanIssue /\ IssueAction(NextId, ReplayedIntent)
            /\ Suspend(PerformCall(NextId, ReplayedIntent, FALSE, "replay"), "planned")
            /\ UNCHANGED remedy
       ELSE Stop({"stopped"}) /\ UNCHANGED <<outer, trail>>
    /\ UNCHANGED <<device, sight, records, baseline, session, reports, last, budgets>>

\* The recovery's own summary decides which event closes the remediation; a
\* planned recovery is closed only when the audit record is there.
RemedyClose ==
    /\ At("remedyClose") /\ outer' = Idle
    /\ \/ /\ Stop({IF call.result = "recovered" THEN "succeeded" ELSE "stopped"})
          /\ UNCHANGED <<trail, failures>>
       \/ outer.caller = "planned" /\ AuditFails /\ UNCHANGED remedy
    /\ UNCHANGED <<device, sight, records, baseline, session, reports, last, calls, drifts>>

\* recover_to_known_state: stops at a terminal state, relaunches a crashed or
\* failing app, and otherwise only looks again.
RecoverLook ==
    /\ At("recoverLook")
    /\ \E seen \in Sights :
         /\ Sees(seen)
         /\ LET st == Summary(seen)
            IN Go(IF st.readiness \notin TerminalReadiness
                     /\ (st.appPhase = "crashed" \/ "error_state" \in st.blocking)
                  THEN "recoverLaunch" ELSE "recoverAfter")
    /\ UNCHANGED <<device, outer>> /\ KeepStores

RecoverLaunch ==
    /\ At("recoverLaunch") /\ Go("recoverAfter")
    /\ device' \in Screens
    /\ UNCHANGED <<sight, outer>> /\ KeepStores

RecoverAfter ==
    /\ At("recoverAfter")
    /\ \E seen \in Sights :
         /\ Sees(seen)
         /\ Over(Summary(seen).readiness = "ready" \/ Summary(seen).appPhase = "ready")
    /\ outer' = outer /\ UNCHANGED device /\ KeepStores

----------------------------------------------------------------------------
\* The environment: the screen moves on its own while a call runs, and a call
\* ends half way because the process died or a store threw.
Drift ==
    /\ Active /\ drifts < MaxDrifts /\ EventsLeft /\ drifts' = drifts + 1
    /\ device' \in Screens \ {device}
    /\ UNCHANGED <<sight, call, outer, stores, reports, trail, last, calls, failures>>

Fail ==
    /\ Active /\ failures < MaxFailures /\ EventsLeft /\ failures' = failures + 1
    /\ call' = Idle /\ outer' = Idle
    /\ LET unanswered == {outer.action} \cup IF call.tool = "perform" THEN {call.action} ELSE {}
       IN reports' = [a \in Ids |-> IF a \in unanswered THEN "abandoned" ELSE reports[a]]
    /\ UNCHANGED <<device, sight, stores, trail, last, calls, drifts>>

Client ==
    \/ \E i \in Intents, remediate \in BOOLEAN : Perform(i, remediate)
    \/ \E a \in 1..NoAction : ResolveInterruption(a)
    \/ ResumeInterruptedAction \/ RecoverToKnownState \/ ReplayLastStablePath

Work ==
    \/ GuardLook \/ GuardTap \/ GuardVerify \/ GuardClose
    \/ Sense \/ Execute \/ Ocr \/ OcrTap \/ OcrVerify
    \/ Look \/ RereadScreen \/ RefreshScreen \/ RecordBaseline \/ PersistRecord
    \/ ResumeLook \/ ResumeExec \/ ResumeCheck \/ Close
    \/ RemedyTrigger \/ RemedyStop \/ RemedyRecover \/ RemedyReplay \/ RemedyClose
    \/ RecoverLook \/ RecoverLaunch \/ RecoverAfter

Next == Client \/ Work \/ Drift \/ Fail

\* A call's awaits return: its next step is taken.
Spec == Init /\ [][Next]_vars /\ WF_vars(Work)

----------------------------------------------------------------------------
\* What the client was told of an action is what its record says.
RecordMatchesReport ==
    \A a \in Ids : reports[a] \in Statuses => records[a].outcome = reports[a]

\* An action kept as a success was not judged on a screen that asks for a
\* person, nor on a terminal one (the late refresh aside), and when its screen
\* did not change it is not in a state the code would retry.
SuccessIsSettled ==
    (At("baseline") /\ call.v.status = "success") =>
        /\ ~call.v.post.manualHandoff /\ call.v.handoff = "none"
        /\ call.v.post.readiness \in TerminalReadiness => call.v.refreshed
        /\ ~Changed(call.v) => StepState(call.v) \notin RetryableSteps

\* The baseline index only learns from actions that were executed and ended
\* well: an entry whose action does not stand as a success is that of one
\* whose later guard or replay failed it, or whose call died; it is never that
\* of a partial outcome.
BaselineExplained ==
    \A a \in baseline :
        /\ trail[a].done
        /\ reports[a] \in {"none", "success", "failed", "abandoned"}
        /\ records[a].outcome # "partial"
        /\ (reports[a] = "abandoned" /\ records[a].outcome = "none") => failures > 0

\* A remediation that was announced in the timeline is closed there by exactly
\* one of its two events once the call has answered, whatever happened to the
\* recovery in between, and only an action that did not succeed has one.  The
\* one exception is a call that missed its audit record: that one leaves the
\* announcement open, and no event of a recovery that was never closed.
RemediationClosed ==
    ~Active => \A a \in Ids :
        (remedy[a] # {} /\ reports[a] # "abandoned") =>
            /\ "triggered" \in remedy[a]
            /\ Cardinality(remedy[a]) = IF trail[a].unaudited THEN 1 ELSE 2
            /\ reports[a] \in {"partial", "failed"}

\* An action is first executed only when the summary taken before it asks for no
\* person; and the device itself shows no interruption, or asks for no person,
\* when it has not moved since the guard, or that summary, really showed it.
\* A guard or a summary whose capture failed, was cut or was old shows nothing
\* of the device, and the code acts on it all the same.
ActsOnClearScreen ==
    [][ \A a \in Ids : (trail'[a].done /\ ~trail[a].done) =>
          /\ ~call.v.pre.manualHandoff
          /\ drifts = call.clearAt => ~Detected(device)
          /\ drifts = call.senseAt => ~Summary(device).manualHandoff ]_vars

\* No action tool runs for ever: the taps of a guard, the re-reads, the OCR
\* taps and the nested recovery all end.
CallsEnd == []<>~Active

\* The tools repeat an action only as far as BoundedReplay allows.
Replay == INSTANCE BoundedReplay WITH
    Intents <- AllIntents,
    Risky   <- {i \in AllIntents : IsHighRisk(i)},
    landed  <- [a \in Ids |-> records[a].landed],
    issued  <- [a \in Ids |-> trail[a].intent],
    taps    <- [a \in Ids |-> trail[a].taps],
    done    <- {a \in Ids : trail[a].done},
    cleared <- {a \in Ids : trail[a].cleared},
    outcome <- [a \in Ids |-> records[a].outcome]
RepeatsAreBounded == Replay!Spec
=============================================================================
