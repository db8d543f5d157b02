---------------------------- MODULE ActionCallProofs ----------------------------
(***************************************************************************)
(* An action is first executed on a clear screen, for any screens, intents *)
(* and failures and any number of calls, when the guard really saw the     *)
(* screen: between its look and the execution there are several steps, in  *)
(* which only a move of the screen on its own can take the clear screen    *)
(* away.  A look that failed or was old shows nothing of the screen, and   *)
(* the code goes on from it.  What a screen looks like stays unexpanded.   *)
(* And an action is kept as a success only                                 *)
(* when the screen it was judged on allows one, through any number of      *)
(* re-reads and whatever the OCR fallback and the late look find.          *)
(*                                                                         *)
(* Then what the tools keep of their actions: the record of an action says *)
(* what was reported (RecordMatchesReport), the diff baseline is a success *)
(* that was reported (BaselineExplained), a remediation is closed before   *)
(* the next action (RemediationClosed), and nothing is repeated beyond     *)
(* what BoundedReplay allows (RepeatsAreBounded).  The invariant, Kept,    *)
(* adds to the verdict's the books of each action, the order in which its  *)
(* record is written, and at which point of a call which of them may       *)
(* already be there.                                                       *)
(***************************************************************************)
EXTENDS ActionCall, FiniteSetTheorems, WellFoundedInduction, TLAPS

\* The fields of a call and of its history, which every step keeps.
CallFields == {"tool", "at", "action", "intent", "caller", "remediate", "guard", "seen",
               "attempts", "result", "v", "clearAt", "senseAt"}
GuardPoints == {"guard", "guardTap", "guardVerify", "guardClose"}
CallKept ==
    /\ DOMAIN call = CallFields
    /\ call.at \in GuardPoints => call.guard \in {"pre", "post", "tool"}
    /\ (call.at \in GuardPoints /\ call.guard = "pre") \/ call.at = "sense" => call.v = NoVerdict
TrailKept ==
    /\ DOMAIN trail = Ids
    /\ \A a \in Ids : DOMAIN trail[a] = {"intent", "done", "taps", "cleared", "unaudited"}

\* Since the guard saw no interruption, the screen can only have moved on its own.
Clear == ~Detected(device)
Since(n) == n \in Nat \cup {Never} /\ n <= drifts
SeenAt ==
    /\ drifts \in Nat /\ Since(call.clearAt) /\ Since(call.senseAt)
    /\ drifts = call.clearAt =>
          /\ At("guardClose") /\ call.guard = "pre" /\ call.result = "resolved" => Clear
          /\ At("sense") => Clear
          /\ At("execute") => Clear
    /\ At("execute") =>
          /\ ~call.v.pre.manualHandoff
          /\ drifts = call.senseAt => ~Summary(device).manualHandoff

ActInv == CallKept /\ TrailKept /\ SeenAt

\* The property of one step.
ActsClear == \A a \in Ids : (trail'[a].done /\ ~trail[a].done) =>
                /\ ~call.v.pre.manualHandoff
                /\ drifts = call.clearAt => ~Detected(device)
                /\ drifts = call.senseAt => ~Summary(device).manualHandoff

-----------------------------------------------------------------------------
\* A call that is over, or none.
LEMMA IdleShape ==
    DOMAIN Idle = CallFields /\ Idle.at = "idle" /\ Idle.clearAt = Never /\ Idle.senseAt = Never
BY DEF Idle, CallFields

\* The marks of the looks stay, or go.
Marked(c) == c.clearAt \in {call.clearAt, Never} /\ c.senseAt \in {call.senseAt, Never}
\* At a guard.
Guarded(c) == c.at \in GuardPoints => /\ c.guard \in {"pre", "post", "tool"}
                                      /\ c.guard = "pre" => c.v = NoVerdict

\* At first nothing is under way.
LEMMA InitActs == Init => ActInv
BY IdleShape DEF Init, ActInv, CallKept, TrailKept, SeenAt, Since, At, GuardPoints, Never

\* A step that leaves the call away from the guard and the execution.
LEMMA Away ==
    ASSUME ActInv, UNCHANGED drifts, DOMAIN call' = CallFields,
           Marked(call'), Guarded(call'),
           call'.at \notin {"guardClose", "sense", "execute"}
    PROVE  CallKept' /\ SeenAt'
BY DEF ActInv, CallKept, SeenAt, Since, At, Marked, Guarded, Never

\* A step that neither executes nor issues an action keeps its history.
LEMMA TrailStays ==
    ASSUME ActInv, UNCHANGED trail
    PROVE  TrailKept' /\ ActsClear
BY DEF ActInv, TrailKept, ActsClear

\* A call of the client starts at its guard, or elsewhere.
LEMMA StartActs ==
    ASSUME ActInv, NEW c, StartCall(c), DOMAIN c = CallFields, Marked(c), Guarded(c),
           c.at \notin {"guardClose", "sense", "execute"}
    PROVE  CallKept' /\ SeenAt'
BY Away DEF StartCall

\* A performed action starts at the guard before it.
LEMMA PerformShape ==
    ASSUME NEW a, NEW i, NEW r, NEW c
    PROVE  /\ DOMAIN PerformCall(a, i, r, c) = CallFields
           /\ Marked(PerformCall(a, i, r, c)) /\ PerformCall(a, i, r, c).at = "guard"
           /\ Guarded(PerformCall(a, i, r, c))
BY DEF PerformCall, Idle, CallFields, Marked, Guarded

\* An action is issued under its intent.
LEMMA IssueActs ==
    ASSUME ActInv, NEW a, NEW i, IssueAction(a, i)
    PROVE  TrailKept' /\ ActsClear
BY DEF ActInv, TrailKept, ActsClear, IssueAction

\* What the client starts.
LEMMA ClientActs == ASSUME ActInv, Client PROVE ActInv' /\ ActsClear
<1>1. ASSUME NEW i \in Intents, NEW remediate \in BOOLEAN, Perform(i, remediate)
      PROVE  ActInv' /\ ActsClear
  <2>1. CallKept' /\ SeenAt'
    BY <1>1, StartActs, PerformShape DEF Perform
  <2> QED BY <1>1, <2>1, IssueActs DEF Perform, ActInv
<1>2. CASE ReplayLastStablePath
  <2>1. PICK i : IssueAction(NextId, i) /\ StartCall(PerformCall(NextId, i, FALSE, "replay"))
    BY <1>2 DEF ReplayLastStablePath
  <2>2. CallKept' /\ SeenAt'
    BY <2>1, StartActs, PerformShape
  <2> QED BY <2>1, <2>2, IssueActs DEF ActInv
<1>3. ASSUME NEW a \in 1..NoAction, ResolveInterruption(a) PROVE ActInv' /\ ActsClear
  BY <1>3, StartActs, TrailStays DEF ResolveInterruption, ActInv, Idle, CallFields, Marked, Guarded
<1>4. CASE ResumeInterruptedAction
  BY <1>4, StartActs, TrailStays DEF ResumeInterruptedAction, ActInv, Idle, CallFields, Marked, Guarded, GuardPoints
<1>5. CASE RecoverToKnownState
  BY <1>5, StartActs, TrailStays DEF RecoverToKnownState, ActInv, Idle, CallFields, Marked, Guarded, GuardPoints
<1> QED BY <1>1, <1>2, <1>3, <1>4, <1>5 DEF Client

-----------------------------------------------------------------------------
\* The guard passes on what it has seen.
LEMMA AfterGuardShape ==
    ASSUME ActInv, call.at \in GuardPoints, NEW result
    PROVE  /\ DOMAIN AfterGuard(result) = CallFields /\ Marked(AfterGuard(result))
           /\ AfterGuard(result).at \notin GuardPoints \cup {"execute"}
           /\ AfterGuard(result).at = "sense" =>
                 /\ call.guard = "pre" /\ AfterGuard(result).guard = "pre"
                 /\ AfterGuard(result).v = NoVerdict
                 /\ AfterGuard(result).clearAt = call.clearAt
BY DEF AfterGuard, ActInv, CallKept, CallFields, Idle, GuardPoints, Marked

\* What a look marks: the device without an interruption, or nothing.
LEMMA SightedShape ==
    ASSUME ActInv, NEW seen, NEW c, DOMAIN c = CallFields, Marked(c)
    PROVE  /\ DOMAIN Cleared(c, seen) = CallFields
           /\ \A field \in CallFields \ {"clearAt"} : Cleared(c, seen)[field] = c[field]
           /\ Since(Cleared(c, seen).clearAt)
           /\ (c.guard = "pre" /\ Cleared(c, seen).clearAt = drifts) => seen = device
<1>1. CASE c.guard = "pre"
  <2>1. Cleared(c, seen) = [c EXCEPT !.clearAt = Sighted(seen)]
    BY <1>1 DEF Cleared
  <2>2. Sighted(seen) = (IF seen = device THEN drifts ELSE Never)
    BY DEF Sighted
  <2>3. Since(Sighted(seen)) /\ (Sighted(seen) = drifts => seen = device)
    BY <2>2 DEF Since, ActInv, SeenAt, Never
  <2> QED BY <2>1, <2>3 DEF CallFields
<1>2. CASE c.guard # "pre"
  BY <1>2 DEF Cleared, Marked, ActInv, SeenAt, Since, Never
<1> QED BY <1>1, <1>2

\* A guard that passes marks the look it passed on.
LEMMA ClearedActs ==
    ASSUME ActInv, UNCHANGED <<device, drifts>>, NEW seen, ~Detected(seen), NEW c,
           DOMAIN c = CallFields, Marked(c), Guarded(c), call' = Cleared(c, seen),
           c.at # "execute", c.at = "sense" => c.guard = "pre" /\ c.v = NoVerdict
    PROVE  CallKept' /\ SeenAt'
<1>1. /\ DOMAIN call' = CallFields /\ Since(call'.clearAt)
      /\ (c.guard = "pre" /\ call'.clearAt = drifts) => Clear
      /\ call'.at = c.at /\ call'.guard = c.guard /\ call'.v = c.v /\ call'.senseAt = c.senseAt
      /\ call'.result = c.result
  BY SightedShape DEF CallFields, Clear
<1>2. CallKept'
  BY <1>1 DEF CallKept, Guarded
<1>3. Since(call'.senseAt)
  BY <1>1 DEF Marked, ActInv, SeenAt, Since, Never
<1> QED BY <1>1, <1>2, <1>3 DEF SeenAt, Since, At, Clear, ActInv, GuardPoints

\* The guard looks, taps, looks again and closes.
LEMMA GuardLookActs == ASSUME ActInv, GuardLook PROVE ActInv' /\ ActsClear
<1>1. TrailKept' /\ ActsClear /\ UNCHANGED <<device, drifts>> /\ At("guard")
  BY TrailStays DEF GuardLook, KeepStores, budgets
<1>2. PICK seen \in Sights :
        \/ ~Detected(seen) /\ call' = Cleared(AfterGuard("not_needed"), seen)
        \/ call' = [call EXCEPT !.at = "guardClose", !.result = Verdict(GuardProfile, seen)]
           /\ Verdict(GuardProfile, seen) # "resolved"
        \/ call' = [call EXCEPT !.at = "guardClose", !.result = "failed"]
        \/ call' = [call EXCEPT !.at = "guardTap", !.attempts = TapBudget(seen)]
  BY DEF GuardLook
<1>3. CASE ~Detected(seen) /\ call' = Cleared(AfterGuard("not_needed"), seen)
  <2> DEFINE c == AfterGuard("not_needed")
  <2>1. /\ DOMAIN c = CallFields /\ Marked(c) /\ Guarded(c) /\ c.at # "execute"
        /\ c.at = "sense" => c.guard = "pre" /\ c.v = NoVerdict
    BY <1>1, AfterGuardShape DEF At, GuardPoints, Guarded
  <2> HIDE DEF c
  <2> QED BY <1>1, <1>3, <2>1, ClearedActs DEF ActInv, c
<1>4. CASE ~(~Detected(seen) /\ call' = Cleared(AfterGuard("not_needed"), seen))
  <2>1. /\ DOMAIN call' = CallFields /\ call'.at \in {"guardClose", "guardTap"}
        /\ call'.guard = call.guard /\ call'.v = call.v
        /\ call'.clearAt = call.clearAt /\ call'.senseAt = call.senseAt
        /\ call'.at = "guardClose" => call'.result # "resolved"
    BY <1>2, <1>4 DEF ActInv, CallKept, CallFields
  <2> QED
    BY <1>1, <2>1 DEF ActInv, CallKept, SeenAt, Since, At, GuardPoints
<1> QED BY <1>3, <1>4

\* A lost attempt does not resolve.
LEMMA LostShape ==
    ASSUME ActInv
    PROVE  /\ DOMAIN AttemptLost = CallFields /\ AttemptLost.clearAt = call.clearAt
           /\ AttemptLost.senseAt = call.senseAt /\ AttemptLost.v = call.v
           /\ AttemptLost.guard = call.guard
           /\ AttemptLost.at \in {"guardClose", "guardTap"}
           /\ AttemptLost.at = "guardClose" => AttemptLost.result = "failed"
BY DEF AttemptLost, ActInv, CallKept, CallFields

\* A tap may change the screen, and is followed by a look.
LEMMA GuardTapActs == ASSUME ActInv, GuardTap PROVE ActInv' /\ ActsClear
<1>1. TrailKept' /\ ActsClear /\ UNCHANGED drifts /\ At("guardTap")
  BY TrailStays DEF GuardTap, KeepStores, budgets
<1>2. call' = [call EXCEPT !.at = "guardVerify"] \/ call' = AttemptLost
  BY DEF GuardTap, Go
<1> QED BY <1>1, <1>2, LostShape DEF ActInv, CallKept, SeenAt, Since, At, CallFields, GuardPoints

\* A look that finds nothing clears.
LEMMA GuardVerifyActs == ASSUME ActInv, GuardVerify PROVE ActInv' /\ ActsClear
<1>1. TrailKept' /\ ActsClear /\ UNCHANGED <<device, drifts>> /\ At("guardVerify")
  BY TrailStays DEF GuardVerify, KeepStores, budgets
<1> DEFINE c == [call EXCEPT !.at = "guardClose", !.result = "resolved", !.attempts = 0]
<1>2. PICK seen \in Sights : call' = IF Detected(seen) THEN AttemptLost ELSE Cleared(c, seen)
  BY DEF GuardVerify
<1>3. CASE Detected(seen)
  BY <1>1, <1>2, <1>3, LostShape DEF ActInv, CallKept, SeenAt, Since, At, CallFields, GuardPoints
<1>4. CASE ~Detected(seen)
  <2>1. DOMAIN c = CallFields /\ Marked(c) /\ Guarded(c) /\ c.at = "guardClose"
    BY <1>1 DEF ActInv, CallKept, CallFields, Marked, Guarded, At, GuardPoints
  <2> HIDE DEF c
  <2> QED BY <1>1, <1>2, <1>4, <2>1, ClearedActs DEF ActInv
<1> QED BY <1>3, <1>4

\* A call that is over hands over to the remediation around it, or to nobody.
LEMMA OverShape ==
    ASSUME NEW recovered, Over(recovered)
    PROVE  DOMAIN call' = CallFields /\ Marked(call') /\ call'.at \in {"idle", "remedyClose"}
BY DEF Over, Idle, CallFields, Marked

\* Only a guard that resolved goes on to the action.
LEMMA GuardCloseActs == ASSUME ActInv, GuardClose PROVE ActInv' /\ ActsClear
<1>1. UNCHANGED <<device, drifts>> /\ At("guardClose")
  BY DEF GuardClose, budgets
<1>2. TrailKept' /\ ActsClear
  <2>1. trail' = trail \/ trail' = [trail EXCEPT ![call.action].cleared = TRUE]
    BY DEF GuardClose
  <2> QED BY <2>1 DEF ActInv, TrailKept, ActsClear
<1>3. CASE call.result = "resolved"
  <2>1. call' = AfterGuard("resolved")
    BY <1>3 DEF GuardClose
  <2> QED
    BY <1>1, <1>2, <1>3, <2>1, AfterGuardShape
       DEF ActInv, CallKept, SeenAt, Since, Marked, At, Clear, GuardPoints, Never
<1>4. CASE call.result # "resolved"
  <2>1. \/ Over(FALSE)
        \/ call' = [call EXCEPT !.at = "close"]
        \/ call' = Idle
    <3>1. call.guard \in {"pre", "post", "tool"}
      BY <1>1 DEF ActInv, CallKept, At, GuardPoints
    <3> QED BY <1>4, <3>1 DEF GuardClose
  <2>2. /\ DOMAIN call' = CallFields /\ Marked(call')
        /\ call'.at \notin GuardPoints \cup {"sense", "execute"}
    BY <2>1, OverShape, IdleShape DEF ActInv, CallKept, CallFields, GuardPoints, Marked
  <2> QED BY <1>1, <1>2, <2>2, Away DEF ActInv, GuardPoints, Guarded
<1> QED BY <1>3, <1>4

-----------------------------------------------------------------------------
\* A read of the screen judges and does not act.
LEMMA JudgeShape ==
    ASSUME ActInv, NEW read, Judge(read)
    PROVE  /\ DOMAIN call' = CallFields /\ Marked(call')
           /\ call'.at \in {"reread", "refresh", "baseline"}
BY DEF Judge, ActInv, CallKept, CallFields, Marked

\* The clear screen is still there when nobody is asked for.
LEMMA SenseActs == ASSUME ActInv, Sense PROVE ActInv' /\ ActsClear
<1>1. TrailKept' /\ ActsClear /\ UNCHANGED <<device, drifts>> /\ At("sense")
  BY TrailStays DEF Sense, KeepStores, budgets
<1>2. PICK seen \in Sights :
        \/ \E read : Judge(read)
        \/ /\ ~Summary(seen).manualHandoff
           /\ call' = [call EXCEPT !.at = "execute", !.v.pre = Summary(seen),
                                   !.senseAt = Sighted(seen)]
  BY DEF Sense
<1>3. CASE \E read : Judge(read)
  BY <1>1, <1>3, JudgeShape, Away DEF ActInv, GuardPoints, Guarded
<1>4. CASE ~\E read : Judge(read)
  <2> DEFINE pre == Summary(seen)  s == Sighted(seen)
  <2>1. call.v = NoVerdict /\ DOMAIN call = CallFields
    BY <1>1 DEF ActInv, CallKept, At
  <2>2. /\ DOMAIN call' = CallFields /\ call'.at = "execute" /\ call'.clearAt = call.clearAt
        /\ call'.v.pre = pre /\ call'.senseAt = s
    BY <1>2, <1>4, <2>1 DEF CallFields, NoVerdict
  <2>3. Since(s) /\ (s = drifts => ~Summary(device).manualHandoff) /\ ~pre.manualHandoff
    BY <1>2, <1>4 DEF Sighted, Since, ActInv, SeenAt, Never
  <2>4. Summary(device)' = Summary(device)
    BY <1>1
  <2> HIDE DEF pre, s
  <2> QED
    BY <1>1, <2>2, <2>3, <2>4 DEF ActInv, CallKept, SeenAt, Since, At, Clear, GuardPoints
<1> QED BY <1>3, <1>4

\* The one step that executes an action for the first time.
LEMMA ExecuteActs == ASSUME ActInv, Execute PROVE ActInv' /\ ActsClear
<1>1. At("execute") /\ UNCHANGED drifts
  BY DEF Execute, budgets
<1>2. DOMAIN call' = CallFields /\ Marked(call') /\ call'.at \in {"ocr", "look"}
  BY DEF Execute, ActInv, CallKept, CallFields, Marked
<1>3. trail' = [trail EXCEPT ![call.action].done = TRUE]
  BY DEF Execute
<1>4. TrailKept'
  BY <1>3 DEF ActInv, TrailKept
<1>5. ActsClear
  BY <1>1 DEF ActsClear, ActInv, SeenAt, Clear
<1> QED BY <1>1, <1>2, <1>4, <1>5, Away DEF ActInv, GuardPoints, Guarded

\* The points of a call that are neither of a guard nor lead to an execution.
Aside == {"idle", "ocr", "ocrTap", "ocrVerify", "look", "reread", "refresh", "baseline", "record",
          "resumeLook", "resumeExec", "resumeCheck", "close", "remedyTrigger", "remedyChoose",
          "remedyClose", "recoverLook", "recoverLaunch", "recoverAfter"}

\* A step between such points.
LEMMA AsideActs ==
    ASSUME ActInv, UNCHANGED <<drifts, trail>>, DOMAIN call' = CallFields,
           Marked(call'), call'.at \in Aside
    PROVE  ActInv' /\ ActsClear
BY Away, TrailStays DEF ActInv, Aside, GuardPoints, Guarded

\* The OCR fallback comes after the execution.
LEMMA OcrActs ==
    ASSUME ActInv, Ocr \/ OcrTap \/ OcrVerify PROVE ActInv' /\ ActsClear
<1>1. CASE Ocr
  BY <1>1, AsideActs DEF Ocr, KeepStores, budgets, ActInv, CallKept, CallFields, Marked, Aside
<1>2. CASE OcrTap
  <2>1. /\ UNCHANGED drifts /\ DOMAIN call' = CallFields /\ Marked(call')
        /\ call'.at \in {"ocrVerify", "look"}
    BY <1>2 DEF OcrTap, Go, budgets, ActInv, CallKept, CallFields, Marked
  <2>2. trail' \in {trail, [trail EXCEPT ![call.action].taps = @ + 1]}
    BY <1>2 DEF OcrTap
  <2>3. TrailKept' /\ ActsClear
    BY <2>2 DEF ActInv, TrailKept, ActsClear
  <2> QED BY <2>1, <2>3, Away DEF ActInv, GuardPoints, Guarded
<1>3. CASE OcrVerify
  <2>1. UNCHANGED <<drifts, trail>>
    BY <1>3 DEF OcrVerify, KeepStores, budgets
  <2>2. Go("ocrTap") \/ \E read : Judge(read)
    BY <1>3 DEF OcrVerify
  <2>3. CASE Go("ocrTap")
    BY <2>1, <2>3, AsideActs DEF Go, ActInv, CallKept, CallFields, Marked, Aside
  <2>4. CASE \E read : Judge(read)
    BY <2>1, <2>4, JudgeShape, AsideActs DEF Aside
  <2> QED BY <2>2, <2>3, <2>4
<1> QED BY <1>1, <1>2, <1>3

\* So does the verdict.
LEMMA VerdictActs ==
    ASSUME ActInv, Look \/ RereadScreen \/ RefreshScreen \/ RecordBaseline
    PROVE  ActInv' /\ ActsClear
<1>1. UNCHANGED <<drifts, trail>>
  BY DEF Look, RereadScreen, RefreshScreen, RecordBaseline, KeepStores, budgets
<1>2. CASE Look \/ RereadScreen
  <2>1. \E read : Judge(read)
    BY <1>2 DEF Look, RereadScreen
  <2> QED BY <1>1, <2>1, JudgeShape, AsideActs DEF Aside
<1>3. CASE RefreshScreen \/ RecordBaseline
  BY <1>1, <1>3, AsideActs DEF RefreshScreen, RecordBaseline, Go, ActInv, CallKept, CallFields, Marked, Aside
<1> QED BY <1>2, <1>3

\* The record is written before the guard looks again.
LEMMA PersistActs == ASSUME ActInv, PersistRecord PROVE ActInv' /\ ActsClear
<1>1. TrailKept' /\ ActsClear /\ UNCHANGED drifts
  BY TrailStays DEF PersistRecord, budgets
<1>2. call' = [call EXCEPT !.at = "guard", !.guard = "post", !.v = Outcome(call.v)]
  BY DEF PersistRecord
<1> QED BY <1>1, <1>2, Away DEF ActInv, CallKept, CallFields, Marked, Guarded, GuardPoints

\* Resuming and closing come later still.
LEMMA ResumeActs ==
    ASSUME ActInv, ResumeLook \/ ResumeExec \/ ResumeCheck \/ Close
    PROVE  ActInv' /\ ActsClear
<1>1. UNCHANGED <<drifts, trail>>
  BY DEF ResumeLook, ResumeExec, ResumeCheck, Close, KeepStores, budgets
<1>2. CASE ResumeLook \/ ResumeExec
  BY <1>1, <1>2, AsideActs DEF ResumeLook, ResumeExec, ActInv, CallKept, CallFields, Marked, Aside
<1>3. CASE ResumeCheck
  BY <1>1, <1>3, IdleShape, AsideActs DEF ResumeCheck, ActInv, CallKept, CallFields, Marked, Aside
<1>4. CASE Close
  <2>1. Go("remedyTrigger") \/ \E recovered : Over(recovered)
    BY <1>4 DEF Close
  <2> QED BY <1>1, <2>1, OverShape, AsideActs DEF Go, ActInv, CallKept, CallFields, Marked, Aside
<1> QED BY <1>2, <1>3, <1>4

\* A remediation that misses its audit record ends.
LEMMA AuditFailsActs == ASSUME ActInv, UNCHANGED drifts, AuditFails PROVE ActInv' /\ ActsClear
<1>1. TrailKept' /\ ActsClear
  BY DEF AuditFails, ActInv, TrailKept, ActsClear
<1>2. CallKept' /\ SeenAt'
  BY IdleShape, Away DEF AuditFails, Marked, Guarded, GuardPoints
<1> QED BY <1>1, <1>2 DEF ActInv

\* Remediation ends, recovers or issues a new action.
LEMMA RemedyActs ==
    ASSUME ActInv, RemedyTrigger \/ RemedyStop \/ RemedyRecover \/ RemedyReplay \/ RemedyClose
    PROVE  ActInv' /\ ActsClear
<1>1. UNCHANGED drifts
  BY DEF RemedyTrigger, RemedyStop, RemedyRecover, RemedyReplay, RemedyClose, budgets
<1>2. CASE RemedyTrigger
  <2>1. \/ call' = [Idle EXCEPT !.tool = "recover", !.at = "recoverLook"] /\ UNCHANGED trail
        \/ Go("remedyChoose") /\ UNCHANGED trail
        \/ AuditFails
    BY <1>2 DEF RemedyTrigger, Suspend
  <2>2. CASE AuditFails
    BY <1>1, <2>2, AuditFailsActs
  <2> QED
    BY <1>1, <2>1, <2>2, IdleShape, AsideActs DEF Go, ActInv, CallKept, CallFields, Marked, Aside
<1>7. CASE RemedyClose
  <2>1. (call' = Idle /\ UNCHANGED trail) \/ AuditFails
    BY <1>7 DEF RemedyClose, Stop
  <2> QED BY <1>1, <2>1, IdleShape, AsideActs, AuditFailsActs DEF Marked, Aside
<1>3. CASE RemedyStop
  BY <1>1, <1>3, IdleShape, AsideActs DEF RemedyStop, Stop, Marked, Aside
<1>4. CASE RemedyRecover
  <2>1. call' = [Idle EXCEPT !.tool = "recover", !.at = "recoverLook"] /\ UNCHANGED trail
    BY <1>4 DEF RemedyRecover, Suspend
  <2> QED BY <1>1, <2>1, IdleShape, AsideActs DEF CallFields, Marked, Aside
<1>5. CASE RemedyReplay /\ Replayable
  <2>1. PICK i : IssueAction(NextId, i) /\ call' = PerformCall(NextId, i, FALSE, "replay")
    BY <1>5 DEF RemedyReplay, Suspend
  <2>2. TrailKept' /\ ActsClear
    BY <2>1, IssueActs
  <2> QED BY <1>1, <2>1, <2>2, PerformShape, Away DEF ActInv, GuardPoints, Guarded
<1>6. CASE RemedyReplay /\ ~Replayable
  BY <1>1, <1>6, IdleShape, AsideActs DEF RemedyReplay, Stop, Marked, Aside
<1> QED BY <1>2, <1>3, <1>4, <1>5, <1>6, <1>7

\* A recovery looks and relaunches.
LEMMA RecoverActs ==
    ASSUME ActInv, RecoverLook \/ RecoverLaunch \/ RecoverAfter PROVE ActInv' /\ ActsClear
<1>1. UNCHANGED <<drifts, trail>>
  BY DEF RecoverLook, RecoverLaunch, RecoverAfter, KeepStores, budgets
<1>2. Go("recoverLaunch") \/ Go("recoverAfter") \/ \E recovered : Over(recovered)
  BY DEF RecoverLook, RecoverLaunch, RecoverAfter
<1> QED
  BY <1>1, <1>2, OverShape, AsideActs DEF Go, ActInv, CallKept, CallFields, Marked, Aside

\* A move of the screen on its own is counted; a call that fails is over.
LEMMA WorldActs == ASSUME ActInv, Drift \/ Fail PROVE ActInv' /\ ActsClear
<1>1. TrailKept' /\ ActsClear
  BY TrailStays DEF Drift, Fail
<1>2. CASE Drift
  <2>1. drifts' = drifts + 1 /\ call' = call
    BY <1>2 DEF Drift
  <2>2. /\ drifts \in Nat /\ Since(call.clearAt) /\ Since(call.senseAt)
        /\ At("execute") => ~call.v.pre.manualHandoff
    BY DEF ActInv, SeenAt
  <2>3. drifts' \in Nat /\ drifts' # call.clearAt /\ drifts' # call.senseAt
    BY <2>1, <2>2 DEF Since, Never
  <2>4. Since(call.clearAt)' /\ Since(call.senseAt)'
    BY <2>1, <2>2 DEF Since, Never
  <2>5. SeenAt'
    BY <2>1, <2>2, <2>3, <2>4 DEF SeenAt, At
  <2> QED BY <1>1, <2>1, <2>5 DEF ActInv, CallKept
<1>3. CASE Fail
  <2>1. call' = Idle /\ UNCHANGED drifts
    BY <1>3 DEF Fail
  <2>2. Marked(Idle) /\ Guarded(Idle) /\ Idle.at \notin {"guardClose", "sense", "execute"}
    BY IdleShape DEF Marked, Guarded, GuardPoints
  <2>3. Marked(call') /\ Guarded(call')
    BY <2>1, <2>2 DEF Marked, Guarded
  <2> QED BY <1>1, <2>1, <2>2, <2>3, IdleShape, Away DEF ActInv
<1> QED BY <1>2, <1>3

-----------------------------------------------------------------------------
\* The invariant is inductive, and gives the property of the step.
LEMMA StepActs == ActInv /\ [Next]_vars => ActInv' /\ [ActsClear]_vars
<1> SUFFICES ASSUME ActInv, [Next]_vars PROVE ActInv' /\ [ActsClear]_vars
  OBVIOUS
<1>1. CASE Work
  BY <1>1, GuardLookActs, GuardTapActs, GuardVerifyActs, GuardCloseActs, SenseActs, ExecuteActs,
     OcrActs, VerdictActs, PersistActs, ResumeActs, RemedyActs, RecoverActs DEF Work
<1>2. CASE UNCHANGED vars
  BY <1>2, TrailStays DEF vars, ActInv, CallKept, SeenAt, Since, At, Clear, budgets
<1> QED BY <1>1, <1>2, ClientActs, WorldActs DEF Next

\* An action is first executed only when the summary before it asks for no person;
\* and the device shows no interruption, or asks for no person, when it has not
\* moved since the guard, or that summary, really showed it.
THEOREM ExecutesOnClearScreen == Spec => ActsOnClearScreen
BY InitActs, StepActs, PTL DEF Spec, ActsOnClearScreen, ActsClear

-----------------------------------------------------------------------------
\* A verdict and what its readers make of it.
VerdictFields == {"status", "reason", "low", "target", "pre", "post", "handoff", "attempt",
                  "budget", "refreshed", "category"}
Shaped(v) == DOMAIN v = VerdictFields /\ v.attempt \in Nat /\ v.budget \in Nat

\* A read that succeeds saw no handoff; a settled one is neither terminal nor a
\* state to wait in.
ReadOK(v) ==
    Shaped(v) /\ (v.status = "success" => v.handoff = "none" /\ ~v.post.manualHandoff)
Calm(v) == ~Changed(v) => StepState(v) \notin RetryableSteps
Settled(v) ==
    ReadOK(v) /\ (v.status = "success" => v.post.readiness \notin TerminalReadiness /\ Calm(v))
\* What the property says of a success.
Stands(v) ==
    v.status = "success" =>
        /\ ~v.post.manualHandoff /\ v.handoff = "none"
        /\ v.post.readiness \in TerminalReadiness => v.refreshed
        /\ Calm(v)

\* A state to wait in has no handoff.
LEMMA RetryableIsFree == ASSUME NEW v, StepState(v) \in RetryableSteps PROVE v.handoff = "none"
BY DEF StepState, RetryableSteps

\* The first read of the screen after the action.
LEMMA FirstReadShape ==
    ASSUME NEW v, NEW post, Shaped(v), v.handoff \in {"none", "pre"}
    PROVE  ReadOK(FirstRead(v, post))
<1> DEFINE seen == [v EXCEPT !.post = post, !.attempt = 1]
           read == IF v.handoff = "pre"
                   THEN [seen EXCEPT !.status = "failed", !.reason = "manual_handoff_required"]
                   ELSE IF post.manualHandoff
                   THEN [seen EXCEPT !.handoff = "post", !.status = "partial",
                                     !.reason = "manual_handoff_required"]
                   ELSE seen
<1>1. FirstRead(v, post) = [read EXCEPT !.budget = MaxRetryAttempts(StepState(read))]
  BY DEF FirstRead
<1>2. ReadOK(read)
  BY DEF Shaped, VerdictFields, ReadOK
<1>3. MaxRetryAttempts(StepState(read)) \in Nat
  BY DEF MaxRetryAttempts
<1> HIDE DEF read
<1> QED BY <1>1, <1>2, <1>3 DEF ReadOK, Shaped, VerdictFields

\* A later one.
LEMMA RereadShape ==
    ASSUME NEW v, NEW post, ReadOK(v), v.handoff = "none"
    PROVE  /\ ReadOK(Reread(v, post)) /\ Reread(v, post).post = post /\ Reread(v, post).pre = v.pre
           /\ Reread(v, post).status = "success" => v.status = "success"
BY DEF Reread, ReadOK, Shaped, VerdictFields

\* The end of the loop fails what is terminal or has waited in vain.
LEMMA SettleSettles ==
    ASSUME NEW v, ReadOK(v), ~ShouldReadAgain(v)
    PROVE  Settled(Settle(v))
<1>1. CASE v.post.readiness \in TerminalReadiness
  <2>1. Settle(v) = [v EXCEPT !.status = "failed", !.reason = "network_terminal"]
    BY <1>1 DEF Settle
  <2> QED BY <2>1 DEF Settled, ReadOK, Shaped, VerdictFields
<1> DEFINE exhausted == ~Changed(v) /\ v.attempt >= v.budget /\ StepState(v) \in RetryableSteps
<1>2. CASE v.post.readiness \notin TerminalReadiness /\ exhausted
  <2>1. Settle(v) = [v EXCEPT !.status = "failed", !.reason = "retry_exhausted"]
    BY <1>2 DEF Settle
  <2> QED BY <2>1 DEF Settled, ReadOK, Shaped, VerdictFields
<1>3. CASE v.post.readiness \notin TerminalReadiness /\ ~exhausted
  <2>1. Settle(v) = v
    BY <1>3 DEF Settle
  <2>2. Calm(v)
    BY <1>3 DEF Calm, ShouldReadAgain, ShouldRetryStep, EvidenceConfidence, ReadOK, Shaped
  <2> QED BY <1>3, <2>1, <2>2 DEF Settled
<1> QED BY <1>1, <1>2, <1>3

\* The late look keeps a success only on a screen without a handoff.
LEMMA RefreshStands ==
    ASSUME NEW v, NEW post, Settled(v), ~Changed(v), v.handoff = "none"
    PROVE  /\ Shaped([Refresh(v, post) EXCEPT !.refreshed = TRUE])
           /\ Stands([Refresh(v, post) EXCEPT !.refreshed = TRUE])
<1> DEFINE w == [Refresh(v, post) EXCEPT !.refreshed = TRUE]
<1>1. CASE HasStateChanged(v.post, post)
  <2> DEFINE u == Reread(v, post)
  <2>1. w = [[u EXCEPT !.attempt = v.attempt] EXCEPT !.refreshed = TRUE]
    BY <1>1 DEF Refresh
  <2>2. ReadOK(u) /\ u.post = post /\ u.pre = v.pre
    BY RereadShape DEF Settled
  <2> HIDE DEF u
  <2>3. Shaped(w)
    BY <2>1, <2>2 DEF ReadOK, Shaped, VerdictFields, Settled
  <2>4. w.post = post /\ w.pre = v.pre /\ w.refreshed /\ w.status = u.status /\ w.handoff = u.handoff
    BY <2>1, <2>2 DEF ReadOK, Shaped, VerdictFields
  <2>5. Changed(w)
    BY <1>1, <2>4 DEF Changed, HasStateChanged
  <2> QED BY <2>2, <2>3, <2>4, <2>5 DEF Stands, Calm, ReadOK
<1>2. CASE ~HasStateChanged(v.post, post)
  <2>1. w = [v EXCEPT !.refreshed = TRUE]
    BY <1>2 DEF Refresh
  <2>2. Shaped(w) /\ \A f \in VerdictFields \ {"refreshed"} : w[f] = v[f]
    BY <2>1 DEF Settled, ReadOK, Shaped, VerdictFields
  <2>3. Changed(w) = Changed(v) /\ StepState(w) = StepState(v)
    BY <2>2 DEF Changed, StepState, Category, FailureCategory, VerdictFields
  <2> QED BY <2>1, <2>2, <2>3 DEF Stands, Settled, ReadOK, Calm, VerdictFields
<1> QED BY <1>1, <1>2

-----------------------------------------------------------------------------
\* The verdict of a call: what is true of it at each point until it is kept.
Judged == {"reread", "refresh", "baseline"}
Unjudged(c) ==
    \/ c.at \in {"sense", "execute", "ocr", "ocrTap", "ocrVerify", "look"}
    \/ c.at \in GuardPoints /\ c.guard = "pre"
VerdictOf(c) ==
    /\ Shaped(c.v)
    /\ Unjudged(c) => c.v.handoff = "none"
    /\ c.at = "reread" => ReadOK(c.v) /\ c.v.handoff = "none"
    /\ c.at = "refresh" => Settled(c.v) /\ ~Changed(c.v) /\ c.v.handoff = "none"
    /\ c.at = "baseline" => Stands(c.v)
VerdictInv == CallKept /\ VerdictOf(call)

\* A step that keeps the verdict and does not judge.
LEMMA VerdictKept ==
    ASSUME VerdictInv, NEW d, d.v = call.v, d.at \notin Judged, Unjudged(d) => Unjudged(call)
    PROVE  VerdictOf(d)
BY DEF VerdictInv, VerdictOf, Judged

\* A call that starts, or is over, has no verdict.
LEMMA NoVerdictYet ==
    ASSUME NEW d, d.v = NoVerdict, d.at \notin Judged
    PROVE  VerdictOf(d)
<1>1. Shaped(NoVerdict) /\ NoVerdict.handoff = "none"
  BY DEF NoVerdict, Shaped, VerdictFields
<1> QED BY <1>1 DEF VerdictOf, Judged

\* An idle call.
LEMMA IdleVerdict == Idle.v = NoVerdict /\ Idle.at = "idle" /\ DOMAIN Idle = CallFields
BY IdleShape DEF Idle
\* A call that hands over to the remediation around it.
LEMMA OverVerdict == ASSUME NEW recovered, Over(recovered) PROVE VerdictOf(call')
<1>1. call'.v = NoVerdict /\ call'.at \in {"idle", "remedyClose"}
  BY DEF Over, Idle
<1> QED BY <1>1, NoVerdictYet DEF Judged

\* A performed action has none either.
LEMMA PerformVerdict ==
    ASSUME NEW a, NEW i, NEW r, NEW c PROVE VerdictOf(PerformCall(a, i, r, c))
<1>1. PerformCall(a, i, r, c).v = NoVerdict /\ PerformCall(a, i, r, c).at = "guard"
  BY DEF PerformCall, Idle
<1> QED BY <1>1, NoVerdictYet DEF Judged

\* What the client starts.
LEMMA ClientVerdict == ASSUME VerdictInv, Client PROVE VerdictOf(call')
<1>1. ASSUME NEW i \in Intents, NEW remediate \in BOOLEAN, Perform(i, remediate)
      PROVE  VerdictOf(call')
  BY <1>1, PerformVerdict DEF Perform, StartCall
<1>2. CASE ReplayLastStablePath
  BY <1>2, PerformVerdict DEF ReplayLastStablePath, StartCall
<1>3. CASE \/ \E a \in 1..NoAction : ResolveInterruption(a)
           \/ ResumeInterruptedAction \/ RecoverToKnownState
  <2>1. call'.v = NoVerdict /\ call'.at \in {"guard", "resumeLook", "recoverLook"}
    BY <1>3 DEF ResolveInterruption, ResumeInterruptedAction, RecoverToKnownState, StartCall, Idle
  <2> QED BY <2>1, NoVerdictYet DEF Judged
<1> QED BY <1>1, <1>2, <1>3 DEF Client

\* A guard lets the verdict through as it is.
LEMMA AfterGuardVerdict ==
    ASSUME VerdictInv, call.at \in GuardPoints, NEW result, NEW seen
    PROVE  /\ VerdictOf(AfterGuard(result))
           /\ VerdictOf(Cleared(AfterGuard(result), seen))
<1> DEFINE c == AfterGuard(result)
<1>1. CASE call.guard = "tool"
  <2>1. c = Idle
    BY <1>1 DEF AfterGuard
  <2>2. Cleared(c, seen).v = NoVerdict /\ Cleared(c, seen).at = "idle"
    BY <2>1 DEF Cleared, Idle
  <2> QED BY <2>1, <2>2, IdleVerdict, NoVerdictYet DEF Judged
<1>2. CASE call.guard \in {"pre", "post"}
  <2>1. /\ DOMAIN c = CallFields /\ c.v = call.v
        /\ c.at \in {"sense", "resumeLook", "close"} /\ (c.at = "sense" => call.guard = "pre")
    BY <1>2 DEF AfterGuard, VerdictInv, CallKept, CallFields
  <2>2. Cleared(c, seen).v = c.v /\ Cleared(c, seen).at = c.at
    BY <2>1 DEF Cleared, CallFields
  <2> HIDE DEF c
  <2>3. VerdictOf(c) /\ VerdictOf(Cleared(c, seen))
    BY <2>1, <2>2, VerdictKept DEF Judged, Unjudged, GuardPoints
  <2> QED BY <2>3 DEF c
<1> QED BY <1>1, <1>2 DEF VerdictInv, CallKept

\* The steps of a guard.
LEMMA GuardVerdict ==
    ASSUME VerdictInv, GuardLook \/ GuardTap \/ GuardVerify \/ GuardClose
    PROVE  VerdictOf(call')
<1>1. call.at \in GuardPoints
  BY DEF GuardLook, GuardTap, GuardVerify, GuardClose, At, GuardPoints
<1>2. ASSUME DOMAIN call' = CallFields, call'.v = call.v, call'.guard = call.guard,
             call'.at \in GuardPoints \cup {"close"}
      PROVE  VerdictOf(call')
  BY <1>1, <1>2, VerdictKept DEF Judged, Unjudged, GuardPoints
<1>3. CASE GuardLook
  <2>1. PICK seen \in Sights :
          \/ call' = Cleared(AfterGuard("not_needed"), seen)
          \/ \E result : call' = [call EXCEPT !.at = "guardClose", !.result = result]
          \/ call' = [call EXCEPT !.at = "guardTap", !.attempts = TapBudget(seen)]
    BY <1>3 DEF GuardLook
  <2> QED
    BY <1>1, <1>2, <2>1, AfterGuardVerdict DEF VerdictInv, CallKept, CallFields, GuardPoints
<1>4. CASE GuardTap
  BY <1>2, <1>4 DEF GuardTap, Go, AttemptLost, VerdictInv, CallKept, CallFields, GuardPoints
<1>5. CASE GuardVerify
  <2> DEFINE c == [call EXCEPT !.at = "guardClose", !.result = "resolved", !.attempts = 0]
  <2>1. PICK seen \in Sights : call' = AttemptLost \/ call' = Cleared(c, seen)
    BY <1>5 DEF GuardVerify
  <2>2. CASE call' = AttemptLost
    BY <1>2, <2>2 DEF AttemptLost, VerdictInv, CallKept, CallFields, GuardPoints
  <2>3. CASE call' = Cleared(c, seen)
    <3>1. /\ DOMAIN c = CallFields /\ c.v = call.v /\ c.guard = call.guard
          /\ c.at = "guardClose"
      BY DEF VerdictInv, CallKept, CallFields
    <3> HIDE DEF c
    <3>2. /\ DOMAIN call' = CallFields /\ call'.v = c.v /\ call'.guard = c.guard
          /\ call'.at = c.at
      BY <2>3, <3>1 DEF Cleared, CallFields
    <3> QED BY <1>2, <3>1, <3>2 DEF GuardPoints
  <2> QED BY <2>1, <2>2, <2>3
<1>6. CASE GuardClose
  <2>1. call.guard \in {"pre", "post", "tool"}
    BY <1>1 DEF VerdictInv, CallKept
  <2>2. \/ call' = AfterGuard("resolved") \/ Over(FALSE)
        \/ call' = [call EXCEPT !.at = "close"] \/ call' = Idle
    BY <1>6, <2>1 DEF GuardClose
  <2>3. CASE call' = [call EXCEPT !.at = "close"]
    BY <1>2, <2>3 DEF VerdictInv, CallKept, CallFields
  <2> QED BY <1>1, <2>2, <2>3, AfterGuardVerdict, OverVerdict, IdleVerdict, NoVerdictYet DEF Judged
<1> QED BY <1>3, <1>4, <1>5, <1>6

\* A read that is in order is judged into a verdict that stands, or goes on.
LEMMA JudgeVerdict ==
    ASSUME VerdictInv, NEW read, ReadOK(read), Judge(read)
    PROVE  VerdictOf(call')
<1>1. DOMAIN call = CallFields
  BY DEF VerdictInv, CallKept
<1>2. CASE ShouldReadAgain(read)
  <2>1. call'.v = read /\ call'.at = "reread"
    BY <1>1, <1>2 DEF Judge, CallFields
  <2>2. read.handoff = "none"
    BY <1>2, RetryableIsFree DEF ShouldReadAgain, ShouldRetryStep
  <2> QED BY <2>1, <2>2 DEF VerdictOf, Unjudged, GuardPoints, ReadOK
<1>3. CASE ~ShouldReadAgain(read)
  <2> DEFINE s == Settle(read)
  <2>1. Settled(s)
    BY <1>3, SettleSettles
  <2>2. call'.v = s /\ call'.at = IF ShouldRefresh(s) THEN "refresh" ELSE "baseline"
    BY <1>1, <1>3 DEF Judge, CallFields
  <2> HIDE DEF s
  <2> QED
    BY <2>1, <2>2 DEF VerdictOf, Unjudged, GuardPoints, ReadOK, Settled, Stands, ShouldRefresh
<1> QED BY <1>2, <1>3

\* Before and through the execution no handoff was seen.
LEMMA SenseVerdict == ASSUME VerdictInv, Sense PROVE VerdictOf(call')
<1>1. /\ DOMAIN call = CallFields /\ Shaped(call.v) /\ call.v.handoff = "none"
  BY DEF VerdictInv, CallKept, VerdictOf, Unjudged, Sense, At
<1>4. PICK seen \in Sights :
        \/ Judge(FirstRead([call.v EXCEPT !.pre = Summary(seen), !.handoff = "pre"], Summary(seen)))
        \/ call' = [call EXCEPT !.at = "execute", !.v.pre = Summary(seen),
                                !.senseAt = Sighted(seen)]
  BY DEF Sense
<1> DEFINE pre == Summary(seen)
           v == [call.v EXCEPT !.pre = pre, !.handoff = "pre"]
<1>2. CASE Judge(FirstRead(v, pre))
  <2>1. Shaped(v) /\ v.handoff = "pre"
    BY <1>1 DEF Shaped, VerdictFields
  <2> HIDE DEF v
  <2> QED BY <1>2, <2>1, FirstReadShape, JudgeVerdict
<1>3. CASE call' = [call EXCEPT !.at = "execute", !.v.pre = pre, !.senseAt = Sighted(seen)]
  <2>1. call'.at = "execute" /\ call'.v = [call.v EXCEPT !.pre = pre]
    BY <1>1, <1>3 DEF CallFields
  <2> HIDE DEF pre
  <2> QED BY <1>1, <2>1 DEF Shaped, VerdictFields, VerdictOf
<1> QED BY <1>2, <1>3, <1>4

\* The execution and its fallback set the status.
LEMMA ExecuteVerdict == ASSUME VerdictInv, Execute \/ Ocr \/ OcrTap PROVE VerdictOf(call')
<1>1. /\ DOMAIN call = CallFields /\ Shaped(call.v) /\ call.v.handoff = "none"
  BY DEF VerdictInv, CallKept, VerdictOf, Unjudged, Execute, Ocr, OcrTap, At
<1>2. /\ call'.at \in {"ocr", "ocrTap", "ocrVerify", "look"} /\ DOMAIN call'.v = VerdictFields
      /\ call'.v.handoff = call.v.handoff
      /\ call'.v.attempt = call.v.attempt /\ call'.v.budget = call.v.budget
  <2>1. CASE Execute
    <3>1. PICK r \in ResultsOf(call.intent) :
            call' = [call EXCEPT !.v.status = r.status, !.v.reason = r.reason,
                                 !.v.low = r.status, !.v.target = r.target,
                                 !.clearAt = Never, !.senseAt = Never,
                                 !.at = IF CanAttemptOcr(call.intent, r) /\ ~HasLoadingBlockers(call.v.pre)
                                        THEN "ocr" ELSE "look"]
      BY <2>1 DEF Execute
    <3> QED BY <1>1, <3>1 DEF Shaped, VerdictFields, CallFields
  <2>2. CASE Ocr \/ OcrTap
    <3>1. \/ \E at \in {"ocrTap", "ocrVerify"} : call' = [call EXCEPT !.at = at]
          \/ \E status \in {"failed", "success"}, reason \in {"adapter_error", "ok"} :
                call' = [call EXCEPT !.at = "look", !.v.status = status, !.v.reason = reason]
      BY <2>2 DEF Ocr, OcrTap, Go
    <3>2. CASE \E at \in {"ocrTap", "ocrVerify"} : call' = [call EXCEPT !.at = at]
      <4>1. call'.at \in {"ocrTap", "ocrVerify"} /\ call'.v = call.v
        BY <1>1, <3>2 DEF CallFields
      <4> QED BY <1>1, <4>1 DEF Shaped
    <3>3. CASE \E status \in {"failed", "success"}, reason \in {"adapter_error", "ok"} :
                 call' = [call EXCEPT !.at = "look", !.v.status = status, !.v.reason = reason]
      <4>1. PICK status, reason :
              call' = [call EXCEPT !.at = "look", !.v.status = status, !.v.reason = reason]
        BY <3>3
      <4>2. /\ call'.at = "look"
            /\ call'.v = [call.v EXCEPT !.status = status, !.reason = reason]
        BY <1>1, <4>1 DEF CallFields
      <4> QED BY <1>1, <4>2 DEF Shaped, VerdictFields
    <3> QED BY <3>1, <3>2, <3>3
  <2> QED BY <2>1, <2>2
<1> QED BY <1>1, <1>2 DEF VerdictOf, Shaped

\* The first read after the execution or the last OCR tap.
LEMMA LookVerdict == ASSUME VerdictInv, Look \/ OcrVerify PROVE VerdictOf(call')
<1>1. /\ DOMAIN call = CallFields /\ Shaped(call.v) /\ call.v.handoff = "none"
  BY DEF VerdictInv, CallKept, VerdictOf, Unjudged, Look, OcrVerify, At
<1>2. CASE Look
  <2>1. PICK seen \in Sights : Judge(FirstRead(call.v, Summary(seen)))
    BY <1>2 DEF Look
  <2> QED BY <1>1, <2>1, FirstReadShape, JudgeVerdict
<1>3. CASE OcrVerify
  <2>5. PICK seen \in Sights :
          \/ Go("ocrTap")
          \/ LET post == Summary(seen)
                 passed == HasStateChanged(call.v.pre, post)
             IN Judge(FirstRead([call.v EXCEPT !.status = IF passed THEN "success" ELSE "failed",
                                               !.reason = IF passed THEN "ok" ELSE "adapter_error"],
                                post))
    BY <1>3 DEF OcrVerify
  <2> DEFINE post == Summary(seen)
             passed == HasStateChanged(call.v.pre, post)
             v == [call.v EXCEPT !.status = IF passed THEN "success" ELSE "failed",
                                 !.reason = IF passed THEN "ok" ELSE "adapter_error"]
  <2>1. Go("ocrTap") \/ Judge(FirstRead(v, post))
    BY <2>5
  <2>2. Shaped(v) /\ v.handoff = "none"
    BY <1>1 DEF Shaped, VerdictFields
  <2>3. CASE Go("ocrTap")
    BY <1>1, <2>3 DEF Go, CallFields, VerdictOf
  <2> HIDE DEF v
  <2>4. CASE Judge(FirstRead(v, post))
    BY <2>2, <2>4, FirstReadShape, JudgeVerdict
  <2> QED BY <2>1, <2>3, <2>4
<1> QED BY <1>2, <1>3

\* A re-read is judged again.
LEMMA RereadVerdict == ASSUME VerdictInv, RereadScreen PROVE VerdictOf(call')
<1>1. ReadOK(call.v) /\ call.v.handoff = "none"
  BY DEF VerdictInv, VerdictOf, RereadScreen, At
<1>3. PICK seen \in Sights : Judge(Reread(call.v, Summary(seen)))
  BY DEF RereadScreen
<1>2. ReadOK(Reread(call.v, Summary(seen)))
  BY <1>1, RereadShape
<1> QED BY <1>2, <1>3, JudgeVerdict

\* The late look ends the judging.
LEMMA RefreshVerdict == ASSUME VerdictInv, RefreshScreen PROVE VerdictOf(call')
<1>4. PICK seen \in Sights :
        call' = [call EXCEPT !.at = "baseline",
                             !.v = [Refresh(call.v, Summary(seen)) EXCEPT !.refreshed = TRUE]]
  BY DEF RefreshScreen
<1> DEFINE w == [Refresh(call.v, Summary(seen)) EXCEPT !.refreshed = TRUE]
<1>1. Settled(call.v) /\ ~Changed(call.v) /\ call.v.handoff = "none"
  BY DEF VerdictInv, VerdictOf, RefreshScreen, At
<1>2. Shaped(w) /\ Stands(w)
  BY <1>1, RefreshStands
<1>3. call'.v = w /\ call'.at = "baseline"
  BY <1>4 DEF VerdictInv, CallKept, CallFields
<1> HIDE DEF w
<1> QED BY <1>2, <1>3 DEF VerdictOf, Unjudged, GuardPoints

\* What is kept of the verdict still is one.
LEMMA KeptVerdict == ASSUME VerdictInv, RecordBaseline \/ PersistRecord PROVE VerdictOf(call')
<1>1. CASE RecordBaseline
  <2>1. call'.v = call.v /\ call'.at = "record"
    BY <1>1 DEF RecordBaseline, Go, VerdictInv, CallKept, CallFields
  <2> QED BY <2>1, VerdictKept DEF Judged, Unjudged, GuardPoints
<1>2. CASE PersistRecord
  <2>1. Shaped(Outcome(call.v))
    BY DEF Outcome, NoVerdict, Shaped, VerdictFields
  <2>2. call'.v = Outcome(call.v) /\ call'.at = "guard" /\ call'.guard = "post"
    BY <1>2 DEF PersistRecord, VerdictInv, CallKept, CallFields
  <2> QED BY <2>1, <2>2 DEF VerdictOf, Unjudged, GuardPoints
<1> QED BY <1>1, <1>2

\* After that nothing judges it again.
LEMMA LaterVerdict ==
    ASSUME VerdictInv, \/ ResumeLook \/ ResumeExec \/ ResumeCheck \/ Close
                       \/ RemedyTrigger \/ RemedyStop \/ RemedyRecover \/ RemedyReplay \/ RemedyClose
                       \/ RecoverLook \/ RecoverLaunch \/ RecoverAfter
    PROVE  VerdictOf(call')
<1>1. DOMAIN call = CallFields
  BY DEF VerdictInv, CallKept
<1>2. ASSUME NEW at, at \notin Judged, ~Unjudged([call EXCEPT !.at = at]), Go(at)
      PROVE  VerdictOf(call')
  BY <1>1, <1>2, VerdictKept DEF Go, CallFields
<1>3. ASSUME NEW at \in {"remedyChoose", "remedyTrigger", "recoverLaunch", "recoverAfter"}
      PROVE  at \notin Judged /\ ~Unjudged([call EXCEPT !.at = at])
  BY <1>1, <1>3 DEF Judged, Unjudged, GuardPoints, CallFields
<1>4. [Idle EXCEPT !.tool = "recover", !.at = "recoverLook"].v = NoVerdict
      /\ [Idle EXCEPT !.tool = "recover", !.at = "recoverLook"].at = "recoverLook"
  BY DEF Idle
<1>5. CASE ResumeLook \/ ResumeExec \/ (ResumeCheck /\ call.tool # "resume")
  <2>1. call'.v = call.v /\ call'.at \in {"resumeExec", "resumeCheck", "close"}
    BY <1>1, <1>5 DEF ResumeLook, ResumeExec, ResumeCheck, CallFields
  <2> QED BY <2>1, VerdictKept DEF Judged, Unjudged, GuardPoints
<1>6. CASE ResumeCheck /\ call.tool = "resume"
  BY <1>6, IdleVerdict, NoVerdictYet DEF ResumeCheck, Judged
<1>7. CASE Close
  <2>1. Go("remedyTrigger") \/ \E recovered : Over(recovered)
    BY <1>7 DEF Close
  <2> QED BY <1>2, <1>3, <2>1, OverVerdict
<1>8. CASE RemedyTrigger
  <2>1. \/ call' = [Idle EXCEPT !.tool = "recover", !.at = "recoverLook"]
        \/ Go("remedyChoose") \/ call' = Idle
    BY <1>8 DEF RemedyTrigger, Suspend, AuditFails
  <2> QED BY <1>2, <1>3, <1>4, <2>1, IdleVerdict, NoVerdictYet DEF Judged
<1>9. CASE RemedyStop \/ RemedyClose
  BY <1>9, IdleVerdict, NoVerdictYet DEF RemedyStop, RemedyClose, Stop, AuditFails, Judged
<1>10. CASE RemedyRecover
  BY <1>4, <1>10, NoVerdictYet DEF RemedyRecover, Suspend, Judged
<1>11. CASE RemedyReplay
  <2>1. \/ call' = PerformCall(NextId, ReplayedIntent, FALSE, "replay")
        \/ call' = Idle
    BY <1>11 DEF RemedyReplay, Suspend, Stop
  <2> QED BY <2>1, PerformVerdict, IdleVerdict, NoVerdictYet DEF Judged
<1>12. CASE RecoverLook \/ RecoverLaunch \/ RecoverAfter
  <2>1. Go("recoverLaunch") \/ Go("recoverAfter") \/ \E recovered : Over(recovered)
    BY <1>12 DEF RecoverLook, RecoverLaunch, RecoverAfter
  <2> QED BY <1>2, <1>3, <2>1, OverVerdict
<1> QED BY <1>5, <1>6, <1>7, <1>8, <1>9, <1>10, <1>11, <1>12

\* The definitions hold of the next call as they are read.
LEMMA VerdictPrimed == VerdictOf(call') => VerdictOf(call)'
BY DEF VerdictOf, Unjudged, GuardPoints, Shaped, VerdictFields, ReadOK, Settled, Stands, Calm,
       Changed, HasStateChanged, StepState, Category, FailureCategory, RetryableSteps,
       TerminalReadiness, WaitingReadiness

\* The invariant of the verdict is inductive beside that of the call.
LEMMA StepVerdict == ActInv /\ VerdictInv /\ [Next]_vars => VerdictInv'
<1> SUFFICES ASSUME ActInv, VerdictInv, [Next]_vars PROVE VerdictInv'
  OBVIOUS
<1>1. CallKept'
  BY StepActs DEF ActInv
<1>2. VerdictOf(call')
  <2>1. CASE Work
    BY <2>1, GuardVerdict, SenseVerdict, ExecuteVerdict, LookVerdict, RereadVerdict, RefreshVerdict,
       KeptVerdict, LaterVerdict DEF Work
  <2>2. CASE UNCHANGED call
    BY <2>2 DEF VerdictInv
  <2>3. CASE Fail
    BY <2>3, IdleVerdict, NoVerdictYet DEF Fail, Judged
  <2> QED BY <2>1, <2>2, <2>3, ClientVerdict DEF Next, Drift, vars
<1> QED BY <1>1, <1>2, VerdictPrimed DEF VerdictInv

\* An action is kept as a success only when nothing on the screen it was judged on
\* asks for a person, that screen is not terminal (the late refresh aside), and an
\* unchanged screen is in no state the code would have waited in.
THEOREM SuccessStands == Spec => []SuccessIsSettled
<1>1. Init => VerdictInv
  BY IdleVerdict, NoVerdictYet DEF Init, VerdictInv, CallKept, GuardPoints, Judged
<1>2. VerdictInv => SuccessIsSettled
  BY DEF VerdictInv, VerdictOf, SuccessIsSettled, Stands, Calm, At
<1> QED BY <1>1, <1>2, InitActs, StepActs, StepVerdict, PTL DEF Spec

-----------------------------------------------------------------------------
\* What is kept of the actions: records, reports, baseline, remediations and history.
Outcomes == Statuses \cup {"none"}
Closings == {{}, {"triggered"}, {"triggered", "stopped"}, {"triggered", "succeeded"}}
Entries == [intent: AllIntents \cup {NoIntent}, done: BOOLEAN, taps: Nat, cleared: BOOLEAN,
            unaudited: BOOLEAN]
BookType ==
    /\ DOMAIN records = Ids
    /\ \A a \in Ids : records[a].outcome \in Outcomes /\ records[a].updatedAt \in Nat
    /\ trail \in [Ids -> Entries]
    /\ reports \in [Ids -> Outcomes \cup {"blocked", "abandoned"}]
    /\ remedy \in [Ids -> Closings]
    /\ baseline \subseteq Ids /\ failures \in Nat
    /\ DOMAIN session = {"open", "audit", "profile", "checkpoint"}

\* An action that was not issued has left nothing.
Untouched(a) ==
    /\ ~trail[a].done /\ trail[a].taps = 0 /\ ~trail[a].cleared /\ ~trail[a].unaudited
    /\ records[a].outcome = "none" /\ reports[a] = "none" /\ remedy[a] = {} /\ a \notin baseline
BookOf(a) ==
    /\ ~Issued(a) => Untouched(a)
    /\ records[a].outcome # "none" => records[a].intent = trail[a].intent
    /\ reports[a] \in Statuses => records[a].outcome = reports[a]
    /\ reports[a] = "abandoned" => failures > 0
    /\ a \in baseline =>
          /\ trail[a].done /\ records[a].outcome # "partial"
          /\ reports[a] \in {"none", "success", "failed", "abandoned"}
    /\ remedy[a] # {} => reports[a] \in {"partial", "failed", "abandoned"}
    /\ trail[a].unaudited => remedy[a] = {"triggered"}
\* The later action has the later record.
InOrder ==
    \A a, b \in Ids :
        (a < b /\ records[a].outcome # "none" /\ records[b].outcome # "none") =>
            records[a].updatedAt < records[b].updatedAt
Pointed(p) == p.action \in Ids /\ trail[p.action].cleared /\ p.intent \in {trail[p.action].intent, Blank}
Books ==
    /\ BookType /\ InOrder /\ \A a \in Ids : BookOf(a)
    /\ session.checkpoint # NoCheckpoint => Pointed(session.checkpoint)

\* The points of a performed action before it is executed, until it is judged, and
\* after its record.
Resuming == {"resumeLook", "resumeExec", "resumeCheck"}
Trying == {"ocr", "ocrTap", "ocrVerify", "look", "reread", "refresh"}
Remedying == {"remedyTrigger", "remedyChoose", "remedyClose"}
Recovering == {"recoverLook", "recoverLaunch", "recoverAfter"}
Early(c)  == c.at \in {"sense", "execute"} \/ (c.at \in GuardPoints /\ c.guard = "pre")
Middle(c) == c.at \in Trying
Late(c)   == c.at = "close" \/ (c.at \in GuardPoints \cup Resuming /\ c.guard = "post")
Acting(c) == Early(c) \/ Middle(c) \/ c.at \in {"baseline", "record"} \/ Late(c)

\* Which call can be where.
Placed(c) ==
    /\ c.at \in GuardPoints \cup Resuming \cup Trying \cup Remedying \cup Recovering
                 \cup {"idle", "sense", "execute", "baseline", "record", "close"}
    /\ c.at \in GuardPoints => c.guard \in {"pre", "post", "tool"}
    /\ c.at \in Resuming => c.guard \in {"post", "tool"} /\ (c.tool = "resume" <=> c.guard = "tool")
    /\ c.at = "close" => c.guard = "post"
    /\ (Acting(c) \/ c.at \in Remedying) <=> c.tool = "perform"
    /\ c.at \in Recovering <=> c.tool = "recover"
    /\ c.v.status \in Statuses

\* The action in progress is the latest one, and its books are at the point it is at.
ActionBook(c) ==
    /\ c.action \in Ids /\ c.intent = trail[c.action].intent /\ c.intent # NoIntent
    /\ \A b \in Ids : Issued(b) => b <= c.action
    /\ reports[c.action] = "none" /\ remedy[c.action] = {}
    /\ Early(c) =>
          /\ ~trail[c.action].done /\ trail[c.action].taps = 0
          /\ c.caller = "replay" =>
                Stable # {} /\ c.intent = ReplayedIntent /\ ~IsHighRisk(StableIntent)
    /\ Middle(c) => trail[c.action].done
    /\ c.at = "ocr" => trail[c.action].taps = 0
    /\ c.at = "ocrTap" => trail[c.action].taps < 2
    /\ c.at = "baseline" => trail[c.action].done \/ c.v.handoff # "none"
    /\ ~Late(c) => records[c.action].outcome = "none"
    /\ (Early(c) \/ Middle(c) \/ c.at = "baseline") => c.action \notin baseline
    /\ c.action \in baseline => c.v.status = "success"
    /\ Late(c) => records[c.action].outcome = c.v.status

\* A remediation is open from its trigger to its close, across the recovery it starts,
\* unless its call missed the audit record.
Pending(a) == remedy[a] = {"triggered"} /\ reports[a] # "abandoned" /\ ~trail[a].unaudited
RemedyBook(c, o) ==
    /\ o.at \in {"idle", "suspended"}
    /\ c.at \in {"remedyTrigger", "remedyChoose"} =>
          /\ o.at = "idle" /\ c.action \in Ids /\ reports[c.action] \in {"partial", "failed"}
          /\ remedy[c.action] = IF c.at = "remedyTrigger" THEN {} ELSE {"triggered"}
          /\ ~trail[c.action].unaudited
    /\ o.at = "suspended" =>
          /\ o.action \in Ids /\ reports[o.action] \in {"partial", "failed"}
          /\ remedy[o.action] = {"triggered"} /\ ~trail[o.action].unaudited
          /\ c.tool \in {"perform", "recover"} /\ (Acting(c) => ~c.remediate)
    /\ c.at = "remedyClose" => o.at = "suspended" /\ c.action = o.action
    /\ \A a \in Ids : Pending(a) =>
          \/ c.at = "remedyChoose" /\ c.action = a
          \/ o.at = "suspended" /\ o.action = a

CallBook(c, o) ==
    /\ Placed(c) /\ RemedyBook(c, o)
    /\ Acting(c) => ActionBook(c)
    /\ c.at \in Resuming => Pointed(c)
    /\ (c.at \in GuardPoints /\ c.action # NoAction) => c.action \in Ids /\ Issued(c.action)
BookInv == Books /\ CallBook(call, outer)
-----------------------------------------------------------------------------
\* Every set of naturals has a least member.
LEMMA LeastNat ==
    ASSUME NEW T, T \subseteq Nat, T # {}
    PROVE  \E x \in T : \A y \in T : x <= y
<1> DEFINE R == OpToRel(<, Nat)
<1>1. IsWellFoundedOn(R, Nat)
  BY NatLessThanWellFounded
<1>2. \E x \in T : \A y \in T : ~ (<<y, x>> \in R)
  <2> HIDE DEF R
  <2> QED BY <1>1, WFMin
<1>3. \A x \in Nat, y \in Nat : <<y, x>> \in R <=> y < x
  BY DEF OpToRel
<1> HIDE DEF R
<1>4. PICK x \in T : \A y \in T : ~ (<<y, x>> \in R)
  BY <1>2
<1>5. \A y \in T : x <= y
  <2> TAKE y \in T
  <2>1. x \in Nat /\ y \in Nat /\ ~ (y < x)
    BY <1>3, <1>4
  <2> QED BY <2>1
<1> QED BY <1>5

\* One of finitely many actions has the highest number.
LEMMA Highest ==
    ASSUME NEW f, \A a \in Ids : f[a] \in Nat
    PROVE  \E m \in Ids : \A a \in Ids : f[a] <= f[m]
<1>1. MaxActions \in Nat /\ Ids = 0..MaxActions
  BY ActionAssumption DEF Ids
<1> DEFINE High(n) == \E m \in 0..n : \A a \in 0..n : f[a] <= f[m]
           T == {n \in Nat : n <= MaxActions /\ ~High(n)}
<1>2. High(0)
  BY <1>1
<1>3. ASSUME NEW n \in Nat, n + 1 <= MaxActions, High(n) PROVE High(n + 1)
  <2>1. PICK m \in 0..n : \A a \in 0..n : f[a] <= f[m]
    BY <1>3
  <2>2. f[n + 1] \in Nat /\ f[m] \in Nat /\ m \in 0..(n + 1) /\ n + 1 \in 0..(n + 1)
    BY <1>1, <1>3
  <2>3. \A a \in 0..(n + 1) : a \in 0..n \/ a = n + 1
    OBVIOUS
  <2>4. \A a \in 0..n : f[a] \in Nat
    BY <1>1, <1>3
  <2>5. CASE f[n + 1] <= f[m]
    BY <2>1, <2>2, <2>3, <2>5
  <2>6. CASE f[m] <= f[n + 1]
    BY <2>1, <2>2, <2>3, <2>4, <2>6
  <2> QED BY <2>2, <2>5, <2>6
<1>4. T = {}
  <2> SUFFICES ASSUME T # {} PROVE FALSE
    OBVIOUS
  <2>1. PICK n \in T : \A k \in T : n <= k
    <3> HIDE DEF High
    <3> QED BY LeastNat
  <2>2. n \in Nat /\ n <= MaxActions /\ ~High(n)
    BY <2>1
  <2> HIDE DEF High
  <2>3. n # 0 /\ n - 1 \in Nat /\ n - 1 <= MaxActions /\ (n - 1) + 1 = n
    BY <1>1, <1>2, <2>2
  <2>4. n - 1 \notin T
    BY <2>1, <2>3
  <2>5. High(n - 1)
    BY <2>3, <2>4
  <2> QED BY <1>3, <2>2, <2>3, <2>5
<1> HIDE DEF High
<1>5. High(MaxActions)
  BY <1>1, <1>4
<1> QED BY <1>1, <1>5 DEF High

\* A new action comes after every issued one.
LEMMA NextIdIsNew ==
    ASSUME BookType
    PROVE  NextId \in Nat /\ NextId # 0 /\ \A b \in Ids : Issued(b) => b < NextId
<1> DEFINE S == {a \in Ids : a = 0 \/ Issued(a)}
           f == [a \in Ids |-> IF a \in S THEN a ELSE 0]
<1>1. Ids \subseteq Nat /\ 0 \in S
  BY ActionAssumption DEF Ids
<1>2. PICK m \in Ids : \A a \in Ids : f[a] <= f[m]
  <2>1. \A a \in Ids : f[a] \in Nat
    BY <1>1
  <2> HIDE DEF f
  <2> QED BY <2>1, Highest
<1>3. \E x \in S : \A y \in S : x >= y
  <2>1. f[m] \in S /\ \A y \in S : f[m] >= y
    BY <1>1, <1>2
  <2> QED BY <2>1
<1>4. Max(S) \in S /\ \A y \in S : Max(S) >= y
  BY <1>3 DEF Max
<1>5. NextId = Max(S) + 1 /\ Max(S) \in Nat
  BY <1>1, <1>4 DEF NextId
<1>6. \A b \in Ids : Issued(b) => b \in Nat /\ b <= Max(S)
  BY <1>1, <1>4
<1> QED BY <1>5, <1>6

\* No record was written after the last write.
LEMMA LastWriteIsLast ==
    ASSUME BookType
    PROVE  LastWrite \in Nat /\ \A a \in Ids : records[a].updatedAt <= LastWrite
<1> DEFINE f == [a \in Ids |-> records[a].updatedAt]
           S == {records[a].updatedAt : a \in Ids}
<1>1. \A a \in Ids : records[a].updatedAt \in Nat
  BY DEF BookType, Entries
<1>2. PICK m \in Ids : \A a \in Ids : f[a] <= f[m]
  <2>1. \A a \in Ids : f[a] \in Nat
    BY <1>1
  <2> HIDE DEF f
  <2> QED BY <2>1, Highest
<1>3. \E x \in S : \A y \in S : x >= y
  <2>1. records[m].updatedAt \in S /\ \A y \in S : records[m].updatedAt >= y
    BY <1>1, <1>2
  <2> QED BY <2>1
<1>4. Max(S) \in S /\ \A y \in S : Max(S) >= y
  BY <1>3 DEF Max
<1> QED BY <1>1, <1>4 DEF LastWrite

\* The last stable action is the success written last.
LEMMA LastStableIsStable ==
    ASSUME BookType, Stable # {}
    PROVE  /\ LastStable \in Stable
           /\ \A b \in Stable : records[b].updatedAt <= records[LastStable].updatedAt
<1> DEFINE f == [a \in Ids |-> IF a \in Stable THEN records[a].updatedAt + 1 ELSE 0]
<1>1. \A a \in Ids : records[a].updatedAt \in Nat
  BY DEF BookType, Entries
<1>2. PICK m \in Ids : \A a \in Ids : f[a] <= f[m]
  <2>1. \A a \in Ids : f[a] \in Nat
    BY <1>1
  <2> HIDE DEF f
  <2> QED BY <2>1, Highest
<1>3. m \in Stable /\ \A b \in Stable : records[b].updatedAt <= records[m].updatedAt
  BY <1>1, <1>2 DEF Stable
<1> QED BY <1>3 DEF LastStable

\* What an action is written into stays a book.
LEMMA Written ==
    ASSUME Books, NEW a \in Ids, Issued(a), \A b \in Ids : Issued(b) => b <= a,
           NEW o \in Statuses, NEW page, WriteRecord(a, trail[a].intent, o, page)
    PROVE  /\ DOMAIN records' = Ids
           /\ \A b \in Ids : records'[b].outcome \in Outcomes /\ records'[b].updatedAt \in Nat
           /\ records'[a].outcome = o /\ records'[a].intent = trail[a].intent
           /\ \A b \in Ids \ {a} : records'[b] = records[b]
           /\ InOrder'
<1>1. BookType /\ InOrder /\ \A b \in Ids : BookOf(b)
  BY DEF Books
<1> DEFINE r == [intent |-> trail[a].intent, outcome |-> o, updatedAt |-> LastWrite + 1,
                 landed |-> page]
<1>2. records' = [records EXCEPT ![a] = r]
  BY DEF WriteRecord
<1>3. LastWrite \in Nat /\ \A b \in Ids : records[b].updatedAt <= LastWrite
  BY <1>1, LastWriteIsLast
<1>4. r.outcome \in Outcomes /\ r.updatedAt \in Nat
  BY <1>3 DEF Outcomes
<1>5. r.outcome = o /\ r.intent = trail[a].intent /\ r.updatedAt = LastWrite + 1
  OBVIOUS
<1> HIDE DEF r
<1>6. /\ DOMAIN records = Ids
      /\ \A b \in Ids : records[b].outcome \in Outcomes /\ records[b].updatedAt \in Nat
  BY <1>1 DEF BookType, Entries
<1>7. /\ DOMAIN records' = Ids
      /\ \A b \in Ids : records'[b].outcome \in Outcomes /\ records'[b].updatedAt \in Nat
      /\ records'[a] = r /\ \A b \in Ids \ {a} : records'[b] = records[b]
  BY <1>2, <1>4, <1>6
<1>8. InOrder'
  <2> SUFFICES ASSUME NEW b \in Ids, NEW c \in Ids, b < c, records'[b].outcome # "none",
                      records'[c].outcome # "none"
               PROVE  records'[b].updatedAt < records'[c].updatedAt
    BY DEF InOrder, Ids
  <2>1. Ids \subseteq Nat
    BY ActionAssumption DEF Ids
  <2>2. b # a
    <3> SUFFICES ASSUME b = a PROVE FALSE
      OBVIOUS
    <3>1. c # a /\ ~(c <= a)
      BY <2>1
    <3>2. records[c].outcome # "none" /\ Issued(c)
      BY <1>1, <1>7, <3>1 DEF BookOf, Untouched
    <3> QED BY <3>1, <3>2
  <2>3. CASE c = a
    <3>1. records'[b].updatedAt <= LastWrite /\ records'[b].updatedAt \in Nat
      BY <1>3, <1>6, <1>7, <2>2
    <3> QED BY <1>3, <1>5, <1>7, <2>3, <3>1
  <2>4. CASE c # a
    BY <1>1, <1>7, <2>2, <2>4 DEF InOrder
  <2> QED BY <2>3, <2>4
<1> QED BY <1>5, <1>7, <1>8

-----------------------------------------------------------------------------
\* An intent that was filled in has a kind, and is not filled in twice.
LEMMA AllIntentsShape == ASSUME NEW i \in AllIntents PROVE i.kind # "none"
<1>1. CASE i \in Intents
  BY <1>1, ActionAssumption
<1>2. ASSUME NEW j \in Intents, NEW page \in Pages, i = FilledIn(j, page) PROVE i.kind # "none"
  <2>1. j.kind # "none" /\ DOMAIN j = {"kind", "risky", "text", "target"}
    BY ActionAssumption
  <2> QED BY <1>2, <2>1 DEF FilledIn
<1> QED BY <1>1, <1>2 DEF AllIntents

LEMMA FilledInAgain == ASSUME NEW i \in AllIntents, NEW page PROVE FilledIn(i, page) \in AllIntents
<1>1. CASE ~(i.target = "none" /\ page \in Pages)
  <2>1. FilledIn(i, page) = i
    BY <1>1 DEF FilledIn
  <2> QED BY <2>1
<1>2. CASE i.target = "none" /\ page \in Pages
  <2>1. CASE i \in Intents
    BY <1>2, <2>1 DEF AllIntents
  <2>2. ASSUME NEW j \in Intents, NEW q \in Pages, i = FilledIn(j, q)
        PROVE  FilledIn(i, page) \in AllIntents
    <3>1. j \in [kind: {"tap", "type", "wait", "launch"}, risky: BOOLEAN, text: BOOLEAN,
                 target: {"own", "none"}]
      BY ActionAssumption
    <3>2. j.target = "none"
      BY <1>2, <2>2, <3>1 DEF FilledIn
    <3>3. i = [j EXCEPT !.target = q] /\ FilledIn(j, page) = [j EXCEPT !.target = page]
      BY <1>2, <2>2, <3>2 DEF FilledIn
    <3>4. FilledIn(i, page) = [i EXCEPT !.target = page]
      BY <1>2 DEF FilledIn
    <3>5. FilledIn(i, page) = FilledIn(j, page)
      BY <3>1, <3>3, <3>4
    <3> QED BY <1>2, <3>5 DEF AllIntents
  <2> QED BY <2>1, <2>2 DEF AllIntents
<1> QED BY <1>1, <1>2

\* A step that leaves the books alone.
books == <<records, baseline, session, remedy, reports, trail, failures>>
LEMMA BooksStay ==
    ASSUME BookInv, UNCHANGED books, CallBook(call', outer')
    PROVE  BookInv'
<1>1. Books'
  BY DEF BookInv, books, Books, BookType, Entries, InOrder, BookOf, Untouched, Issued, Pointed
<1>2. CallBook(call, outer)'
  BY DEF books, CallBook, Placed, RemedyBook, Pending, ActionBook, Pointed, Acting, Early, Middle, Late,
         Stable, StableIntent, ReplayedIntent, FilledIn, IsHighRisk, LastStable, Issued, GuardPoints
<1> QED BY <1>1, <1>2 DEF BookInv

\* A step of the call between two points of one stage.
Same(c, d) ==
    /\ d.tool = c.tool /\ d.action = c.action /\ d.intent = c.intent /\ d.caller = c.caller
    /\ d.remediate = c.remediate /\ d.guard = c.guard
LEMMA StageStays ==
    ASSUME CallBook(call, outer), NEW d, Same(call, d), d.v.status \in Statuses,
           \/ /\ call.at \in GuardPoints /\ d.at \in GuardPoints /\ d.v = call.v
           \/ Early(call) /\ d.at \in {"sense", "execute"}
           \/ Middle(call) /\ d.at \in {"look", "reread", "refresh", "baseline", "ocrVerify"}
    PROVE  CallBook(d, outer)
BY DEF CallBook, Placed, RemedyBook, Pending, ActionBook, Pointed, Acting, Early, Middle, Late, Same,
       GuardPoints, Resuming, Trying, Remedying, Recovering
\* What the step of a call relies on.
OuterInv == outer.at # "idle" \/ outer = Idle
Kept == ActInv /\ VerdictInv /\ OuterInv /\ BookInv
LEMMA KeptShape ==
    ASSUME Kept
    PROVE  /\ DOMAIN call = CallFields /\ DOMAIN call.v = VerdictFields
           /\ CallBook(call, outer) /\ Placed(call) /\ RemedyBook(call, outer)
           /\ Acting(call) => ActionBook(call)
BY DEF Kept, ActInv, CallKept, VerdictInv, VerdictOf, Shaped, BookInv, CallBook

\* The remediation around a call goes on when the call does not.
Open(o, a) == o.at = "suspended" /\ o.action = a
LEMMA OverBook ==
    ASSUME NEW r, Over(r), UNCHANGED outer, outer.at \in {"idle", "suspended"},
           outer.at = "suspended" =>
              /\ outer.action \in Ids /\ reports'[outer.action] \in {"partial", "failed"}
              /\ remedy'[outer.action] = {"triggered"} /\ ~trail'[outer.action].unaudited,
           \A a \in Ids : Pending(a)' => Open(outer, a)
    PROVE  CallBook(call, outer)'
<1>1. CASE outer.at = "idle"
  <2>1. call'.at = "idle" /\ call'.tool = "none" /\ call'.v.status \in Statuses
    BY <1>1 DEF Over, Idle, NoVerdict, Statuses
  <2> QED
    BY <1>1, <2>1 DEF CallBook, Placed, RemedyBook, Pending, Acting, Early, Middle, Late, Open, Ids,
       GuardPoints, Resuming, Trying, Remedying, Recovering, Statuses
<1>2. CASE outer.at = "suspended"
  <2>1. /\ call'.at = "remedyClose" /\ call'.tool = "perform" /\ call'.v.status \in Statuses
        /\ call'.action = outer.action
    BY <1>2 DEF Over, Idle, NoVerdict, Statuses
  <2> QED
    BY <1>2, <2>1 DEF CallBook, Placed, RemedyBook, Pending, Acting, Early, Middle, Late, Open, Ids,
       GuardPoints, Resuming, Trying, Remedying, Recovering, Statuses
<1> QED BY <1>1, <1>2

\* What a pending remediation is read from.
LEMMA PendingStays ==
    ASSUME NEW a, UNCHANGED <<remedy[a], reports[a], trail[a].unaudited>>
    PROVE  Pending(a)' <=> Pending(a)
BY DEF Pending

\* What a replay would take is read from the records alone.
LEMMA StableStays ==
    ASSUME UNCHANGED records PROVE UNCHANGED <<Stable, StableIntent, ReplayedIntent>>
<1>1. UNCHANGED Stable
  BY DEF Stable
<1>2. UNCHANGED LastStable
  BY <1>1 DEF LastStable
<1>3. UNCHANGED StableIntent
  BY <1>2 DEF StableIntent
<1>4. UNCHANGED ReplayedIntent
  BY <1>2, <1>3 DEF ReplayedIntent
<1> QED BY <1>1, <1>3, <1>4

\* No call is in progress, and no remediation open.
LEMMA IdleBook ==
    ASSUME call' = Idle, outer'.at = "idle",
           \A a \in Ids : ~Pending(a)'
    PROVE  CallBook(call, outer)'
<1>1. call'.at = "idle" /\ call'.tool = "none" /\ call'.v.status \in Statuses
  BY DEF Idle, NoVerdict, Statuses
<1> QED
  BY <1>1 DEF CallBook, Placed, RemedyBook, Pending, Acting, Early, Middle, Late, Ids,
     GuardPoints, Resuming, Trying, Remedying, Recovering, Statuses

\* A tool of the client that issues no action.
LEMMA ToolBook ==
    ASSUME Kept, \/ \E a \in 1..NoAction : ResolveInterruption(a)
                 \/ ResumeInterruptedAction \/ RecoverToKnownState
    PROVE  BookInv'
<1>1. UNCHANGED books /\ UNCHANGED outer /\ call.at = "idle"
  BY DEF ResolveInterruption, ResumeInterruptedAction, RecoverToKnownState, StartCall, books, Active
<1>2. RemedyBook(call, outer) /\ outer.at = "idle"
  BY <1>1, KeptShape DEF RemedyBook, Pending, Placed, Acting, Early, Middle, Late, Remedying, Recovering,
     GuardPoints, Resuming, Trying
<1>3. outer'.at = "idle" /\ \A a \in Ids : ~Pending(a)
  BY <1>1, <1>2 DEF RemedyBook, Pending
<1>4. ASSUME NEW a \in 1..NoAction, ResolveInterruption(a) PROVE CallBook(call', outer')
  <2>1. /\ call'.at = "guard" /\ call'.guard = "tool" /\ call'.tool = "resolve"
        /\ call'.action = a /\ call'.v.status \in Statuses
    BY <1>4 DEF ResolveInterruption, StartCall, Idle, NoVerdict, Statuses
  <2>2. a # NoAction => a \in Ids /\ Issued(a)
    <3>1. a # NoAction => a \in 1..MaxActions /\ Issued(a)
      BY <1>4 DEF ResolveInterruption
    <3> QED BY <3>1, ActionAssumption DEF Ids
  <2>3. ~Acting(call') /\ call'.at \notin Resuming
    BY <2>1 DEF Acting, Early, Middle, Late, GuardPoints, Resuming, Trying
  <2>4. Placed(call')
    BY <2>1, <2>3 DEF Placed, GuardPoints, Resuming, Remedying, Recovering
  <2>5. RemedyBook(call', outer')
    BY <1>1, <1>3, <2>1 DEF RemedyBook, Pending
  <2> QED BY <2>1, <2>2, <2>3, <2>4, <2>5 DEF CallBook
<1>5. CASE ResumeInterruptedAction
  <2>1. /\ call'.at = "resumeLook" /\ call'.guard = "tool" /\ call'.tool = "resume"
        /\ call'.action = session.checkpoint.action /\ call'.intent = session.checkpoint.intent
        /\ call'.v.status \in Statuses
    BY <1>5 DEF ResumeInterruptedAction, StartCall, Idle, NoVerdict, Statuses
  <2>2. Pointed(session.checkpoint)
    BY <1>5 DEF ResumeInterruptedAction, Kept, BookInv, Books
  <2>3. ~Acting(call') /\ call'.at \notin GuardPoints
    BY <2>1 DEF Acting, Early, Middle, Late, GuardPoints, Resuming, Trying
  <2>4. Placed(call')
    BY <2>1, <2>3 DEF Placed, GuardPoints, Resuming, Remedying, Recovering
  <2>5. RemedyBook(call', outer')
    BY <1>1, <1>3, <2>1 DEF RemedyBook, Pending
  <2>6. CallBook(call', outer')
    BY <2>1, <2>2, <2>3, <2>4, <2>5 DEF CallBook, Pointed
  <2> QED BY <1>1, <2>6, BooksStay DEF Kept
<1>6. CASE RecoverToKnownState
  <2>1. call'.at = "recoverLook" /\ call'.tool = "recover" /\ call'.v.status \in Statuses
    BY <1>6 DEF RecoverToKnownState, StartCall, Idle, NoVerdict, Statuses
  <2>2. ~Acting(call') /\ call'.at \notin GuardPoints \cup Resuming
    BY <2>1 DEF Acting, Early, Middle, Late, GuardPoints, Resuming, Trying
  <2>3. Placed(call')
    BY <2>1, <2>2 DEF Placed, GuardPoints, Resuming, Remedying, Recovering
  <2>4. RemedyBook(call', outer')
    BY <1>1, <1>3, <2>1 DEF RemedyBook, Pending
  <2>5. CallBook(call', outer')
    BY <2>2, <2>3, <2>4 DEF CallBook
  <2> QED BY <1>1, <2>5, BooksStay DEF Kept
<1> QED BY <1>1, <1>4, <1>5, <1>6, BooksStay DEF Kept

\* A new action: its book is that of one that is about to be tried.
LEMMA IssueBook ==
    ASSUME Kept, ~Acting(call), NEW i, i \in AllIntents, IssueAction(NextId, i), CanIssue,
           NEW r, NEW c, call' = PerformCall(NextId, i, r, c),
           c = "replay" => Stable # {} /\ i = ReplayedIntent /\ ~IsHighRisk(StableIntent),
           UNCHANGED <<records, baseline, session, remedy, reports, failures>>,
           outer'.at \in {"idle", "suspended"},
           outer'.at = "suspended" =>
              /\ outer'.action \in Ids /\ reports[outer'.action] \in {"partial", "failed"}
              /\ remedy[outer'.action] = {"triggered"} /\ ~trail[outer'.action].unaudited /\ ~r,
           \A a \in Ids : Pending(a) => Open(outer', a)
    PROVE  BookInv'
<1> DEFINE n == NextId
<1>1. n \in Ids /\ n \in Nat /\ n # 0 /\ \A b \in Ids : Issued(b) => b < n
  BY NextIdIsNew DEF CanIssue, Kept, BookInv, Books
<1>2. trail' = [trail EXCEPT ![n].intent = i]
  BY DEF IssueAction
<1> HIDE DEF n
<1>3. Books
  BY DEF Kept, BookInv
<1>4. /\ trail' \in [Ids -> Entries]
      /\ trail'[n] = [trail[n] EXCEPT !.intent = i] /\ trail'[n].intent = i
      /\ \A b \in Ids \ {n} : trail'[b] = trail[b]
      /\ trail'[n].done = trail[n].done /\ trail'[n].taps = trail[n].taps
      /\ trail'[n].cleared = trail[n].cleared /\ trail'[n].unaudited = trail[n].unaudited
  BY <1>1, <1>2, <1>3 DEF Books, BookType, Entries
<1>5. ~Issued(n) /\ Untouched(n)
  BY <1>1, <1>3 DEF Books, BookOf
<1>6. i # NoIntent
  BY AllIntentsShape DEF NoIntent
<1>7. BookType' /\ InOrder'
  BY <1>3, <1>4 DEF Books, BookType, Entries, InOrder, Ids
<1>8. ASSUME NEW a \in Ids PROVE BookOf(a)'
  <2>1. CASE a = n
    BY <1>4, <1>5, <1>6, <2>1 DEF BookOf, Untouched, Issued, Statuses
  <2>2. CASE a # n
    BY <1>3, <1>4, <2>2 DEF Books, BookOf, Untouched, Issued
  <2> QED BY <2>1, <2>2
<1>9. (session.checkpoint # NoCheckpoint => Pointed(session.checkpoint))'
  BY <1>3, <1>4, <1>5 DEF Books, Pointed, BookOf, Untouched, NoCheckpoint, NoAction, Blank
<1>10. /\ call'.at = "guard" /\ call'.guard = "pre" /\ call'.tool = "perform" /\ call'.action = n
       /\ call'.intent = i /\ call'.caller = c /\ call'.remediate = r /\ call'.v.status \in Statuses
  BY DEF PerformCall, Idle, NoVerdict, Statuses, n
<1>11. ActionBook(call)'
  <2>1. \A b \in Ids : Issued(b)' => b <= n
    BY <1>1, <1>4, <1>5, ActionAssumption DEF Issued, Ids
  <2>2. call'.caller = "replay" =>
           Stable' # {} /\ call'.intent = ReplayedIntent' /\ ~IsHighRisk(StableIntent')
    <3>1. UNCHANGED <<Stable, StableIntent, ReplayedIntent>>
      BY StableStays
    <3> QED BY <1>10, <3>1
  <2>3. /\ trail'[n].intent = i /\ ~trail'[n].done /\ trail'[n].taps = 0
        /\ reports'[n] = "none" /\ remedy'[n] = {} /\ n \notin baseline' /\ records'[n].outcome = "none"
    BY <1>4, <1>5 DEF Untouched
  <2>4. Early(call') /\ ~Middle(call') /\ ~Late(call')
    BY <1>10 DEF Early, Middle, Late, GuardPoints, Resuming, Trying
  <2> QED
    BY <1>1, <1>6, <1>10, <2>1, <2>2, <2>3, <2>4 DEF ActionBook, Ids
<1>12. CallBook(call, outer)'
  <2>1. \A a \in Ids : trail'[a].unaudited = trail[a].unaudited
    BY <1>4
  <2>2. \A a \in Ids : Pending(a)' <=> Pending(a)
    BY <2>1, PendingStays
  <2>3. outer'.at = "suspended" => ~trail'[outer'.action].unaudited
    BY <2>1
  <2>4. RemedyBook(call, outer)'
    BY <1>10, <2>2, <2>3 DEF RemedyBook, Open, Acting, Early, Middle, Late, Ids,
       GuardPoints, Resuming, Trying
  <2>5. Placed(call)'
    BY <1>10 DEF Placed, Acting, Early, Middle, Late, GuardPoints, Resuming, Trying, Remedying,
       Recovering, Statuses
  <2>6. Issued(call.action)' /\ call'.action \in Ids
    BY <1>1, <1>4, <1>6, <1>10 DEF Issued
  <2> QED BY <1>10, <1>11, <2>4, <2>5, <2>6 DEF CallBook, Resuming, Ids
<1> QED BY <1>7, <1>8, <1>9, <1>12 DEF BookInv, Books, Ids

\* A replay takes the intent of a recorded action, which was issued, filled in.
LEMMA StableWasIssued ==
    ASSUME Books, Stable # {} PROVE StableIntent \in AllIntents /\ ReplayedIntent \in AllIntents
<1>1. LastStable \in Ids /\ records[LastStable].outcome = "success"
  BY LastStableIsStable DEF Books, Stable
<1>2. BookOf(LastStable) /\ trail[LastStable].intent \in AllIntents \cup {NoIntent}
  BY <1>1 DEF Books, BookType, Entries
<1>3. StableIntent \in AllIntents
  BY <1>1, <1>2 DEF BookOf, Untouched, Issued, StableIntent
<1> QED BY <1>3, FilledInAgain DEF ReplayedIntent

\* What the client starts.
LEMMA ClientBook == ASSUME Kept, Client PROVE BookInv'
<1>1. CASE \/ \E a \in 1..NoAction : ResolveInterruption(a)
           \/ ResumeInterruptedAction \/ RecoverToKnownState
  BY <1>1, ToolBook
<1>2. ASSUME NEW i \in AllIntents, NEW r, NEW c, IssueAction(NextId, i), CanIssue,
             StartCall(PerformCall(NextId, i, r, c)),
             c = "replay" => Stable # {} /\ i = ReplayedIntent /\ ~IsHighRisk(StableIntent)
      PROVE  BookInv'
  <2>1. /\ call' = PerformCall(NextId, i, r, c) /\ call.at = "idle"
        /\ UNCHANGED <<outer, records, baseline, session, remedy, reports, failures>>
    BY <1>2 DEF StartCall, Active
  <2>2. RemedyBook(call, outer) /\ outer.at = "idle" /\ ~Acting(call)
    BY <2>1, KeptShape DEF RemedyBook, Pending, Placed, Acting, Early, Middle, Late, Remedying, Recovering,
       GuardPoints, Resuming, Trying
  <2>3. \A a \in Ids : ~Pending(a)
    BY <2>1, <2>2 DEF RemedyBook, Pending
  <2> QED BY <1>2, <2>1, <2>2, <2>3, IssueBook
<1>3. ASSUME NEW i \in Intents, NEW remediate \in BOOLEAN, Perform(i, remediate) PROVE BookInv'
  BY <1>2, <1>3 DEF Perform, AllIntents
<1>4. CASE ReplayLastStablePath
  BY <1>2, <1>4, StableWasIssued DEF ReplayLastStablePath, Replayable, Kept, BookInv
<1> QED BY <1>1, <1>3, <1>4 DEF Client

-----------------------------------------------------------------------------
\* The stores are left alone.
LEMMA StoresStay == ASSUME KeepStores, UNCHANGED outer PROVE UNCHANGED books /\ outer' = outer
BY DEF KeepStores, books, stores, budgets

\* A guard that passes goes on with the call, or ends a tool.
LEMMA GuardLookBook == ASSUME Kept, GuardLook \/ GuardTap \/ GuardVerify PROVE BookInv'
<1>1. /\ UNCHANGED books /\ outer' = outer /\ call.at \in GuardPoints
      /\ call.at # "guardClose"
  BY StoresStay DEF GuardLook, GuardTap, GuardVerify, At, GuardPoints
<1>2. /\ DOMAIN call = CallFields /\ CallBook(call, outer) /\ call.v.status \in Statuses
      /\ call.guard \in {"pre", "post", "tool"}
  BY <1>1, KeptShape DEF Placed
<1>3. ASSUME Same(call, call'), call'.v = call.v, call'.at \in GuardPoints PROVE BookInv'
  BY <1>1, <1>2, <1>3, StageStays, BooksStay DEF Kept
<1>8. PICK seen :
        \/ /\ call'.at \in GuardPoints /\ DOMAIN call' = CallFields
           /\ \A field \in CallFields \ {"at", "result", "attempts", "clearAt"} :
                 call'[field] = call[field]
        \/ GuardLook /\ call' = Cleared(AfterGuard("not_needed"), seen)
  <2>1. CASE GuardTap
    BY <1>2, <2>1 DEF GuardTap, Go, AttemptLost, CallFields, GuardPoints
  <2>2. CASE GuardLook
    BY <1>2, <2>2 DEF GuardLook, CallFields, GuardPoints
  <2>3. CASE GuardVerify
    <3> DEFINE c == [call EXCEPT !.at = "guardClose", !.result = "resolved", !.attempts = 0]
    <3>1. PICK seen : call' = AttemptLost \/ call' = Cleared(c, seen)
      BY <2>3 DEF GuardVerify
    <3>2. CASE call' = AttemptLost
      BY <1>2, <3>2 DEF AttemptLost, CallFields, GuardPoints
    <3>3. CASE call' = Cleared(c, seen)
      BY <1>2, <3>3 DEF Cleared, CallFields, GuardPoints
    <3> QED BY <3>1, <3>2, <3>3
  <2> QED BY <2>1, <2>2, <2>3
<1>4. CASE call'.at \in GuardPoints /\ ~(GuardLook /\ call' = Cleared(AfterGuard("not_needed"), seen))
  <2>1. Same(call, call') /\ call'.v = call.v
    BY <1>4, <1>8 DEF Same, CallFields
  <2> QED BY <1>3, <1>4, <2>1
<1>7. CASE GuardLook /\ call' = Cleared(AfterGuard("not_needed"), seen)
  <2>1. call' = Cleared(AfterGuard("not_needed"), seen)
    BY <1>7
  <2>2. CASE call.guard = "pre"
    <3>1. Same(call, call') /\ call'.v = call.v /\ call'.at = "sense"
      BY <1>2, <2>1, <2>2 DEF Cleared, AfterGuard, Same, CallFields
    <3>2. Early(call)
      BY <1>1, <2>2 DEF Early
    <3> QED BY <1>1, <1>2, <3>1, <3>2, StageStays, BooksStay DEF Kept
  <2>3. CASE call.guard = "post"
    <3>1. Same(call, call') /\ call'.v = call.v /\ call'.at = "close"
      BY <1>2, <2>1, <2>3 DEF Cleared, AfterGuard, Same, CallFields
    <3>2. CallBook(call', outer)
      BY <1>1, <1>2, <2>3, <3>1
         DEF CallBook, Placed, RemedyBook, Pending, ActionBook, Pointed, Acting, Early, Middle, Late, Same,
             GuardPoints, Resuming, Trying, Remedying, Recovering
    <3> QED BY <1>1, <3>2, BooksStay DEF Kept
  <2>4. CASE call.guard = "tool"
    <3>1. call' = Idle
      BY <2>1, <2>4 DEF Cleared, AfterGuard, Idle
    <3>2. outer.at = "idle" /\ \A a \in Ids : ~Pending(a)
      BY <1>1, <1>2, <2>4 DEF CallBook, Placed, RemedyBook, Pending, Acting, Early, Middle, Late,
         GuardPoints, Resuming, Trying, Remedying, Recovering
    <3>3. CallBook(call', outer')
      BY <1>1, <3>1, <3>2 DEF CallBook, Placed, RemedyBook, Pending, Acting, Early, Middle, Late, Idle, NoVerdict,
         GuardPoints, Resuming, Trying, Remedying, Recovering, Statuses
    <3> QED BY <1>1, <3>3, BooksStay DEF Kept
  <2> QED BY <1>2, <2>2, <2>3, <2>4
<1> QED BY <1>4, <1>7, <1>8

\* A guard that resolved clears its action and leaves a checkpoint; one that did not
\* blocks the action before it is tried.
LEMMA GuardCloseBook == ASSUME Kept, GuardClose PROVE BookInv'
<1>1. /\ call.at = "guardClose" /\ UNCHANGED <<outer, records, baseline, remedy>>
      /\ failures' = failures
  BY DEF GuardClose, At, budgets
<1>2. /\ DOMAIN call = CallFields /\ CallBook(call, outer) /\ call.v.status \in Statuses
      /\ call.guard \in {"pre", "post", "tool"} /\ Placed(call) /\ RemedyBook(call, outer)
      /\ Acting(call) => ActionBook(call)
  BY <1>1, KeptShape DEF Placed, GuardPoints
<1>3. Books /\ BookType /\ InOrder /\ \A a \in Ids : BookOf(a)
  BY DEF Kept, BookInv, Books
<1>4. call.action # NoAction => call.action \in Ids /\ Issued(call.action)
  BY <1>1, <1>2 DEF CallBook, GuardPoints
<1>5. \A a \in Ids : Pending(a) => Open(outer, a)
  BY <1>1, <1>2 DEF RemedyBook, Pending, Open
<1>6. CASE call.result = "resolved"
  <2>1. /\ call' = AfterGuard("resolved") /\ reports' = reports
        /\ trail' = IF call.action # NoAction
                    THEN [trail EXCEPT ![call.action].cleared = TRUE] ELSE trail
        /\ \/ session' = session
           \/ /\ call.action # NoAction
              /\ session' = [session EXCEPT !.checkpoint =
                               [action |-> call.action,
                                intent |-> IF call.guard = "tool" THEN Blank ELSE call.intent]]
    BY <1>6 DEF GuardClose
  <2>2. /\ trail' \in [Ids -> Entries]
        /\ \A a \in Ids : /\ trail'[a].intent = trail[a].intent /\ trail'[a].done = trail[a].done
                          /\ trail'[a].taps = trail[a].taps
                          /\ trail'[a].unaudited = trail[a].unaudited
                          /\ trail[a].cleared => trail'[a].cleared
                          /\ ~Issued(a) => trail'[a] = trail[a]
        /\ call.action # NoAction => trail'[call.action].cleared
    <3> DEFINE t == [trail[call.action] EXCEPT !.cleared = TRUE]
    <3>1. CASE call.action = NoAction
      BY <1>3, <2>1, <3>1 DEF BookType, Entries
    <3>2. CASE call.action # NoAction
      <4>1. trail[call.action] \in Entries
        BY <1>3, <1>4, <3>2 DEF BookType, Entries
      <4>2. /\ t \in Entries
            /\ t.intent = trail[call.action].intent /\ t.done = trail[call.action].done
            /\ t.taps = trail[call.action].taps /\ t.cleared
            /\ t.unaudited = trail[call.action].unaudited
            /\ trail' = [trail EXCEPT ![call.action] = t]
        BY <2>1, <3>2, <4>1 DEF Entries
      <4> HIDE DEF t
      <4>3. trail'[call.action] = t /\ \A a \in Ids \ {call.action} : trail'[a] = trail[a]
        BY <1>3, <1>4, <3>2, <4>2 DEF BookType, Entries
      <4> QED BY <1>3, <1>4, <3>2, <4>2, <4>3 DEF BookType, Entries
    <3> QED BY <3>1, <3>2
  <2>3. BookType'
    <3>1. DOMAIN session' = DOMAIN session
      BY <2>1
    <3> QED BY <1>1, <1>3, <2>1, <2>2, <3>1 DEF BookType, Entries, Ids
  <2>4. InOrder' /\ \A a \in Ids : BookOf(a)'
    <3>1. InOrder'
      BY <1>1, <1>3 DEF InOrder, Ids
    <3>2. ASSUME NEW a \in Ids PROVE BookOf(a)'
      <4>1. BookOf(a) /\ UNCHANGED <<records[a], reports[a], remedy[a], baseline, failures>>
        BY <1>1, <1>3, <2>1
      <4>2. /\ trail'[a].intent = trail[a].intent /\ trail'[a].done = trail[a].done
            /\ trail'[a].unaudited = trail[a].unaudited
            /\ ~Issued(a) => trail'[a] = trail[a]
        BY <2>2
      <4> QED BY <4>1, <4>2 DEF BookOf, Untouched, Issued
    <3> QED BY <3>1, <3>2
  <2>5. (session.checkpoint # NoCheckpoint => Pointed(session.checkpoint))'
    <3>1. CASE session' = session
      BY <1>3, <2>2, <3>1 DEF Books, Pointed, NoCheckpoint, NoAction, Blank, Ids
    <3>2. CASE /\ call.action # NoAction
               /\ session' = [session EXCEPT !.checkpoint =
                               [action |-> call.action,
                                intent |-> IF call.guard = "tool" THEN Blank ELSE call.intent]]
      <4>1. /\ session'.checkpoint.action = call.action
            /\ session'.checkpoint.intent = IF call.guard = "tool" THEN Blank ELSE call.intent
        BY <1>3, <3>2 DEF BookType, Entries
      <4>2. call.guard # "tool" => call.intent = trail[call.action].intent
        BY <1>1, <1>2 DEF Acting, Early, Late, GuardPoints, ActionBook
      <4> QED BY <1>4, <2>2, <3>2, <4>1, <4>2 DEF Pointed, Blank, Ids
    <3> QED BY <2>1, <3>1, <3>2
  <2>7. \A a \in Ids : Pending(a)' <=> Pending(a)
    BY <1>1, <2>1, <2>2, PendingStays
  <2>6. CallBook(call, outer)'
    <3>1. CASE call.guard = "tool"
      <4>1. call' = Idle /\ outer.at = "idle"
        BY <1>1, <1>2, <2>1, <3>1 DEF AfterGuard, Placed, RemedyBook, Pending, Acting, Early, Middle, Late,
           GuardPoints, Resuming, Trying, Remedying, Recovering
      <4> QED BY <1>1, <1>5, <2>7, <4>1, IdleBook DEF Open
    <3>2. CASE call.guard \in {"pre", "post"}
      <4>1. /\ Same(call, call') /\ call'.v = call.v
            /\ call'.at = IF call.guard = "pre" THEN "sense" ELSE "resumeLook"
        BY <1>2, <2>1, <3>2 DEF AfterGuard, Same, CallFields
      <4>2. ActionBook(call) /\ Placed(call)
        BY <1>1, <1>2, <3>2 DEF Acting, Early, Late, GuardPoints
      <4>3. ActionBook(call)'
        <5>1. UNCHANGED <<Stable, StableIntent, ReplayedIntent>>
          BY <1>1, StableStays
        <5>2. Early(call') => Early(call)
          BY <1>1, <3>2, <4>1 DEF Early, Same, GuardPoints
        <5>3. /\ ~Middle(call') /\ (Late(call') => Late(call)) /\ (Late(call) => Late(call'))
              /\ (Early(call) => Early(call'))
          BY <1>1, <3>2, <4>1 DEF Early, Middle, Late, Same, GuardPoints, Resuming, Trying
        <5> QED
          BY <1>1, <2>1, <2>2, <3>2, <4>1, <4>2, <5>1, <5>2, <5>3
             DEF ActionBook, Same, Issued, Ids, Statuses
      <4>4. Placed(call)'
        BY <1>1, <3>2, <4>1, <4>2 DEF Placed, Same, Acting, Early, Middle, Late, GuardPoints, Resuming,
           Trying, Remedying, Recovering, Statuses
      <4>5. RemedyBook(call, outer)'
        BY <1>1, <1>2, <1>5, <2>1, <2>2, <2>7, <3>2, <4>1
           DEF RemedyBook, Open, Same, Acting, Early, Middle, Late, Ids, GuardPoints, Resuming, Trying
      <4>6. call.action # NoAction
        BY <4>2, ActionAssumption DEF ActionBook, Ids, NoAction
      <4>7. call.action \in Ids /\ call.intent = trail[call.action].intent /\ Issued(call.action)
        BY <1>4, <4>2, <4>6 DEF ActionBook
      <4>8. call'.action = call.action /\ call'.intent = call.intent
        BY <4>1 DEF Same
      <4>9. /\ trail'[call.action].cleared /\ trail'[call.action].intent = trail[call.action].intent
            /\ trail'[call.action].intent # NoIntent
        BY <2>2, <4>6, <4>7 DEF Issued
      <4>10. Pointed(call)' /\ Issued(call.action)'
        BY <4>7, <4>8, <4>9 DEF Pointed, Issued, Ids
      <4>11. call'.action \in Ids
        BY <4>7, <4>8
      <4> QED BY <4>3, <4>4, <4>5, <4>10, <4>11 DEF CallBook, Ids
    <3> QED BY <1>2, <3>1, <3>2
  <2> QED BY <2>3, <2>4, <2>5, <2>6 DEF BookInv, Books, Ids
<1>7. CASE call.result # "resolved"
  <2>1. trail' = trail /\ session' = session
    BY <1>7 DEF GuardClose
  <2>2. CASE call.guard = "pre"
    <3>1. reports' = [reports EXCEPT ![call.action] = "blocked"] /\ Over(FALSE)
      BY <1>7, <2>2 DEF GuardClose
    <3>2. Early(call) /\ ActionBook(call)
      BY <1>1, <1>2, <2>2 DEF Acting, Early, GuardPoints
    <3>3. /\ reports' \in [Ids -> Outcomes \cup {"blocked", "abandoned"}]
          /\ reports'[call.action] = "blocked" /\ remedy[call.action] = {}
          /\ \A a \in Ids \ {call.action} : reports'[a] = reports[a]
      BY <1>3, <3>1, <3>2 DEF BookType, Entries, ActionBook
    <3>4. BookType' /\ InOrder'
      BY <1>1, <1>3, <2>1, <3>3 DEF BookType, Entries, InOrder, Ids
    <3>5. ASSUME NEW a \in Ids PROVE BookOf(a)'
      <4>1. CASE a = call.action
        BY <1>1, <1>3, <1>4, <2>1, <3>2, <3>3, <4>1
           DEF BookOf, Untouched, Issued, ActionBook, Early, GuardPoints, Statuses, Ids, NoAction
      <4>2. CASE a # call.action
        BY <1>1, <1>3, <2>1, <3>3, <4>2 DEF BookOf, Untouched, Issued
      <4> QED BY <4>1, <4>2
    <3>6. (session.checkpoint # NoCheckpoint => Pointed(session.checkpoint))'
      BY <1>3, <2>1 DEF Books, Pointed, NoCheckpoint, NoAction, Blank, Ids
    <3>7. CallBook(call, outer)'
      <4>1. \A a \in Ids : Pending(a)' => Open(outer, a)
        <5>1. \A a \in Ids \ {call.action} : Pending(a)' <=> Pending(a)
          BY <1>1, <2>1, <3>3, PendingStays
        <5>2. \A a \in Ids : a = call.action => ~Pending(a)'
          BY <1>1, <3>3 DEF Pending
        <5> QED BY <1>5, <5>1, <5>2
      <4>2. outer.at = "suspended" => outer.action # call.action
        BY <1>2, <3>2, <3>3 DEF RemedyBook
      <4> QED BY <1>1, <1>2, <2>1, <3>1, <3>3, <4>1, <4>2, OverBook DEF RemedyBook, Open
    <3> QED BY <3>4, <3>5, <3>6, <3>7 DEF BookInv, Books, Ids
  <2>3. CASE call.guard = "post"
    <3>1. call' = [call EXCEPT !.at = "close"] /\ reports' = reports
      BY <1>7, <2>3 DEF GuardClose
    <3>2. Same(call, call') /\ call'.v = call.v /\ call'.at = "close"
      BY <1>2, <3>1 DEF Same, CallFields
    <3>3. UNCHANGED books /\ outer' = outer
      BY <1>1, <2>1, <3>1 DEF books
    <3>4. CallBook(call', outer)
      BY <1>1, <1>2, <2>3, <3>2
         DEF CallBook, Placed, RemedyBook, Pending, ActionBook, Pointed, Acting, Early, Middle, Late, Same,
             GuardPoints, Resuming, Trying, Remedying, Recovering
    <3> QED BY <3>3, <3>4, BooksStay DEF Kept
  <2>4. CASE call.guard = "tool"
    <3>1. call' = Idle /\ reports' = reports
      BY <1>7, <2>4 DEF GuardClose
    <3>2. outer.at = "idle"
      BY <1>1, <1>2, <2>4 DEF Placed, RemedyBook, Pending, Acting, Early, Middle, Late,
         GuardPoints, Resuming, Trying, Remedying, Recovering
    <3>3. CallBook(call, outer)'
      <4>1. \A a \in Ids : Pending(a)' <=> Pending(a)
        BY <1>1, <2>1, <3>1, PendingStays
      <4> QED BY <1>1, <1>5, <3>1, <3>2, <4>1, IdleBook DEF Open
    <3>4. Books'
      BY <1>1, <1>3, <2>1, <3>1 DEF Books, BookType, Entries, InOrder, BookOf, Untouched, Issued, Pointed,
         NoCheckpoint, NoAction, Blank, Ids
    <3> QED BY <3>3, <3>4 DEF BookInv
  <2> QED BY <1>2, <2>2, <2>3, <2>4
<1> QED BY <1>6, <1>7

-----------------------------------------------------------------------------
\* A read only judges.
LEMMA JudgeBook ==
    ASSUME DOMAIN call = CallFields, NEW read, DOMAIN read = VerdictFields, read.status \in Statuses,
           Judge(read)
    PROVE  /\ Same(call, call') /\ call'.v.status \in Statuses /\ call'.v.handoff = read.handoff
           /\ call'.at \in {"reread", "refresh", "baseline"}
<1>1. DOMAIN Settle(read) = VerdictFields /\ Settle(read).status \in Statuses
      /\ Settle(read).handoff = read.handoff
  <2>1. \/ Settle(read) = [read EXCEPT !.status = "failed", !.reason = "network_terminal"]
        \/ Settle(read) = [read EXCEPT !.status = "failed", !.reason = "retry_exhausted"]
        \/ Settle(read) = read
    BY DEF Settle
  <2> QED BY <2>1 DEF VerdictFields, Statuses
<1> DEFINE s == Settle(read)
<1>2. \/ call' = [call EXCEPT !.at = "reread", !.v = read]
      \/ \E at \in {"refresh", "baseline"} : call' = [call EXCEPT !.at = at, !.v = s]
  BY DEF Judge
<1> HIDE DEF s
<1>3. s.status \in Statuses /\ s.handoff = read.handoff
  BY <1>1 DEF s
<1> QED BY <1>2, <1>3 DEF Same, CallFields

\* The first read keeps what was seen before the action.
LEMMA FirstReadBook ==
    ASSUME NEW v, NEW post, DOMAIN v = VerdictFields, v.status \in Statuses
    PROVE  /\ DOMAIN FirstRead(v, post) = VerdictFields /\ FirstRead(v, post).status \in Statuses
           /\ v.handoff = "pre" => FirstRead(v, post).handoff = "pre"
<1> DEFINE seen == [v EXCEPT !.post = post, !.attempt = 1]
           read == IF v.handoff = "pre"
                   THEN [seen EXCEPT !.status = "failed", !.reason = "manual_handoff_required"]
                   ELSE IF post.manualHandoff
                   THEN [seen EXCEPT !.handoff = "post", !.status = "partial",
                                     !.reason = "manual_handoff_required"]
                   ELSE seen
<1>1. FirstRead(v, post) = [read EXCEPT !.budget = MaxRetryAttempts(StepState(read))]
  BY DEF FirstRead
<1>2. /\ DOMAIN read = VerdictFields /\ read.status \in Statuses
      /\ v.handoff = "pre" => read.handoff = "pre"
  BY DEF VerdictFields, Statuses
<1> HIDE DEF read
<1> QED BY <1>1, <1>2 DEF VerdictFields

\* A handoff before the action ends in its verdict without an execution.
LEMMA SenseBook == ASSUME Kept, Sense PROVE BookInv'
<1>1. UNCHANGED books /\ outer' = outer /\ call.at = "sense"
  BY StoresStay DEF Sense, At
<1>2. /\ DOMAIN call = CallFields /\ DOMAIN call.v = VerdictFields /\ CallBook(call, outer)
      /\ call.v.status \in Statuses /\ Early(call) /\ ActionBook(call)
  BY <1>1, KeptShape DEF Placed, Early, Acting
<1>5. PICK seen \in Sights :
        \/ Judge(FirstRead([call.v EXCEPT !.pre = Summary(seen), !.handoff = "pre"], Summary(seen)))
        \/ call' = [call EXCEPT !.at = "execute", !.v.pre = Summary(seen),
                                !.senseAt = Sighted(seen)]
  BY DEF Sense
<1> DEFINE pre == Summary(seen)
           v == [call.v EXCEPT !.pre = pre, !.handoff = "pre"]
<1>3. CASE Judge(FirstRead(v, pre))
  <2>1. DOMAIN v = VerdictFields /\ v.handoff = "pre" /\ v.status \in Statuses
    BY <1>2 DEF VerdictFields
  <2> HIDE DEF v
  <2>2. /\ Same(call, call') /\ call'.v.status \in Statuses /\ call'.v.handoff = "pre"
        /\ call'.at \in {"reread", "refresh", "baseline"}
    BY <1>2, <1>3, <2>1, FirstReadBook, JudgeBook
  <2>3. call'.at = "baseline"
    BY <2>2, SenseVerdict DEF Kept, VerdictOf
  <2>4. CallBook(call', outer)
    BY <1>1, <1>2, <2>2, <2>3
       DEF CallBook, Placed, RemedyBook, Pending, ActionBook, Acting, Early, Middle, Late, Same,
           GuardPoints, Resuming, Trying, Remedying, Recovering
  <2> QED BY <1>1, <2>4, BooksStay DEF Kept
<1>4. CASE call' = [call EXCEPT !.at = "execute", !.v.pre = pre, !.senseAt = Sighted(seen)]
  <2>1. Same(call, call') /\ call'.v.status = call.v.status /\ call'.at = "execute"
    BY <1>2, <1>4 DEF Same, CallFields, VerdictFields
  <2>2. CallBook(call', outer)
    BY <1>2, <2>1, StageStays
  <2> QED BY <1>1, <2>2, BooksStay DEF Kept
<1> QED BY <1>3, <1>4, <1>5

\* A step that changes the history of the action in progress, and nothing else.
LEMMA HistoryStays ==
    ASSUME Kept, Acting(call), UNCHANGED <<records, baseline, session, remedy, reports, failures>>,
           NEW t, trail' = [trail EXCEPT ![call.action] = t],
           t \in Entries,
           t.intent = trail[call.action].intent, trail[call.action].done => t.done,
           t.cleared = trail[call.action].cleared,
           t.unaudited = trail[call.action].unaudited
    PROVE  /\ Books' /\ trail'[call.action] = t
           /\ \A a \in Ids : trail'[a].intent = trail[a].intent
<1>1. Books /\ call.action \in Ids /\ Issued(call.action)
  BY KeptShape DEF Kept, BookInv, ActionBook, Issued
<1>2. /\ trail' \in [Ids -> Entries]
      /\ trail'[call.action] = t /\ \A a \in Ids \ {call.action} : trail'[a] = trail[a]
  BY <1>1 DEF Books, BookType, Entries
<1>3. BookType' /\ InOrder'
  BY <1>1, <1>2 DEF Books, BookType, Entries, InOrder, Ids
<1>4. ASSUME NEW a \in Ids PROVE BookOf(a)'
  <2>1. CASE a = call.action
    BY <1>1, <1>2, <2>1 DEF Books, BookOf, Untouched, Issued
  <2>2. CASE a # call.action
    BY <1>1, <1>2, <2>2 DEF Books, BookOf, Untouched, Issued
  <2> QED BY <2>1, <2>2
<1>5. (session.checkpoint # NoCheckpoint => Pointed(session.checkpoint))'
  BY <1>1, <1>2 DEF Books, Pointed, NoCheckpoint, NoAction, Blank, Ids
<1> QED BY <1>1, <1>2, <1>3, <1>4, <1>5 DEF Books, Ids

\* The one execution.
LEMMA ExecuteBook == ASSUME Kept, Execute PROVE BookInv'
<1>1. /\ UNCHANGED <<outer, records, baseline, session, remedy, reports, failures>>
      /\ call.at = "execute" /\ trail' = [trail EXCEPT ![call.action].done = TRUE]
  BY DEF Execute, At, stores, budgets
<1>2. /\ DOMAIN call = CallFields /\ DOMAIN call.v = VerdictFields /\ CallBook(call, outer)
      /\ Early(call) /\ ActionBook(call) /\ Acting(call)
  BY <1>1, KeptShape DEF Early, Acting
<1>3. PICK r \in ExecResults :
        call' = [call EXCEPT !.v.status = r.status, !.v.reason = r.reason,
                             !.v.low = r.status, !.v.target = r.target,
                                 !.clearAt = Never, !.senseAt = Never,
                             !.at = IF CanAttemptOcr(call.intent, r) /\ ~HasLoadingBlockers(call.v.pre)
                                    THEN "ocr" ELSE "look"]
  BY DEF Execute, ResultsOf
<1>4. r.status \in Statuses
  BY ActionAssumption DEF ExecResult
<1>5. Same(call, call') /\ call'.v.status \in Statuses /\ call'.at \in {"ocr", "look"}
  BY <1>2, <1>3, <1>4 DEF Same, CallFields, VerdictFields
<1> DEFINE t == [trail[call.action] EXCEPT !.done = TRUE]
<1>6. /\ trail' = [trail EXCEPT ![call.action] = t]
      /\ t \in Entries
      /\ t.intent = trail[call.action].intent /\ t.done /\ t.taps = trail[call.action].taps
      /\ t.cleared = trail[call.action].cleared /\ t.unaudited = trail[call.action].unaudited
  <2>1. trail[call.action] \in Entries
    BY <1>2 DEF Kept, BookInv, Books, BookType, ActionBook
  <2> QED BY <1>1, <2>1 DEF Entries
<1> HIDE DEF t
<1>7. /\ Books' /\ trail'[call.action] = t
      /\ \A a \in Ids : trail'[a].intent = trail[a].intent
  BY <1>1, <1>2, <1>6, HistoryStays
<1>8. CallBook(call, outer)'
  BY <1>1, <1>2, <1>5, <1>6, <1>7
     DEF CallBook, Placed, RemedyBook, Pending, ActionBook, Acting, Early, Middle, Late, Same, Issued, Ids,
         GuardPoints, Resuming, Trying, Remedying, Recovering, Statuses
<1> QED BY <1>7, <1>8 DEF BookInv

\* The fallback taps at most twice.
LEMMA OcrBook == ASSUME Kept, Ocr \/ OcrTap \/ OcrVerify PROVE BookInv'
<1>1. /\ call.at \in {"ocr", "ocrTap", "ocrVerify"} /\ outer' = outer
      /\ DOMAIN call = CallFields /\ DOMAIN call.v = VerdictFields /\ CallBook(call, outer)
      /\ Middle(call) /\ ActionBook(call) /\ Acting(call) /\ call.v.status \in Statuses
  BY KeptShape DEF Ocr, OcrTap, OcrVerify, At, Middle, Acting, Trying, Placed
<1>2. ASSUME UNCHANGED books, Same(call, call'), call'.v.status \in Statuses,
             call'.at \in {"look", "reread", "refresh", "baseline", "ocrVerify"}
      PROVE  BookInv'
  BY <1>1, <1>2, StageStays, BooksStay DEF Kept
<1>3. ASSUME UNCHANGED books, call' = [call EXCEPT !.at = "ocrTap"], trail[call.action].taps < 2
      PROVE  BookInv'
  <2>1. Same(call, call') /\ call'.v = call.v /\ call'.at = "ocrTap"
    BY <1>1, <1>3 DEF Same, CallFields
  <2>2. CallBook(call', outer)
    BY <1>1, <1>3, <2>1
       DEF CallBook, Placed, RemedyBook, Pending, ActionBook, Acting, Early, Middle, Late, Same,
           GuardPoints, Resuming, Trying, Remedying, Recovering
  <2> QED BY <1>1, <1>3, <2>2, BooksStay DEF Kept
<1>4. CASE Ocr
  <2>1. UNCHANGED books
    BY <1>4, StoresStay DEF Ocr
  <2>2. \/ call' = [call EXCEPT !.at = "ocrTap"]
        \/ \E status \in Statuses, reason \in {"adapter_error", "ok"} :
              call' = [call EXCEPT !.at = "look", !.v.status = status, !.v.reason = reason]
    BY <1>4 DEF Ocr, Statuses
  <2>3. CASE call' = [call EXCEPT !.at = "ocrTap"]
    BY <1>1, <1>3, <1>4, <2>1, <2>3 DEF Ocr, At, ActionBook
  <2>4. ASSUME NEW status \in Statuses, NEW reason,
               call' = [call EXCEPT !.at = "look", !.v.status = status, !.v.reason = reason]
        PROVE  BookInv'
    <3>1. Same(call, call') /\ call'.v.status \in Statuses /\ call'.at = "look"
      BY <1>1, <2>4 DEF Same, CallFields, VerdictFields
    <3> QED BY <1>2, <2>1, <3>1
  <2> QED BY <2>2, <2>3, <2>4
<1>5. CASE OcrTap
  <2>1. CASE /\ trail' = trail
             /\ call' = [call EXCEPT !.at = "look", !.v.status = "failed", !.v.reason = "adapter_error"]
    <3>1. UNCHANGED books
      BY <1>5, <2>1 DEF OcrTap, stores, budgets, books
    <3>2. Same(call, call') /\ call'.v.status \in Statuses /\ call'.at = "look"
      BY <1>1, <2>1 DEF Same, CallFields, VerdictFields, Statuses
    <3> QED BY <1>2, <3>1, <3>2
  <2>2. CASE Go("ocrVerify") /\ trail' = [trail EXCEPT ![call.action].taps = @ + 1]
    <3>1. UNCHANGED <<records, baseline, session, remedy, reports, failures>>
      BY <1>5 DEF OcrTap, stores, budgets
    <3>2. Same(call, call') /\ call'.v = call.v /\ call'.at = "ocrVerify"
      BY <1>1, <2>2 DEF Go, Same, CallFields
    <3> DEFINE t == [trail[call.action] EXCEPT !.taps = trail[call.action].taps + 1]
    <3>3. /\ trail' = [trail EXCEPT ![call.action] = t]
          /\ t \in Entries
          /\ t.intent = trail[call.action].intent /\ t.done = trail[call.action].done
          /\ t.cleared = trail[call.action].cleared /\ t.unaudited = trail[call.action].unaudited
      BY <1>1, <2>2 DEF Kept, BookInv, Books, BookType, Entries, ActionBook
    <3> HIDE DEF t
    <3>4. /\ Books' /\ trail'[call.action] = t
          /\ \A a \in Ids : trail'[a].intent = trail[a].intent
      BY <1>1, <3>1, <3>3, HistoryStays
    <3>5. CallBook(call, outer)'
      BY <1>1, <3>1, <3>2, <3>3, <3>4
         DEF CallBook, Placed, RemedyBook, Pending, ActionBook, Acting, Early, Middle, Late, Same, Issued, Ids,
             GuardPoints, Resuming, Trying, Remedying, Recovering, Statuses
    <3> QED BY <3>4, <3>5 DEF BookInv
  <2> QED BY <1>5, <2>1, <2>2 DEF OcrTap
<1>6. CASE OcrVerify
  <2>5. PICK seen \in Sights :
          \/ trail[call.action].taps < 2 /\ Go("ocrTap")
          \/ LET post == Summary(seen)
                 passed == HasStateChanged(call.v.pre, post)
             IN Judge(FirstRead([call.v EXCEPT !.status = IF passed THEN "success" ELSE "failed",
                                               !.reason = IF passed THEN "ok" ELSE "adapter_error"],
                                post))
    BY <1>6 DEF OcrVerify
  <2> DEFINE post == Summary(seen)
             passed == HasStateChanged(call.v.pre, post)
             v == [call.v EXCEPT !.status = IF passed THEN "success" ELSE "failed",
                                 !.reason = IF passed THEN "ok" ELSE "adapter_error"]
  <2>1. UNCHANGED books
    BY <1>6, StoresStay DEF OcrVerify
  <2>2. \/ trail[call.action].taps < 2 /\ Go("ocrTap")
        \/ Judge(FirstRead(v, post))
    BY <2>5
  <2>3. DOMAIN v = VerdictFields /\ v.status \in Statuses
    BY <1>1 DEF VerdictFields, Statuses
  <2> HIDE DEF v
  <2>4. CASE Judge(FirstRead(v, post))
    <3>1. /\ Same(call, call') /\ call'.v.status \in Statuses
          /\ call'.at \in {"reread", "refresh", "baseline"}
      BY <1>1, <2>3, <2>4, FirstReadBook, JudgeBook
    <3> QED BY <1>2, <2>1, <3>1
  <2> QED BY <1>3, <2>1, <2>2, <2>4 DEF Go
<1> QED BY <1>4, <1>5, <1>6

\* The reads after it.
LEMMA LookBook == ASSUME Kept, Look \/ RereadScreen \/ RefreshScreen PROVE BookInv'
<1>1. /\ call.at \in {"look", "reread", "refresh"} /\ outer' = outer /\ UNCHANGED books
      /\ DOMAIN call = CallFields /\ DOMAIN call.v = VerdictFields /\ CallBook(call, outer)
      /\ Middle(call) /\ call.v.status \in Statuses
  BY KeptShape, StoresStay DEF Look, RereadScreen, RefreshScreen, At, Middle, Trying, Placed
<1>2. ASSUME NEW post
      PROVE  DOMAIN Reread(call.v, post) = VerdictFields /\ Reread(call.v, post).status \in Statuses
  BY <1>1 DEF Reread, VerdictFields, Statuses
<1>3. /\ Same(call, call') /\ call'.v.status \in Statuses
      /\ call'.at \in {"reread", "refresh", "baseline"}
  <2>1. CASE Look
    BY <1>1, <2>1, FirstReadBook, JudgeBook DEF Look
  <2>2. CASE RereadScreen
    BY <1>1, <1>2, <2>2, JudgeBook DEF RereadScreen
  <2>3. CASE RefreshScreen
    <3>3. PICK seen \in Sights :
            call' = [call EXCEPT !.at = "baseline",
                                 !.v = [Refresh(call.v, Summary(seen)) EXCEPT !.refreshed = TRUE]]
      BY <2>3 DEF RefreshScreen
    <3> DEFINE w == Refresh(call.v, Summary(seen))
    <3>1. DOMAIN w = VerdictFields /\ w.status \in Statuses
      BY <1>1, <1>2 DEF Refresh, VerdictFields
    <3>2. call' = [call EXCEPT !.at = "baseline", !.v = [w EXCEPT !.refreshed = TRUE]]
      BY <3>3
    <3> HIDE DEF w
    <3> QED BY <1>1, <3>1, <3>2 DEF Same, CallFields, VerdictFields
  <2> QED BY <2>1, <2>2, <2>3
<1> QED BY <1>1, <1>3, StageStays, BooksStay DEF Kept

-----------------------------------------------------------------------------
\* A success that stands was executed, and goes to the baseline.
LEMMA BaselineBook == ASSUME Kept, RecordBaseline PROVE BookInv'
<1>1. /\ call.at = "baseline" /\ UNCHANGED <<outer, records, session, remedy, reports, trail, failures>>
      /\ call' = [call EXCEPT !.at = "record"]
      /\ baseline' = IF call.v.status = "success" THEN baseline \cup {call.action} ELSE baseline
  BY DEF RecordBaseline, Go, At, budgets
<1>2. /\ DOMAIN call = CallFields /\ CallBook(call, outer) /\ ActionBook(call)
      /\ call.v.status \in Statuses
  BY <1>1, KeptShape DEF Acting, Placed
<1>4. /\ Same(call, call') /\ call'.at = "record" /\ call'.v.status = call.v.status
  BY <1>1, <1>2 DEF Same, CallFields
<1>5. call.v.status = "success" => trail[call.action].done
  BY <1>1, <1>2 DEF ActionBook, Kept, VerdictInv, VerdictOf, Stands
<1>6. Books
  BY DEF Kept, BookInv
<1>7. /\ call.action \in Ids /\ Issued(call.action) /\ reports[call.action] = "none"
      /\ records[call.action].outcome = "none" /\ call.action \notin baseline
  BY <1>1, <1>2 DEF ActionBook, Issued, Late, GuardPoints, Resuming
<1>8. Books'
  <2>1. BookType' /\ InOrder'
    BY <1>1, <1>6, <1>7 DEF Books, BookType, Entries, InOrder, Ids
  <2>2. ASSUME NEW a \in Ids PROVE BookOf(a)'
    BY <1>1, <1>5, <1>6, <1>7, <2>2 DEF Books, BookOf, Untouched, Issued
  <2>3. (session.checkpoint # NoCheckpoint => Pointed(session.checkpoint))'
    BY <1>1, <1>6 DEF Books, Pointed, NoCheckpoint, NoAction, Blank, Ids
  <2> QED BY <2>1, <2>2, <2>3 DEF Books, Ids
<1>9. CallBook(call, outer)'
  BY <1>1, <1>2, <1>4, <1>7
     DEF CallBook, Placed, RemedyBook, Pending, ActionBook, Acting, Early, Middle, Late, Same, Issued, Ids,
         GuardPoints, Resuming, Trying, Remedying, Recovering, Statuses
<1> QED BY <1>8, <1>9 DEF BookInv

\* The record of the action, which until then had none.
LEMMA PersistBook == ASSUME Kept, PersistRecord PROVE BookInv'
<1>1. /\ call.at = "record" /\ UNCHANGED <<outer, baseline, session, remedy, reports, trail, failures>>
      /\ call' = [call EXCEPT !.at = "guard", !.guard = "post", !.v = Outcome(call.v)]
      /\ WriteRecord(call.action, call.intent, call.v.status, call.v.post.screenId)
  BY DEF PersistRecord, At, budgets
<1>2. /\ DOMAIN call = CallFields /\ CallBook(call, outer) /\ ActionBook(call)
      /\ call.v.status \in Statuses
  BY <1>1, KeptShape DEF Acting, Placed
<1>3. Books
  BY DEF Kept, BookInv
<1>4. /\ call'.at = "guard" /\ call'.guard = "post" /\ call'.tool = call.tool
      /\ call'.action = call.action /\ call'.intent = call.intent
      /\ call'.v.status = call.v.status /\ call'.remediate = call.remediate
  <2>1. Outcome(call.v).status = call.v.status
    BY DEF Outcome, NoVerdict
  <2> QED BY <1>1, <1>2, <2>1 DEF CallFields
<1>5. /\ call.action \in Ids /\ Issued(call.action) /\ call.intent = trail[call.action].intent
      /\ \A b \in Ids : Issued(b) => b <= call.action
      /\ reports[call.action] = "none" /\ (call.action \in baseline => call.v.status = "success")
  BY <1>1, <1>2 DEF ActionBook, Issued
<1>6. /\ DOMAIN records' = Ids
      /\ \A b \in Ids : records'[b].outcome \in Outcomes /\ records'[b].updatedAt \in Nat
      /\ records'[call.action].outcome = call.v.status
      /\ records'[call.action].intent = trail[call.action].intent
      /\ \A b \in Ids \ {call.action} : records'[b] = records[b]
      /\ InOrder'
  BY <1>1, <1>2, <1>3, <1>5, Written
<1>7. Books'
  <2>1. BookType'
    BY <1>1, <1>3, <1>6 DEF Books, BookType, Entries, Ids
  <2>2. ASSUME NEW a \in Ids PROVE BookOf(a)'
    <3>1. CASE a = call.action
      BY <1>1, <1>3, <1>5, <1>6, <3>1 DEF Books, BookOf, Untouched, Issued, Statuses
    <3>2. CASE a # call.action
      BY <1>1, <1>3, <1>6, <3>2 DEF Books, BookOf, Untouched, Issued
    <3> QED BY <3>1, <3>2
  <2>3. (session.checkpoint # NoCheckpoint => Pointed(session.checkpoint))'
    BY <1>1, <1>3 DEF Books, Pointed, NoCheckpoint, NoAction, Blank, Ids
  <2> QED BY <1>6, <2>1, <2>2, <2>3 DEF Books, Ids
<1>8. CallBook(call, outer)'
  BY <1>1, <1>2, <1>4, <1>5, <1>6
     DEF CallBook, Placed, RemedyBook, Pending, ActionBook, Acting, Early, Middle, Late, Issued, Ids,
         GuardPoints, Resuming, Trying, Remedying, Recovering, Statuses
<1> QED BY <1>7, <1>8 DEF BookInv

\* Resuming leaves a checkpoint of what was resumed.
LEMMA ResumeBook == ASSUME Kept, ResumeLook \/ ResumeExec \/ ResumeCheck PROVE BookInv'
<1>1. call.at \in Resuming /\ outer' = outer
  BY DEF ResumeLook, ResumeExec, ResumeCheck, At, Resuming
<1>2. /\ DOMAIN call = CallFields /\ CallBook(call, outer) /\ Placed(call) /\ RemedyBook(call, outer)
      /\ Acting(call) => ActionBook(call)
  BY KeptShape
<1>3. Pointed(call) /\ call.guard \in {"post", "tool"} /\ call.v.status \in Statuses
  BY <1>1, <1>2 DEF CallBook, Placed
<1>4. ASSUME UNCHANGED books, Same(call, call'), call'.v = call.v, call'.at \in Resuming
      PROVE  BookInv'
  <2>1. CallBook(call', outer)
    BY <1>1, <1>2, <1>3, <1>4
       DEF CallBook, Placed, RemedyBook, Pending, ActionBook, Pointed, Acting, Early, Middle, Late, Same,
           GuardPoints, Resuming, Trying, Remedying, Recovering
  <2> QED BY <1>1, <1>4, <2>1, BooksStay DEF Kept
<1>5. CASE ResumeLook
  <2>1. UNCHANGED books /\ \E seen \in Sights : call' = [call EXCEPT !.at = "resumeExec", !.seen = seen]
    BY <1>5, StoresStay DEF ResumeLook
  <2>2. Same(call, call') /\ call'.v = call.v /\ call'.at = "resumeExec"
    BY <1>2, <2>1 DEF Same, CallFields
  <2> QED BY <1>4, <2>1, <2>2 DEF Resuming
<1>6. CASE ResumeExec
  <2>1. /\ UNCHANGED books
        /\ \E result : call' = [call EXCEPT !.at = "resumeCheck", !.result = result]
    BY <1>6 DEF ResumeExec, stores, budgets, books
  <2>2. Same(call, call') /\ call'.v = call.v /\ call'.at = "resumeCheck"
    BY <1>2, <2>1 DEF Same, CallFields
  <2> QED BY <1>4, <2>1, <2>2 DEF Resuming
<1>7. CASE ResumeCheck
  <2>1. /\ UNCHANGED <<records, baseline, remedy, reports, trail, failures>>
        /\ session' \in {session, [session EXCEPT !.checkpoint =
                                     [action |-> call.action, intent |-> call.intent]]}
    BY <1>7 DEF ResumeCheck, budgets
  <2>2. Books'
    <3>1. Books
      BY DEF Kept, BookInv
    <3>2. BookType' /\ InOrder' /\ \A a \in Ids : BookOf(a)'
      BY <2>1, <3>1 DEF Books, BookType, Entries, InOrder, BookOf, Untouched, Issued, Ids
    <3>3. \/ session'.checkpoint = session.checkpoint
          \/ session'.checkpoint.action = call.action /\ session'.checkpoint.intent = call.intent
      BY <2>1, <3>1 DEF Books, BookType, Entries
    <3>4. (session.checkpoint # NoCheckpoint => Pointed(session.checkpoint))'
      BY <1>3, <2>1, <3>1, <3>3 DEF Books, Pointed, NoCheckpoint, NoAction, Blank, Ids
    <3> QED BY <3>2, <3>4 DEF Books, Ids
  <2>3. CASE call.tool = "resume"
    <3>1. call' = Idle
      BY <1>7, <2>3 DEF ResumeCheck
    <3>2. outer.at = "idle" /\ \A a \in Ids : ~Pending(a)
      BY <1>1, <1>2, <2>3 DEF RemedyBook, Pending, Resuming
    <3>3. CallBook(call, outer)'
      <4>1. \A a \in Ids : Pending(a)' <=> Pending(a)
        BY <2>1, PendingStays
      <4> QED BY <1>1, <3>1, <3>2, <4>1, IdleBook
    <3> QED BY <2>2, <3>3 DEF BookInv
  <2>4. CASE call.tool # "resume"
    <3>1. \E result : call' = [call EXCEPT !.at = "close", !.seen = NoScreen, !.result = result]
      BY <1>7, <2>4 DEF ResumeCheck
    <3>2. Same(call, call') /\ call'.v = call.v /\ call'.at = "close"
      BY <1>2, <3>1 DEF Same, CallFields
    <3>3. call.guard = "post"
      BY <1>1, <1>2, <2>4 DEF Placed
    <3>4. CallBook(call, outer)'
      BY <1>1, <1>2, <1>3, <2>1, <3>2, <3>3
         DEF CallBook, Placed, RemedyBook, Pending, ActionBook, Acting, Early, Middle, Late, Same, Issued, Ids,
             GuardPoints, Resuming, Trying, Remedying, Recovering, Statuses
    <3> QED BY <2>2, <3>4 DEF BookInv
  <2> QED BY <2>3, <2>4
<1> QED BY <1>5, <1>6, <1>7

\* The end of an action: its record and its report agree, and a remediation may begin.
LEMMA CloseBook == ASSUME Kept, Close PROVE BookInv'
<1>1. /\ call.at = "close" /\ UNCHANGED <<outer, baseline, session, remedy, trail, failures>>
      /\ reports' = [reports EXCEPT ![call.action] = FinalStatus]
      /\ IF call.result = "passed" THEN records' = records
         ELSE WriteRecord(call.action, call.intent, "failed", records[call.action].landed)
  BY DEF Close, At, budgets
<1>2. /\ DOMAIN call = CallFields /\ CallBook(call, outer) /\ ActionBook(call) /\ Acting(call)
      /\ call.v.status \in Statuses /\ RemedyBook(call, outer) /\ Late(call) /\ call.guard = "post"
  BY <1>1, KeptShape DEF Acting, Late, Placed
<1>3. Books
  BY DEF Kept, BookInv
<1>4. /\ call.action \in Ids /\ Issued(call.action) /\ call.intent = trail[call.action].intent
      /\ \A b \in Ids : Issued(b) => b <= call.action
      /\ remedy[call.action] = {} /\ (call.action \in baseline => call.v.status = "success")
      /\ records[call.action].outcome = call.v.status
  BY <1>2 DEF ActionBook, Issued
<1>5. FinalStatus \in Statuses /\ (call.action \in baseline => FinalStatus # "partial")
  BY <1>2, <1>4 DEF FinalStatus, Statuses
<1>6. /\ DOMAIN records' = Ids
      /\ \A b \in Ids : records'[b].outcome \in Outcomes /\ records'[b].updatedAt \in Nat
      /\ records'[call.action].outcome = FinalStatus
      /\ records'[call.action].intent = trail[call.action].intent
      /\ \A b \in Ids \ {call.action} : records'[b] = records[b]
      /\ InOrder'
  <2>1. CASE call.result = "passed"
    BY <1>1, <1>2, <1>3, <1>4, <2>1 DEF FinalStatus, Books, BookType, Entries, BookOf, InOrder, Statuses, Ids
  <2>2. CASE call.result # "passed"
    BY <1>1, <1>3, <1>4, <2>2, Written DEF FinalStatus, Statuses
  <2> QED BY <2>1, <2>2
<1>7. /\ reports' \in [Ids -> Outcomes \cup {"blocked", "abandoned"}]
      /\ reports'[call.action] = FinalStatus
      /\ \A b \in Ids \ {call.action} : reports'[b] = reports[b]
  BY <1>1, <1>3, <1>4, <1>5 DEF Books, BookType, Entries, Outcomes
<1>8. Books'
  <2>1. BookType'
    BY <1>1, <1>3, <1>6, <1>7 DEF Books, BookType, Entries, Ids
  <2>2. ASSUME NEW a \in Ids PROVE BookOf(a)'
    <3>1. CASE a = call.action
      BY <1>1, <1>3, <1>4, <1>5, <1>6, <1>7, <3>1 DEF Books, BookOf, Untouched, Issued, Statuses
    <3>2. CASE a # call.action
      BY <1>1, <1>3, <1>6, <1>7, <3>2 DEF Books, BookOf, Untouched, Issued
    <3> QED BY <3>1, <3>2
  <2>3. (session.checkpoint # NoCheckpoint => Pointed(session.checkpoint))'
    BY <1>1, <1>3 DEF Books, Pointed, NoCheckpoint, NoAction, Blank, Ids
  <2> QED BY <1>6, <2>1, <2>2, <2>3 DEF Books, Ids
<1>9. \A a \in Ids : Pending(a)' => Open(outer, a)
  BY <1>1, <1>2, <1>4, <1>7 DEF RemedyBook, Pending, Open
<1>10. CASE Remediates
  <2>1. call' = [call EXCEPT !.at = "remedyTrigger"] /\ call.remediate /\ FinalStatus # "success"
    BY <1>1, <1>10 DEF Close, Go, Remediates
  <2>2. /\ Same(call, call') /\ call'.v = call.v /\ call'.at = "remedyTrigger"
        /\ outer.at = "idle" /\ FinalStatus \in {"partial", "failed"}
    BY <1>2, <1>5, <2>1 DEF Same, CallFields, RemedyBook, Pending, Statuses
  <2>4. ~trail'[call.action].unaudited
    BY <1>1, <1>3, <1>4 DEF Books, BookOf
  <2>3. CallBook(call, outer)'
    BY <1>1, <1>2, <1>4, <1>7, <1>9, <2>2, <2>4
       DEF CallBook, Placed, RemedyBook, Open, Acting, Early, Middle, Late, Same, Ids,
           GuardPoints, Resuming, Trying, Remedying, Recovering, Statuses
  <2> QED BY <1>8, <2>3 DEF BookInv
<1>11. CASE ~Remediates
  <2>1. Over(FinalStatus # "failed")
    BY <1>1, <1>11 DEF Close
  <2>2. outer.at = "suspended" => outer.action # call.action
    BY <1>2, <1>4 DEF RemedyBook, Pending
  <2>3. CallBook(call, outer)'
    BY <1>1, <1>2, <1>7, <1>9, <2>1, <2>2, OverBook DEF RemedyBook, Pending
  <2> QED BY <1>8, <2>3 DEF BookInv
<1> QED BY <1>10, <1>11

-----------------------------------------------------------------------------
\* A step that changes nothing but the remediation of one failed action.
LEMMA RemedyStays ==
    ASSUME Kept, UNCHANGED <<records, baseline, session, reports, trail, failures>>,
           NEW a \in Ids, reports[a] \in {"partial", "failed"}, ~trail[a].unaudited,
           NEW r \in Closings, remedy' = [remedy EXCEPT ![a] = r]
    PROVE  Books' /\ remedy'[a] = r /\ \A b \in Ids \ {a} : remedy'[b] = remedy[b]
<1>1. Books
  BY DEF Kept, BookInv
<1>2. /\ remedy' \in [Ids -> Closings] /\ remedy'[a] = r
      /\ \A b \in Ids \ {a} : remedy'[b] = remedy[b]
  BY <1>1 DEF Books, BookType, Entries
<1>3. BookType' /\ InOrder'
  BY <1>1, <1>2 DEF Books, BookType, Entries, InOrder, Ids
<1>4. ASSUME NEW b \in Ids PROVE BookOf(b)'
  BY <1>1, <1>2, <1>4 DEF Books, BookOf, Untouched, Issued
<1>5. (session.checkpoint # NoCheckpoint => Pointed(session.checkpoint))'
  BY <1>1 DEF Books, Pointed, NoCheckpoint, NoAction, Blank, Ids
<1> QED BY <1>2, <1>3, <1>4, <1>5 DEF Books, Ids

\* A remediation that closes is the only one that was open.
LEMMA StopBook ==
    ASSUME Kept, UNCHANGED <<records, baseline, session, reports, trail, failures>>,
           call.action \in Ids, reports[call.action] \in {"partial", "failed"},
           remedy[call.action] = {"triggered"}, ~trail[call.action].unaudited, outer'.at = "idle",
           \A b \in Ids : Pending(b) => b = call.action,
           NEW e \in {"stopped", "succeeded"}, Stop({e})
    PROVE  BookInv'
<1> DEFINE r == {"triggered", e}
<1>1. /\ call' = Idle /\ remedy' = [remedy EXCEPT ![call.action] = r]
      /\ r \in Closings /\ r # {"triggered"}
  <2>1. remedy[call.action] \cup {e} = {"triggered", e}
    OBVIOUS
  <2>2. remedy' = [remedy EXCEPT ![call.action] = remedy[call.action] \cup {e}] /\ call' = Idle
    BY DEF Stop
  <2> QED BY <2>1, <2>2 DEF Closings
<1> HIDE DEF r
<1>2. Books' /\ remedy'[call.action] = r /\ \A b \in Ids \ {call.action} : remedy'[b] = remedy[b]
  BY <1>1, RemedyStays
<1>3. \A a \in Ids : ~Pending(a)'
  BY <1>1, <1>2 DEF Pending
<1> QED BY <1>1, <1>2, <1>3, IdleBook DEF BookInv

\* A remediation whose audit record is not there stays announced, and no other does.
LEMMA AuditBook ==
    ASSUME Kept, UNCHANGED <<records, baseline, session, reports>>, failures' = failures + 1,
           call.action \in Ids, reports[call.action] \in {"partial", "failed"},
           remedy' = [remedy EXCEPT ![call.action] = {"triggered"}],
           trail' = [trail EXCEPT ![call.action].unaudited = TRUE],
           call' = Idle, outer'.at = "idle",
           \A b \in Ids : Pending(b) => b = call.action
    PROVE  BookInv'
<1> DEFINE n == call.action
           t == [trail[n] EXCEPT !.unaudited = TRUE]
<1>1. Books
  BY DEF Kept, BookInv
<1>2. n \in Ids /\ reports[n] \in {"partial", "failed"} /\ Issued(n)
  BY <1>1 DEF Books, BookOf, Untouched
<1>3. trail[n] \in Entries
  BY <1>1, <1>2 DEF Books, BookType
<1>4. /\ t \in Entries /\ t.unaudited /\ t.intent = trail[n].intent /\ t.done = trail[n].done
      /\ t.taps = trail[n].taps /\ t.cleared = trail[n].cleared
  BY <1>3 DEF Entries
<1>5. trail' = [trail EXCEPT ![n] = t]
  OBVIOUS
<1> HIDE DEF t
<1>6. trail' \in [Ids -> Entries] /\ trail'[n] = t /\ \A a \in Ids \ {n} : trail'[a] = trail[a]
  BY <1>1, <1>2, <1>4, <1>5 DEF Books, BookType
<1>7. /\ remedy' \in [Ids -> Closings] /\ remedy'[n] = {"triggered"}
      /\ \A a \in Ids \ {n} : remedy'[a] = remedy[a]
  BY <1>1, <1>2 DEF Books, BookType, Closings
<1> HIDE DEF n
<1>8. BookType' /\ InOrder'
  BY <1>1, <1>6, <1>7 DEF Books, BookType, InOrder, Ids
<1>9. ASSUME NEW a \in Ids PROVE BookOf(a)'
  <2>1. failures \in Nat
    BY <1>1 DEF Books, BookType
  <2>2. CASE a = n
    BY <1>1, <1>2, <1>4, <1>6, <1>7, <2>1, <2>2 DEF Books, BookOf, Untouched, Issued
  <2>3. CASE a # n
    BY <1>1, <1>6, <1>7, <2>1, <2>3 DEF Books, BookOf, Untouched, Issued
  <2> QED BY <2>2, <2>3
<1>10. (session.checkpoint # NoCheckpoint => Pointed(session.checkpoint))'
  BY <1>1, <1>2, <1>4, <1>6 DEF Books, Pointed, NoCheckpoint, NoAction, Blank, Ids
<1>11. \A a \in Ids : ~Pending(a)'
  BY <1>4, <1>6, <1>7 DEF Pending, n
<1>12. CallBook(call, outer)'
  BY <1>11, IdleBook
<1> QED BY <1>8, <1>9, <1>10, <1>12 DEF BookInv, Books, Ids

\* A call to recover starts under the remediation.
LEMMA SuspendBook ==
    ASSUME Kept, NEW path, Suspend([Idle EXCEPT !.tool = "recover", !.at = "recoverLook"], path),
           call.action \in Ids, reports'[call.action] \in {"partial", "failed"},
           remedy'[call.action] = {"triggered"}, ~trail'[call.action].unaudited,
           \A a \in Ids : Pending(a)' => a = call.action
    PROVE  CallBook(call, outer)'
<1>1. /\ call'.at = "recoverLook" /\ call'.tool = "recover" /\ call'.v.status \in Statuses
      /\ outer'.at = "suspended" /\ outer'.action = call.action
  BY DEF Suspend, Idle, NoVerdict, Statuses
<1> QED
  BY <1>1 DEF CallBook, Placed, RemedyBook, Pending, Acting, Early, Middle, Late, Ids,
     GuardPoints, Resuming, Trying, Remedying, Recovering, Statuses

\* The remediation of the action that has just failed, up to its close.
LEMMA RemedyBooks ==
    ASSUME Kept, RemedyTrigger \/ RemedyStop \/ RemedyRecover \/ RemedyReplay \/ RemedyClose
    PROVE  BookInv'
<1>1. call.at \in Remedying
  BY DEF RemedyTrigger, RemedyStop, RemedyRecover, RemedyReplay, RemedyClose, At, Remedying
<1>2. /\ DOMAIN call = CallFields /\ CallBook(call, outer) /\ RemedyBook(call, outer)
      /\ call.v.status \in Statuses /\ ~Acting(call)
  BY <1>1, KeptShape DEF Placed, Acting, Early, Middle, Late, Remedying, GuardPoints, Resuming, Trying
<1>3. call.action \in Ids /\ reports[call.action] \in {"partial", "failed"} /\ Books
  BY <1>1, <1>2 DEF RemedyBook, Pending, Remedying, Kept, BookInv
<1>4. CASE RemedyTrigger
  <2>1. /\ call.at = "remedyTrigger"
        /\ UNCHANGED <<records, baseline, session, reports>>
        /\ remedy' = [remedy EXCEPT ![call.action] = remedy[call.action] \cup {"triggered"}]
        /\ \/ /\ \/ Suspend([Idle EXCEPT !.tool = "recover", !.at = "recoverLook"], "waiting")
                 \/ Go("remedyChoose") /\ outer' = outer
              /\ UNCHANGED <<trail, failures>>
           \/ AuditFails /\ outer' = outer
    BY <1>4 DEF RemedyTrigger, At
  <2>2. /\ outer.at = "idle" /\ remedy[call.action] \cup {"triggered"} = {"triggered"}
        /\ ~trail[call.action].unaudited
    BY <1>2, <2>1 DEF RemedyBook
  <2>3. remedy' = [remedy EXCEPT ![call.action] = {"triggered"}] /\ {"triggered"} \in Closings
    BY <2>1, <2>2 DEF Closings
  <2>8. \A a \in Ids : ~Pending(a)
    BY <1>2, <2>1, <2>2 DEF RemedyBook
  <2>9. CASE AuditFails /\ outer' = outer
    BY <1>3, <2>1, <2>2, <2>3, <2>8, <2>9, AuditBook DEF AuditFails
  <2>10. CASE UNCHANGED <<trail, failures>>
    <3>1. /\ Books' /\ remedy'[call.action] = {"triggered"}
          /\ \A b \in Ids \ {call.action} : remedy'[b] = remedy[b]
      BY <1>3, <2>1, <2>2, <2>3, <2>10, RemedyStays
    <3>2. \A a \in Ids : Pending(a)' => a = call.action
      BY <2>1, <2>8, <2>10, <3>1 DEF Pending
    <3>3. CASE Suspend([Idle EXCEPT !.tool = "recover", !.at = "recoverLook"], "waiting")
      BY <1>3, <2>1, <2>2, <2>10, <3>1, <3>2, <3>3, SuspendBook DEF BookInv
    <3>4. CASE Go("remedyChoose") /\ outer' = outer
      <4>1. Same(call, call') /\ call'.v = call.v /\ call'.at = "remedyChoose"
        BY <1>2, <3>4 DEF Go, Same, CallFields
      <4>2. ~trail'[call.action].unaudited /\ reports'[call.action] \in {"partial", "failed"}
        BY <1>3, <2>1, <2>2, <2>10
      <4>3. call'.action = call.action /\ call'.v.status \in Statuses /\ outer'.at = "idle"
        BY <1>2, <2>2, <3>4, <4>1 DEF Same
      <4>4. RemedyBook(call, outer)'
        BY <1>3, <3>1, <3>2, <4>1, <4>2, <4>3
           DEF RemedyBook, Acting, Early, Middle, Late, GuardPoints, Resuming, Trying, Ids
      <4>5. call'.tool = "perform"
        BY <1>2, <2>1, <4>1 DEF Same, CallBook, Placed, Remedying
      <4>6. Placed(call)'
        BY <4>1, <4>3, <4>5 DEF Placed, Acting, Early, Middle, Late, GuardPoints, Resuming, Trying,
           Remedying, Recovering
      <4>7. CallBook(call, outer)'
        BY <4>1, <4>4, <4>6 DEF CallBook, Acting, Early, Middle, Late, GuardPoints, Resuming, Trying
      <4> QED BY <3>1, <4>7 DEF BookInv
    <3> QED BY <2>1, <2>9, <3>3, <3>4
  <2> QED BY <2>1, <2>9, <2>10
<1>5. CASE RemedyStop \/ RemedyRecover \/ RemedyReplay
  <2>1. call.at = "remedyChoose" /\ UNCHANGED <<records, baseline, session, reports, failures>>
    BY <1>5 DEF RemedyStop, RemedyRecover, RemedyReplay, At, stores, budgets
  <2>2. /\ outer.at = "idle" /\ remedy[call.action] = {"triggered"}
        /\ ~trail[call.action].unaudited /\ \A a \in Ids : Pending(a) => a = call.action
    BY <1>2, <2>1 DEF RemedyBook
  <2>3. CASE Stop({"stopped"}) /\ UNCHANGED <<outer, trail>>
    BY <1>3, <2>1, <2>2, <2>3, StopBook
  <2>4. CASE RemedyRecover
    <3>1. /\ UNCHANGED books
          /\ Suspend([Idle EXCEPT !.tool = "recover", !.at = "recoverLook"], "planned")
      BY <2>4 DEF RemedyRecover, stores, budgets, books
    <3>4. \A a \in Ids : Pending(a)' => a = call.action
      BY <2>2, <3>1 DEF Pending, books
    <3>2. CallBook(call, outer)'
      BY <1>3, <2>2, <3>1, <3>4, SuspendBook DEF books
    <3>3. Books'
      BY <1>3, <3>1 DEF books, Books, BookType, Entries, InOrder, BookOf, Untouched, Issued, Pointed
    <3> QED BY <3>2, <3>3 DEF BookInv
  <2>5. CASE RemedyReplay /\ Replayable
    <3>1. /\ CanIssue /\ IssueAction(NextId, ReplayedIntent) /\ remedy' = remedy
          /\ Suspend(PerformCall(NextId, ReplayedIntent, FALSE, "replay"), "planned")
          /\ Stable # {} /\ ~IsHighRisk(StableIntent)
      BY <2>5 DEF RemedyReplay, Replayable
    <3>2. /\ call' = PerformCall(NextId, ReplayedIntent, FALSE, "replay")
          /\ outer'.at = "suspended" /\ outer'.action = call.action
      BY <3>1 DEF Suspend, Idle
    <3> QED BY <1>2, <1>3, <2>1, <2>2, <3>1, <3>2, StableWasIssued, IssueBook DEF Open
  <2> QED BY <1>5, <2>3, <2>4, <2>5 DEF RemedyStop, RemedyReplay
<1>6. CASE RemedyClose
  <2>1. /\ call.at = "remedyClose" /\ UNCHANGED <<records, baseline, session, reports>>
        /\ outer' = Idle
        /\ \/ (\E e \in {"stopped", "succeeded"} : Stop({e})) /\ UNCHANGED <<trail, failures>>
           \/ AuditFails /\ remedy' = remedy
    BY <1>6 DEF RemedyClose, At
  <2>2. /\ remedy[call.action] = {"triggered"} /\ ~trail[call.action].unaudited
        /\ \A a \in Ids : Pending(a) => a = call.action
    BY <1>2, <2>1 DEF RemedyBook
  <2>3. CASE AuditFails /\ remedy' = remedy
    <3>1. remedy' = [remedy EXCEPT ![call.action] = {"triggered"}]
      BY <1>3, <2>2, <2>3 DEF Books, BookType
    <3> QED BY <1>3, <2>1, <2>2, <2>3, <3>1, AuditBook DEF AuditFails, Idle
  <2> QED BY <1>3, <2>1, <2>2, <2>3, StopBook DEF Idle
<1> QED BY <1>4, <1>5, <1>6

\* A recovery looks and relaunches.
LEMMA RecoverBook == ASSUME Kept, RecoverLook \/ RecoverLaunch \/ RecoverAfter PROVE BookInv'
<1>1. call.at \in Recovering /\ UNCHANGED books /\ outer' = outer
  BY StoresStay DEF RecoverLook, RecoverLaunch, RecoverAfter, At, Recovering
<1>2. /\ DOMAIN call = CallFields /\ CallBook(call, outer) /\ RemedyBook(call, outer)
      /\ call.v.status \in Statuses
  BY KeptShape DEF Placed
<1>3. ASSUME NEW at \in Recovering, Go(at) PROVE BookInv'
  <2>1. Same(call, call') /\ call'.v = call.v /\ call'.at = at
    BY <1>2, <1>3 DEF Go, Same, CallFields
  <2>2. CallBook(call', outer)
    BY <1>1, <1>2, <2>1
       DEF CallBook, Placed, RemedyBook, Pending, ActionBook, Acting, Early, Middle, Late, Same,
           GuardPoints, Resuming, Trying, Remedying, Recovering
  <2> QED BY <1>1, <2>2, BooksStay DEF Kept
<1>4. ASSUME NEW r, Over(r) PROVE BookInv'
  <2>1. \A a \in Ids : Pending(a)' => Open(outer, a)
    BY <1>1, <1>2 DEF RemedyBook, Pending, Open, books, Recovering
  <2>2. CallBook(call, outer)'
    BY <1>1, <1>2, <1>4, <2>1, OverBook DEF RemedyBook, Pending, books
  <2>3. Books'
    BY <1>1 DEF Kept, BookInv, books, Books, BookType, Entries, InOrder, BookOf, Untouched, Issued, Pointed
  <2> QED BY <2>2, <2>3 DEF BookInv
<1>5. Go("recoverLaunch") \/ Go("recoverAfter") \/ \E r : Over(r)
  BY DEF RecoverLook, RecoverLaunch, RecoverAfter
<1> QED BY <1>3, <1>4, <1>5 DEF Recovering

\* Nobody answers the actions of a call that dies.
LEMMA FailBook == ASSUME Kept, Fail PROVE BookInv'
<1> DEFINE unanswered == {outer.action} \cup IF call.tool = "perform" THEN {call.action} ELSE {}
<1>1. /\ UNCHANGED <<records, baseline, session, remedy, trail>> /\ failures' = failures + 1
      /\ call' = Idle /\ outer' = Idle
      /\ reports' = [a \in Ids |-> IF a \in unanswered THEN "abandoned" ELSE reports[a]]
  BY DEF Fail, stores
<1>2. /\ RemedyBook(call, outer) /\ Placed(call) /\ (Acting(call) => ActionBook(call)) /\ Books
  BY KeptShape DEF Kept, BookInv
<1>3. \A a \in Ids : a \in unanswered => Issued(a)
  <2>1. outer.action \in Ids => Issued(outer.action)
    <3>1. CASE outer = Idle
      BY <3>1, ActionAssumption DEF Idle, NoAction, Ids
    <3>2. CASE outer.at = "suspended"
      BY <1>2, <3>2 DEF RemedyBook, Pending, Books, BookOf, Untouched
    <3> QED BY <1>2, <3>1, <3>2 DEF RemedyBook, Pending, Kept, OuterInv
  <2>2. call.tool = "perform" => Issued(call.action)
    <3>1. CASE Acting(call)
      BY <1>2, <3>1 DEF ActionBook, Issued
    <3>2. CASE call.at \in {"remedyTrigger", "remedyChoose"}
      BY <1>2, <3>2 DEF RemedyBook, Pending, Books, BookOf, Untouched
    <3>3. CASE call.at = "remedyClose"
      BY <1>2, <2>1, <3>3 DEF RemedyBook, Pending
    <3> QED BY <1>2, <3>1, <3>2, <3>3 DEF Placed, Remedying
  <2> QED BY <2>1, <2>2
<1>4. \A a \in Ids : Pending(a) => a \in unanswered
  BY <1>2 DEF RemedyBook, Pending, Placed, Remedying
<1> HIDE DEF unanswered
<1>5. BookType' /\ InOrder'
  BY <1>1, <1>2 DEF Books, BookType, Entries, InOrder, Ids
<1>6. ASSUME NEW a \in Ids PROVE BookOf(a)'
  <2>1. failures \in Nat /\ reports'[a] = IF a \in unanswered THEN "abandoned" ELSE reports[a]
    BY <1>1, <1>2 DEF Books, BookType, Entries
  <2> QED BY <1>1, <1>2, <1>3, <2>1 DEF Books, BookOf, Untouched, Issued, Statuses
<1>7. (session.checkpoint # NoCheckpoint => Pointed(session.checkpoint))'
  BY <1>1, <1>2 DEF Books, Pointed, NoCheckpoint, NoAction, Blank, Ids
<1>8. \A a \in Ids : ~Pending(a)'
  BY <1>1, <1>4 DEF Pending
<1>9. CallBook(call, outer)'
  BY <1>1, <1>8, IdleBook DEF Idle
<1> QED BY <1>5, <1>6, <1>7, <1>9 DEF BookInv, Books, Ids

-----------------------------------------------------------------------------
\* Only a remediation suspends an action.
LEMMA StepOuter == OuterInv /\ [Next]_vars => OuterInv'
<1> SUFFICES ASSUME OuterInv, [Next]_vars PROVE OuterInv'
  OBVIOUS
<1>1. outer' = outer \/ outer' = Idle \/ \E c, path : Suspend(c, path)
  <2>1. CASE Client
    BY <2>1 DEF Client, Perform, ResolveInterruption, ResumeInterruptedAction, RecoverToKnownState,
       ReplayLastStablePath, StartCall
  <2>2. CASE Work
    BY <2>2 DEF Work, GuardLook, GuardTap, GuardVerify, GuardClose, Sense, Execute, Ocr, OcrTap,
       OcrVerify, Look, RereadScreen, RefreshScreen, RecordBaseline, PersistRecord, ResumeLook,
       ResumeExec, ResumeCheck, Close, RemedyTrigger, RemedyStop, RemedyRecover, RemedyReplay,
       RemedyClose, RecoverLook, RecoverLaunch, RecoverAfter
  <2>3. CASE Drift \/ Fail \/ UNCHANGED vars
    BY <2>3 DEF Drift, Fail, vars
  <2> QED BY <2>1, <2>2, <2>3 DEF Next
<1>2. ASSUME NEW c, NEW path, Suspend(c, path) PROVE outer'.at # "idle"
  BY <1>2 DEF Suspend, Idle
<1> QED BY <1>1, <1>2 DEF OuterInv, Idle, NoVerdict

\* The invariant of the books is inductive beside those of the call and the verdict.
LEMMA StepBooks == Kept /\ [Next]_vars => BookInv'
<1> SUFFICES ASSUME Kept, [Next]_vars PROVE BookInv'
  OBVIOUS
<1>1. CASE Work
  BY <1>1, GuardLookBook, GuardCloseBook, SenseBook, ExecuteBook, OcrBook, LookBook, BaselineBook,
     PersistBook, ResumeBook, CloseBook, RemedyBooks, RecoverBook DEF Work
<1>2. CASE Drift \/ UNCHANGED vars
  <2>1. UNCHANGED books /\ call' = call /\ outer' = outer
    BY <1>2 DEF Drift, vars, stores, budgets, books
  <2> QED BY <2>1, KeptShape, BooksStay DEF Kept
<1> QED BY <1>1, <1>2, ClientBook, FailBook DEF Next

\* At first there is at most the record of an earlier success.
LEMMA InitBooks == Init => BookInv /\ OuterInv
<1> SUFFICES ASSUME Init PROVE BookInv /\ OuterInv
  OBVIOUS
<1>1. PICK s \in Starts :
         /\ session = [open |-> s.open, audit |-> s.audit, profile |-> s.profile,
                       checkpoint |-> NoCheckpoint]
         /\ records = [a \in Ids |->
                         IF a = 0 /\ s.earlier # NoIntent
                         THEN [intent |-> s.earlier, outcome |-> "success", updatedAt |-> 1,
                               landed |-> s.landed]
                         ELSE NoRecord]
         /\ trail = [a \in Ids |->
                       [intent |-> IF a = 0 THEN s.earlier ELSE NoIntent,
                        done |-> a = 0 /\ s.earlier # NoIntent, taps |-> 0, cleared |-> FALSE,
                        unaudited |-> FALSE]]
  BY DEF Init
<1>2. /\ call = Idle /\ outer = Idle /\ baseline = {} /\ remedy = [a \in Ids |-> {}]
      /\ reports = [a \in Ids |-> "none"] /\ failures = 0
  BY DEF Init
<1>3. s.earlier \in AllIntents \cup {NoIntent}
  BY ActionAssumption DEF AllIntents
<1>4. BookType
  BY <1>1, <1>2, <1>3 DEF BookType, Entries, Outcomes, Statuses, Closings, NoRecord
<1>5. \A a \in Ids : BookOf(a)
  BY <1>1, <1>2 DEF BookOf, Untouched, Issued, NoRecord, Statuses
<1>6. InOrder
  BY <1>1, ActionAssumption DEF InOrder, Ids, NoRecord
<1>7. session.checkpoint = NoCheckpoint
  BY <1>1
<1>8. CallBook(call, outer)
  <2>1. call.at = "idle" /\ call.tool = "none" /\ call.v.status \in Statuses /\ outer.at = "idle"
    BY <1>2 DEF Idle, NoVerdict, Statuses
  <2> QED
    BY <1>2, <2>1 DEF CallBook, Placed, RemedyBook, Pending, Acting, Early, Middle, Late,
       GuardPoints, Resuming, Trying, Remedying, Recovering
<1> QED BY <1>2, <1>4, <1>5, <1>6, <1>7, <1>8 DEF BookInv, Books, OuterInv

\* All four invariants together.
LEMMA AlwaysKept == Spec => []Kept
<1>1. Init => Kept
  <2>1. Init => VerdictInv
    BY IdleVerdict, NoVerdictYet DEF Init, VerdictInv, CallKept, GuardPoints, Judged
  <2> QED BY <2>1, InitActs, InitBooks DEF Kept
<1>2. Kept /\ [Next]_vars => Kept'
  BY StepActs, StepVerdict, StepOuter, StepBooks DEF Kept
<1> QED BY <1>1, <1>2, PTL DEF Spec

-----------------------------------------------------------------------------
\* What the client was told of an action is what its record says.
THEOREM ReportsAreRecorded == Spec => []RecordMatchesReport
<1>1. Kept => RecordMatchesReport
  BY DEF Kept, BookInv, Books, BookOf, RecordMatchesReport
<1> QED BY <1>1, AlwaysKept, PTL

\* The baseline index only learns from actions that were executed and ended well.
THEOREM BaselineIsExplained == Spec => []BaselineExplained
<1>1. Kept => BaselineExplained
  BY DEF Kept, BookInv, Books, BookType, Entries, BookOf, BaselineExplained
<1> QED BY <1>1, AlwaysKept, PTL

\* An announced remediation of an answered call was closed by exactly one event, or by
\* none when the call missed its audit record.
THEOREM RemediationsClose == Spec => []RemediationClosed
<1>1. ASSUME Kept, ~Active, NEW a \in Ids, remedy[a] # {}, reports[a] # "abandoned"
      PROVE  /\ "triggered" \in remedy[a]
             /\ Cardinality(remedy[a]) = IF trail[a].unaudited THEN 1 ELSE 2
             /\ reports[a] \in {"partial", "failed"}
  <2>1. outer.at = "idle" /\ ~Pending(a)
    BY <1>1, KeptShape DEF Active, RemedyBook, Placed, Acting, Early, Middle, Late,
       GuardPoints, Resuming, Trying, Remedying, Recovering
  <2>2. BookOf(a) /\ remedy[a] \in Closings
    BY <1>1 DEF Kept, BookInv, Books, BookType
  <2>3. ASSUME NEW x, NEW y, x # y PROVE Cardinality({x, y}) = 2
    <3>1. IsFiniteSet({x}) /\ Cardinality({x}) = 1
      BY FS_Singleton
    <3>2. {x, y} = {x} \cup {y} /\ y \notin {x}
      BY <2>3
    <3> QED BY <3>1, <3>2, FS_AddElement
  <2>4. CASE trail[a].unaudited
    <3>1. remedy[a] = {"triggered"}
      BY <2>2, <2>4 DEF BookOf
    <3>2. Cardinality({"triggered"}) = 1
      BY FS_Singleton
    <3> QED BY <1>1, <2>2, <2>4, <3>1, <3>2 DEF BookOf
  <2>5. CASE ~trail[a].unaudited
    <3>1. remedy[a] \in {{"triggered", "stopped"}, {"triggered", "succeeded"}}
      BY <1>1, <2>1, <2>2, <2>5 DEF Pending, Closings
    <3>2. "triggered" # "stopped" /\ "triggered" # "succeeded"
      OBVIOUS
    <3>3. Cardinality(remedy[a]) = 2 /\ "triggered" \in remedy[a]
      BY <2>3, <3>1, <3>2
    <3> QED BY <1>1, <2>2, <2>5, <3>3 DEF BookOf
  <2> QED BY <2>4, <2>5
<1>2. Kept => RemediationClosed
  BY <1>1 DEF RemediationClosed
<1> QED BY <1>2, AlwaysKept, PTL

-----------------------------------------------------------------------------
\* What BoundedReplay sees of the books.
IssuedIntents == [a \in Ids |-> trail[a].intent]
OcrTaps       == [a \in Ids |-> trail[a].taps]
Executed      == {a \in Ids : trail[a].done}
ClearedFor    == {a \in Ids : trail[a].cleared}
RecordedAs    == [a \in Ids |-> records[a].outcome]
Landed        == [a \in Ids |-> records[a].landed]
ReplayStep    == [Replay!Next]_(Replay!vars)
LEMMA ReplayVars == Replay!vars = <<IssuedIntents, last, OcrTaps, Executed, ClearedFor, RecordedAs, Landed>>
BY DEF Replay!vars, IssuedIntents, OcrTaps, Executed, ClearedFor, RecordedAs, Landed

\* What leaves them alone is a stutter there.
LEMMA ReplayStutter == ASSUME UNCHANGED <<trail, last, records>> PROVE ReplayStep
<1>1. UNCHANGED <<IssuedIntents, last, OcrTaps, Executed, ClearedFor, RecordedAs, Landed>>
  BY DEF IssuedIntents, OcrTaps, Executed, ClearedFor, RecordedAs, Landed
<1> QED
  BY <1>1 DEF ReplayStep, Replay!vars, IssuedIntents, OcrTaps, Executed, ClearedFor, RecordedAs, Landed

\* So is what a remediation notes of its audit record.
LEMMA AuditStutter ==
    ASSUME Kept, call.action \in Ids, UNCHANGED <<last, records>>,
           trail' = [trail EXCEPT ![call.action].unaudited = TRUE]
    PROVE  ReplayStep
<1>1. trail \in [Ids -> Entries]
  BY DEF Kept, BookInv, Books, BookType
<1>2. \A a \in Ids : /\ trail'[a].intent = trail[a].intent /\ trail'[a].done = trail[a].done
                     /\ trail'[a].taps = trail[a].taps /\ trail'[a].cleared = trail[a].cleared
  BY <1>1 DEF Entries
<1>3. UNCHANGED <<IssuedIntents, last, OcrTaps, Executed, ClearedFor, RecordedAs, Landed>>
  BY <1>2 DEF IssuedIntents, OcrTaps, Executed, ClearedFor, RecordedAs, Landed, Ids
<1> QED
  BY <1>3 DEF ReplayStep, Replay!vars, IssuedIntents, OcrTaps, Executed, ClearedFor, RecordedAs, Landed

\* An action of BoundedReplay is a step of it.
LEMMA NextIsAStep ==
    ASSUME \/ \E a \in Ids : Replay!Clear(a)
           \/ \E a \in Ids : Replay!OcrTap(a)
           \/ \E a \in Ids : \E w \in {"act", "replay"} : Replay!Execute(a, w)
    PROVE  ReplayStep
<1>1. Replay!Next
  BY DEF Replay!Next
<1> QED BY <1>1 DEF ReplayStep

\* The replayed action is that of the highest number among the successes.
LEMMA LatestIsLastStable ==
    ASSUME Books, Stable # {}
    PROVE  Replay!Successes = Stable /\ Replay!LatestSuccess = LastStable
<1>1. Replay!Successes = Stable
  BY DEF Replay!Successes, Stable
<1>2. LastStable \in Stable /\ \A b \in Stable : records[b].updatedAt <= records[LastStable].updatedAt
  BY LastStableIsStable DEF Books
<1>3. Stable \subseteq Ids /\ Ids \subseteq Nat
  BY ActionAssumption DEF Stable, Ids
<1>4. ASSUME NEW b \in Stable PROVE b <= LastStable
  <2>1. LastStable \in Stable
    BY <1>2
  <2>2. LastStable \in Nat /\ b \in Nat
    BY <1>3, <2>1
  <2> HIDE DEF LastStable
  <2> SUFFICES ASSUME LastStable < b PROVE FALSE
    BY <2>2
  <2>3. records[LastStable].updatedAt < records[b].updatedAt
    BY <1>2, <1>3 DEF Books, InOrder, Stable
  <2>4. records[LastStable].updatedAt \in Nat /\ records[b].updatedAt \in Nat
    BY <1>2, <1>3 DEF Books, BookType, Entries
  <2> QED BY <1>2, <2>3, <2>4
<1>5. \A a \in Stable : (\A b \in Stable : b <= a) => a = LastStable
  <2> TAKE a \in Stable
  <2> HAVE \A b \in Stable : b <= a
  <2>1. a <= LastStable /\ LastStable <= a /\ a \in Nat /\ LastStable \in Nat
    BY <1>2, <1>3, <1>4
  <2> QED BY <2>1
<1>6. Replay!LatestSuccess = CHOOSE a \in Stable : \A b \in Stable : b <= a
  BY <1>1 DEF Replay!LatestSuccess
<1> QED BY <1>1, <1>2, <1>4, <1>5, <1>6

\* A new action is issued under its intent.
LEMMA IssueRefines ==
    ASSUME Kept, CanIssue, NEW i \in AllIntents, IssueAction(NextId, i), UNCHANGED <<last, records>>
    PROVE  ReplayStep
<1> DEFINE n == NextId
<1>1. n \in Ids /\ ~Issued(n)
  <2>1. NextId \in Nat /\ \A b \in Ids : Issued(b) => b < NextId
    BY NextIdIsNew DEF Kept, BookInv, Books
  <2> QED BY <2>1 DEF CanIssue
<1>2. trail' = [trail EXCEPT ![n].intent = i]
  BY DEF IssueAction
<1> HIDE DEF n
<1>3. trail \in [Ids -> Entries]
  BY DEF Kept, BookInv, Books, BookType, Entries
<1>4. /\ trail'[n].intent = i /\ trail'[n].done = trail[n].done /\ trail'[n].taps = trail[n].taps
      /\ trail'[n].cleared = trail[n].cleared /\ \A a \in Ids \ {n} : trail'[a] = trail[a]
  BY <1>1, <1>2, <1>3
<1>5. /\ IssuedIntents[n] = NoIntent /\ IssuedIntents' = [IssuedIntents EXCEPT ![n] = i]
      /\ UNCHANGED <<last, OcrTaps, Executed, ClearedFor, RecordedAs, Landed>>
  BY <1>1, <1>4 DEF IssuedIntents, OcrTaps, Executed, ClearedFor, RecordedAs, Landed, Issued, Ids
<1>6. Replay!Issue(n, i)
  BY <1>5 DEF Replay!Issue, IssuedIntents, OcrTaps, Executed, ClearedFor, RecordedAs, Landed
<1> QED BY <1>1, <1>6 DEF ReplayStep, Replay!Next

\* An interruption is cleared for an action that was issued.
LEMMA ClearRefines == ASSUME Kept, GuardClose PROVE ReplayStep
<1> DEFINE n == call.action
<1>1. UNCHANGED <<last, records>> /\ call.at = "guardClose"
  BY DEF GuardClose, At
<1>2. trail' = trail \/ (n # NoAction /\ trail' = [trail EXCEPT ![n].cleared = TRUE])
  BY DEF GuardClose
<1>3. n # NoAction => n \in Ids /\ Issued(n)
  BY <1>1, KeptShape DEF CallBook, GuardPoints
<1>4. trail \in [Ids -> Entries]
  BY DEF Kept, BookInv, Books, BookType, Entries
<1> HIDE DEF n
<1>5. CASE n # NoAction /\ trail' = [trail EXCEPT ![n].cleared = TRUE]
  <2>1. /\ trail'[n].intent = trail[n].intent /\ trail'[n].done = trail[n].done
        /\ trail'[n].taps = trail[n].taps
        /\ trail'[n].cleared /\ \A a \in Ids \ {n} : trail'[a] = trail[a]
    BY <1>3, <1>4, <1>5
  <2>2. /\ IssuedIntents[n] # NoIntent /\ ClearedFor' = ClearedFor \cup {n}
        /\ UNCHANGED <<IssuedIntents, last, OcrTaps, Executed, RecordedAs, Landed>>
    BY <1>1, <1>3, <1>5, <2>1 DEF IssuedIntents, OcrTaps, Executed, ClearedFor, RecordedAs, Landed, Issued, Ids
  <2>3. PICK m \in Ids : m = n
    BY <1>3, <1>5
  <2>4. Replay!Clear(m)
    BY <2>3, <2>2 DEF Replay!Clear, IssuedIntents, OcrTaps, Executed, ClearedFor, RecordedAs, Landed
  <2>5. \E a \in Ids : Replay!Clear(a)
    BY <2>4
  <2> QED BY <2>5, NextIsAStep
<1> QED BY <1>1, <1>2, <1>5, ReplayStutter

\* An action is executed once, as itself or as a replay of the last stable one.
LEMMA ExecuteRefines == ASSUME Kept, Execute PROVE ReplayStep
<1> DEFINE n == call.action
           why == IF call.caller = "replay" THEN "replay" ELSE "act"
<1>1. /\ records' = records /\ call.at = "execute" /\ trail' = [trail EXCEPT ![n].done = TRUE]
      /\ last' = [action |-> n, intent |-> call.intent, why |-> why]
  BY DEF Execute, At, stores
<1>2. Early(call) /\ ActionBook(call) /\ Books
  BY <1>1, KeptShape DEF Early, Acting, Kept, BookInv
<1>3. /\ n \in Ids /\ Issued(n) /\ call.intent = trail[n].intent /\ ~trail[n].done
      /\ records[n].outcome = "none"
  BY <1>1, <1>2 DEF ActionBook, Issued, Late, GuardPoints, Resuming
<1>4. why = "replay" =>
         /\ Replay!Successes # {} /\ Replay!LatestSuccess \in Ids
         /\ trail[Replay!LatestSuccess].intent \notin {i \in AllIntents : IsHighRisk(i)}
         /\ call.intent = FilledIn(trail[Replay!LatestSuccess].intent,
                                   records[Replay!LatestSuccess].landed)
  <2> SUFFICES ASSUME call.caller = "replay"
               PROVE  /\ Replay!Successes # {} /\ Replay!LatestSuccess \in Ids
                      /\ trail[Replay!LatestSuccess].intent \notin {i \in AllIntents : IsHighRisk(i)}
                      /\ call.intent = FilledIn(trail[Replay!LatestSuccess].intent,
                                                records[Replay!LatestSuccess].landed)
    OBVIOUS
  <2>1. Stable # {} /\ call.intent = ReplayedIntent /\ ~IsHighRisk(StableIntent)
    BY <1>2 DEF ActionBook
  <2>2. LastStable \in Stable
    BY <1>2, <2>1, LastStableIsStable DEF Books
  <2>3. LastStable \in Ids /\ StableIntent = trail[LastStable].intent
    BY <1>2, <2>2 DEF Stable, StableIntent, Books, BookOf
  <2>4. call.intent = FilledIn(trail[LastStable].intent, records[LastStable].landed)
    BY <2>1, <2>3 DEF ReplayedIntent
  <2>5. trail[LastStable].intent \notin {i \in AllIntents : IsHighRisk(i)}
    BY <2>1, <2>3
  <2>6. Replay!Successes = Stable /\ Replay!LatestSuccess = LastStable
    BY <1>2, <2>1, LatestIsLastStable
  <2> HIDE DEF LastStable
  <2> QED BY <2>1, <2>3, <2>4, <2>5, <2>6
<1>5. trail \in [Ids -> Entries]
  BY DEF Kept, BookInv, Books, BookType, Entries
<1> HIDE DEF n, why
<1>6. /\ trail'[n].intent = trail[n].intent /\ trail'[n].done /\ trail'[n].taps = trail[n].taps
      /\ trail'[n].cleared = trail[n].cleared /\ \A a \in Ids \ {n} : trail'[a] = trail[a]
  BY <1>1, <1>3, <1>5
<1>7. /\ IssuedIntents[n] = call.intent /\ call.intent # NoIntent /\ n \notin Executed
      /\ RecordedAs[n] = "none" /\ Executed' = Executed \cup {n}
      /\ UNCHANGED <<IssuedIntents, OcrTaps, ClearedFor, RecordedAs, Landed>>
  BY <1>1, <1>3, <1>6 DEF IssuedIntents, OcrTaps, Executed, ClearedFor, RecordedAs, Landed, Issued, Ids
<1>8. why = "replay" =>
        /\ call.intent = FilledIn(IssuedIntents[Replay!LatestSuccess], Landed[Replay!LatestSuccess])
        /\ IssuedIntents[Replay!LatestSuccess] \notin {i \in AllIntents : IsHighRisk(i)}
  BY <1>4 DEF IssuedIntents, Landed
<1>9. why \in {"act", "replay"}
  BY DEF why
<1>10. PICK m \in Ids, w \in {"act", "replay"} : m = n /\ w = why
  BY <1>3, <1>9
<1>11. Replay!Execute(m, w)
  BY <1>10, <1>1, <1>4, <1>7, <1>8
     DEF Replay!Execute, IssuedIntents, OcrTaps, Executed, ClearedFor, RecordedAs, Landed
<1>12. \E a \in Ids : \E u \in {"act", "replay"} : Replay!Execute(a, u)
  BY <1>11
<1> QED BY <1>12, NextIsAStep

\* The fallback taps for what was executed and is not yet recorded.
LEMMA TapRefines == ASSUME Kept, OcrTap PROVE ReplayStep
<1> DEFINE n == call.action
<1>1. /\ records' = records /\ call.at = "ocrTap"
      /\ \/ UNCHANGED <<trail, last>>
         \/ /\ trail' = [trail EXCEPT ![n].taps = @ + 1]
            /\ last' = [action |-> n, intent |-> call.intent, why |-> "ocr"]
  BY DEF OcrTap, At, stores
<1>2. ActionBook(call) /\ Middle(call)
  BY <1>1, KeptShape DEF Middle, Acting, Trying
<1>3. /\ n \in Ids /\ Issued(n) /\ call.intent = trail[n].intent /\ trail[n].done /\ trail[n].taps < 2
      /\ records[n].outcome = "none"
  BY <1>1, <1>2 DEF ActionBook, Issued, Late, GuardPoints, Resuming
<1>4. trail \in [Ids -> Entries]
  BY DEF Kept, BookInv, Books, BookType, Entries
<1> HIDE DEF n
<1>5. CASE /\ trail' = [trail EXCEPT ![n].taps = @ + 1]
           /\ last' = [action |-> n, intent |-> call.intent, why |-> "ocr"]
  <2>1. /\ trail'[n].intent = trail[n].intent /\ trail'[n].done = trail[n].done
        /\ trail'[n].taps = trail[n].taps + 1
        /\ trail'[n].cleared = trail[n].cleared /\ \A a \in Ids \ {n} : trail'[a] = trail[a]
    BY <1>3, <1>4, <1>5 DEF Entries
  <2>2. /\ IssuedIntents[n] = call.intent /\ n \in Executed /\ OcrTaps[n] < 2
        /\ RecordedAs[n] = "none" /\ OcrTaps' = [OcrTaps EXCEPT ![n] = OcrTaps[n] + 1]
        /\ UNCHANGED <<IssuedIntents, Executed, ClearedFor, RecordedAs, Landed>>
    BY <1>1, <1>3, <2>1 DEF IssuedIntents, OcrTaps, Executed, ClearedFor, RecordedAs, Landed, Issued, Ids
  <2>3. PICK m \in Ids : m = n
    BY <1>3
  <2>4. Replay!OcrTap(m)
    BY <2>3, <1>5, <2>2 DEF Replay!OcrTap, IssuedIntents, OcrTaps, Executed, ClearedFor, RecordedAs, Landed
  <2>5. \E a \in Ids : Replay!OcrTap(a)
    BY <2>4
  <2> QED BY <2>5, NextIsAStep
<1> QED BY <1>1, <1>5, ReplayStutter

\* What is resumed was cleared.
LEMMA ResumeRefines == ASSUME Kept, ResumeExec PROVE ReplayStep
<1> DEFINE n == call.action
<1>1. /\ UNCHANGED <<records, trail>> /\ call.at = "resumeExec"
      /\ last' = [action |-> n, intent |-> call.intent, why |-> "resume"]
  BY DEF ResumeExec, At, stores
<1>2. n \in Ids /\ trail[n].cleared /\ call.intent \in {trail[n].intent, Blank}
  BY <1>1, KeptShape DEF CallBook, Pointed, Resuming
<1>3. trail[n].intent \in AllIntents
  <2>1. BookOf(n) /\ trail[n].intent \in AllIntents \cup {NoIntent}
    BY <1>2 DEF Kept, BookInv, Books, BookType, Entries
  <2> QED BY <1>2, <2>1 DEF BookOf, Untouched, Issued
<1> HIDE DEF n
<1>4. /\ n \in ClearedFor /\ call.intent \in {IssuedIntents[n], Blank}
      /\ UNCHANGED <<IssuedIntents, OcrTaps, Executed, ClearedFor, RecordedAs, Landed>>
  BY <1>1, <1>2 DEF IssuedIntents, OcrTaps, Executed, ClearedFor, RecordedAs, Landed
<1>5. Replay!Repeat(n, call.intent)
  BY <1>1, <1>4 DEF Replay!Repeat, IssuedIntents, OcrTaps, Executed, ClearedFor, RecordedAs, Landed
<1>6. call.intent \in AllIntents \cup {Blank}
  BY <1>2, <1>3
<1> QED BY <1>2, <1>5, <1>6 DEF ReplayStep, Replay!Next

\* An outcome is recorded once, and then only lowered.
LEMMA RecordRefines == ASSUME Kept, PersistRecord \/ Close PROVE ReplayStep
<1> DEFINE n == call.action
<1>1. UNCHANGED <<trail, last>>
  BY DEF PersistRecord, Close
<1>2. ActionBook(call) /\ call.v.status \in Statuses /\ Books /\ (At("record") => ~Late(call))
  <2>1. call.at \in {"record", "close"}
    BY DEF PersistRecord, Close, At
  <2> QED BY <2>1, KeptShape DEF Acting, Late, Placed, Kept, BookInv, At, GuardPoints, Resuming
<1>3. n \in Ids /\ Issued(n)
  BY <1>2 DEF ActionBook, Issued
<1>4. \/ records' = records
      \/ \E o \in Statuses : \E page :
            /\ WriteRecord(n, call.intent, o, page)
            /\ records[n].outcome = "none" \/ (o = "failed" /\ page = records[n].landed)
  BY <1>2 DEF PersistRecord, Close, Statuses, ActionBook
<1> HIDE DEF n
<1>5. ASSUME NEW o \in Statuses, NEW page, WriteRecord(n, call.intent, o, page),
             records[n].outcome = "none" \/ (o = "failed" /\ page = records[n].landed)
      PROVE  ReplayStep
  <2>1. /\ records'[n].outcome = o /\ records'[n].landed = page
        /\ \A a \in Ids \ {n} : records'[a] = records[a]
    BY <1>2, <1>3, <1>5 DEF WriteRecord, Books, BookType
  <2>2. /\ IssuedIntents[n] # NoIntent /\ (RecordedAs[n] = "none" \/ o = "failed")
        /\ RecordedAs' = [RecordedAs EXCEPT ![n] = o]
        /\ UNCHANGED <<IssuedIntents, last, OcrTaps, Executed, ClearedFor>>
    BY <1>1, <1>3, <1>5, <2>1
       DEF IssuedIntents, OcrTaps, Executed, ClearedFor, RecordedAs, Issued, Ids
  <2>3. Landed' = [Landed EXCEPT ![n] = IF RecordedAs[n] = "none" THEN Landed'[n] ELSE Landed[n]]
    BY <1>3, <1>5, <2>1 DEF Landed, RecordedAs, Ids
  <2>4. Replay!Record(n, o)
    BY <2>2, <2>3 DEF Replay!Record, IssuedIntents, OcrTaps, Executed, ClearedFor, RecordedAs, Landed
  <2> QED BY <1>3, <2>4 DEF ReplayStep, Replay!Next, Statuses
<1> QED BY <1>1, <1>4, <1>5, ReplayStutter

\* Every step is one of BoundedReplay or a stutter.
LEMMA StepRefines == Kept /\ [Next]_vars => ReplayStep
<1> SUFFICES ASSUME Kept, [Next]_vars PROVE ReplayStep
  OBVIOUS
<1>1. ASSUME NEW i \in Intents, NEW remediate \in BOOLEAN, Perform(i, remediate) PROVE ReplayStep
  BY <1>1, IssueRefines DEF Perform, StartCall, AllIntents
<1>2. CASE ReplayLastStablePath
  BY <1>2, StableWasIssued, IssueRefines
     DEF ReplayLastStablePath, Replayable, StartCall, Kept, BookInv
<1>3. CASE RemedyReplay /\ Replayable
  BY <1>3, StableWasIssued, IssueRefines DEF RemedyReplay, Replayable, Kept, BookInv
<1>4. CASE RemedyReplay /\ ~Replayable
  BY <1>4, ReplayStutter DEF RemedyReplay
<1>5. CASE \/ \E a \in 1..NoAction : ResolveInterruption(a)
           \/ ResumeInterruptedAction \/ RecoverToKnownState
  BY <1>5, ReplayStutter
     DEF ResolveInterruption, ResumeInterruptedAction, RecoverToKnownState, StartCall
<1>6. CASE \/ GuardLook \/ GuardTap \/ GuardVerify \/ Sense \/ Ocr \/ OcrVerify \/ Look
           \/ RereadScreen \/ RefreshScreen \/ RecordBaseline \/ ResumeLook \/ ResumeCheck
  BY <1>6, ReplayStutter
     DEF GuardLook, GuardTap, GuardVerify, Sense, Ocr, OcrVerify, Look, RereadScreen, RefreshScreen,
         RecordBaseline, ResumeLook, ResumeCheck, KeepStores, stores
<1>7. CASE \/ RemedyStop \/ RemedyRecover
           \/ RecoverLook \/ RecoverLaunch \/ RecoverAfter \/ Drift \/ Fail \/ UNCHANGED vars
  BY <1>7, ReplayStutter
     DEF RemedyStop, RemedyRecover, RecoverLook, RecoverLaunch,
         RecoverAfter, Drift, Fail, KeepStores, stores, vars
<1>8. CASE RemedyTrigger \/ RemedyClose
  <2>1. UNCHANGED <<last, records>> /\ (trail' = trail \/ AuditFails)
    BY <1>8 DEF RemedyTrigger, RemedyClose
  <2>2. call.action \in Ids
    BY <1>8, KeptShape DEF RemedyTrigger, RemedyClose, At, RemedyBook
  <2> QED BY <2>1, <2>2, ReplayStutter, AuditStutter DEF AuditFails
<1> QED
  BY <1>1, <1>2, <1>3, <1>4, <1>5, <1>6, <1>7, <1>8, ClearRefines, ExecuteRefines, TapRefines,
     ResumeRefines, RecordRefines DEF Next, Client, Work

\* The tools repeat an action only as far as BoundedReplay allows: executed once, tapped
\* for at most twice more, resumed only when cleared, replayed only from the latest success.
THEOREM ReplaysAreBounded == Spec => RepeatsAreBounded
<1>1. Init => Replay!Init
  <2> SUFFICES ASSUME Init PROVE Replay!Init
    OBVIOUS
  <2>1. \A a \in Ids : trail[a].taps = 0 /\ trail[a].cleared = FALSE
    BY DEF Init
  <2>2. \A a \in Ids : records[a].outcome # "none" => trail[a].intent # NoIntent
    BY InitBooks DEF BookInv, Books, BookOf, Untouched, Issued
  <2> QED BY <2>1, <2>2 DEF Replay!Init
<1>2. ReplayStep <=> [Replay!Next]_(Replay!vars)
  BY DEF ReplayStep
<1> QED BY <1>1, <1>2, AlwaysKept, StepRefines, PTL DEF Spec, RepeatsAreBounded, Replay!Spec
=============================================================================
