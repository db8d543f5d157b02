------------------------- MODULE SessionOrchestration -------------------------
(***************************************************************************)
(* The life of a session: start_session, end_session and every other tool  *)
(* behind withSessionExecution and runExclusive, on top of the lease files *)
(* (DeviceLease), the session records (SessionRecordOps) and the session   *)
(* lock of session-scheduler.ts.                                           *)
(*                                                                         *)
(* A process is one tool call under way: a request of the SDK server, or   *)
(* of another server or dev-cli on the same repository.  One process alone *)
(* is the line-by-line stdio server.  Every await is a step boundary: a    *)
(* record is loaded in one step and written in a later one, and a lease    *)
(* call runs in the steps of DeviceLease between its Call and its Return.  *)
(***************************************************************************)
EXTENDS Integers, SessionRecordOps

CONSTANTS
    Session, Device, Proc, None,
    MaxAttempts, StaleAfter, MaxTime, Failures, \* as in DeviceLease
    LockAttempts,   \* mkdir attempts on a session lock before acquireSessionLock gives up (300)
    Handlers,       \* the tools a run considers, of "start", "end" and "tool"
    Noted           \* the timeline events a run keeps apart; others leave no trace

ASSUME OrchestrationAssumption ==
    /\ LockAttempts \in Nat \ {0}
    /\ Handlers \subseteq {"start", "end", "tool"}

VARIABLES
    now, lease, leaseLock, pc, op, sess, dev, tries, copy,  \* DeviceLease
    asOf, unlisted, stale, recovered, outcome,
    record,         \* session -> its record, or NoRecord
    sessionLock,    \* artifacts/scheduler/.locks/<session>.lock exists
    at,             \* process -> the point its tool call has reached
    mySession, myDevice,  \* process -> session and device of its tool call
    noting,         \* process -> the session whose stale lease is being noted
    draft,          \* process -> the record it is about to write
    waits,          \* process -> mkdir attempts on the session lock already made
    toNote          \* process -> sessions whose stale lease is still to be noted

files == <<now, lease, leaseLock>>
calls == <<pc, op, sess, dev, tries, copy, asOf, unlisted, stale, recovered, outcome>>
args == <<mySession, myDevice, noting>>
tool == <<at, args, draft, waits, toNote>>
vars == <<files, calls, record, sessionLock, tool>>

IsOpen(r) == r # NoRecord /\ ~r.closed

\* Of a record acquireLease sees only whether it is open.
Lease == INSTANCE DeviceLease WITH
            open <- [s \in Session |-> record[s] # NoRecord /\ ~record[s].closed]

ASSUME LeaseConstants ==
    /\ MaxAttempts \in Nat \ {0}
    /\ StaleAfter \in Nat
    /\ MaxTime \in Nat
    /\ Failures \subseteq Lease!FailureKinds
    /\ None \notin Session \cup Device \cup Lease!Lease

Init ==
    /\ record = [s \in Session |-> NoRecord]
    /\ Lease!Init
    /\ sessionLock = [s \in Session |-> FALSE]
    /\ at = [p \in Proc |-> "idle"]
    /\ mySession = [p \in Proc |-> None]
    /\ myDevice = [p \in Proc |-> None]
    /\ noting = [p \in Proc |-> None]
    /\ draft = [p \in Proc |-> NoRecord]
    /\ waits = [p \in Proc |-> 0]
    /\ toNote = [p \in Proc |-> {}]

-----------------------------------------------------------------------------
(* Steps that all tools are made of *)

GoTo(p, point) == at' = [at EXCEPT ![p] = point]

\* The tool call is over: answered, refused or thrown.
Done(p) ==
    /\ GoTo(p, "idle")
    /\ mySession' = [mySession EXCEPT ![p] = None]
    /\ myDevice' = [myDevice EXCEPT ![p] = None]
    /\ noting' = [noting EXCEPT ![p] = None]
    /\ draft' = [draft EXCEPT ![p] = NoRecord]
    /\ waits' = [waits EXCEPT ![p] = 0]
    /\ toNote' = [toNote EXCEPT ![p] = {}]

\* From `point` the tool enters lease call o and waits for it at `next`.
CallLease(p, o, point, next) ==
    /\ at[p] \in point
    /\ UNCHANGED record
    /\ Lease!Call(p, o, mySession[p], myDevice[p])
    /\ GoTo(p, next)
    /\ UNCHANGED <<sessionLock, args, draft, waits, toNote>>

\* The lease call is over: the tool goes on at `next`, or at `failed` if the call threw.
LeaseReturns(p, point, next, failed) ==
    /\ at[p] = point
    /\ UNCHANGED record
    /\ Lease!Return(p)
    /\ LET goal == IF outcome[p] = "error" THEN failed ELSE next
       IN IF goal = "idle" THEN Done(p)
          ELSE GoTo(p, goal) /\ UNCHANGED <<args, draft, waits, toNote>>
    /\ UNCHANGED sessionLock

\* First half of appendSessionTimelineEvent and persistSessionState for session s; a
\* session without a record stays without one.
LoadForAppend(p, s, event, point, write, skip) ==
    /\ at[p] = point
    /\ IF record[s] = NoRecord
       THEN GoTo(p, skip) /\ UNCHANGED draft
       ELSE GoTo(p, write) /\ draft' = [draft EXCEPT ![p] = AppendedRecord(record[s], event, {})]
    /\ UNCHANGED <<files, calls, record, sessionLock, waits>>

\* The rename that puts record r in the place of the old one.
WriteRecord(s, r) ==
    record' = [record EXCEPT ![s] = [r EXCEPT !.timeline = @ \cap Noted]]

\* The second half: writes what was loaded and changed, whatever the file is by now.
WriteDraft(p, s, point, next) ==
    /\ at[p] = point
    /\ WriteRecord(s, draft[p])
    /\ IF next = "idle" THEN Done(p)
       ELSE /\ GoTo(p, next)
            /\ draft' = [draft EXCEPT ![p] = NoRecord]
            /\ UNCHANGED <<args, waits, toNote>>
    /\ UNCHANGED <<files, calls, sessionLock>>

-----------------------------------------------------------------------------
(* start_session *)

\* A session that is open is answered, or refused for another device, without a write.
StartSession(p, s, d) ==
    /\ "start" \in Handlers
    /\ at[p] = "idle"
    /\ ~IsOpen(record[s])
    /\ UNCHANGED record
    /\ Lease!Call(p, "acquire", s, d)
    /\ mySession' = [mySession EXCEPT ![p] = s]
    /\ myDevice' = [myDevice EXCEPT ![p] = d]
    /\ GoTo(p, "startAcquire")
    /\ UNCHANGED <<sessionLock, noting, draft, waits, toNote>>

\* Mutant: a busy device is not noticed.
StartAcquiredAnyway(p) == LeaseReturns(p, "startAcquire", "startPersist", "idle")

\* A busy device refuses the session; an error is thrown on.
StartAcquired(p) ==
    LeaseReturns(p, "startAcquire", IF outcome[p] = "busy" THEN "idle" ELSE "startPersist", "idle")

\* persistStartedSession writes the new record over whatever is there.
StartPersist(p) ==
    /\ at[p] = "startPersist"
    /\ WriteRecord(mySession[p], StartedRecord(myDevice[p]))
    /\ Done(p)
    /\ UNCHANGED <<files, calls, sessionLock>>

\* The write throws: the lease is released, and an error of that is swallowed.
StartUndo(p) ==
    /\ "io" \in Failures
    /\ CallLease(p, "release", {"startPersist"}, "startUndo")

StartUndone(p) == LeaseReturns(p, "startUndo", "idle", "idle")

-----------------------------------------------------------------------------
(* end_session *)

\* Reads which device the session has.
EndSession(p, s) ==
    /\ "end" \in Handlers
    /\ at[p] = "idle"
    /\ mySession' = [mySession EXCEPT ![p] = s]
    /\ myDevice' = [myDevice EXCEPT ![p] = IF record[s] = NoRecord THEN None ELSE record[s].device]
    /\ GoTo(p, "endRead")
    /\ UNCHANGED <<files, calls, record, sessionLock, noting, draft, waits, toNote>>

\* persistEndedSession reads the record again; one that is missing or closed is not written.
EndRead(p) ==
    /\ at[p] = "endRead"
    /\ LET r == record[mySession[p]]
       IN IF IsOpen(r)
          THEN GoTo(p, "endWrite") /\ draft' = [draft EXCEPT ![p] = EndedRecord(r, {})]
          ELSE GoTo(p, "endClosed") /\ UNCHANGED draft
    /\ UNCHANGED <<files, calls, record, sessionLock, args, waits, toNote>>

EndWrite(p) == WriteDraft(p, mySession[p], "endWrite", "endClosed")

\* Without a record at the first read there is no lease to release.
EndUnknown(p) ==
    /\ at[p] = "endClosed"
    /\ myDevice[p] = None
    /\ Done(p)
    /\ UNCHANGED <<files, calls, record, sessionLock>>

EndRelease(p) ==
    /\ myDevice[p] # None
    /\ CallLease(p, "release", {"endClosed"}, "endRelease")

\* Only a lease that was really removed is noted.
EndReleased(p) ==
    LeaseReturns(p, "endRelease", IF outcome[p] = "released" THEN "endNote" ELSE "idle", "idle")

EndNote(p) ==
    /\ LoadForAppend(p, mySession[p], "lease_released", "endNote", "endNoteWrite", "answer")
    /\ UNCHANGED <<args, toNote>>

EndNoteWrite(p) == WriteDraft(p, mySession[p], "endNoteWrite", "idle")

-----------------------------------------------------------------------------
(* withSessionExecution: what happens before the task *)

\* A tool is called for session s, named by the caller or picked for it.
ToolCall(p, s) ==
    /\ "tool" \in Handlers
    /\ at[p] = "idle"
    /\ UNCHANGED record
    /\ Lease!CallRecover(p)
    /\ mySession' = [mySession EXCEPT ![p] = s]
    /\ GoTo(p, "recover")
    /\ UNCHANGED <<sessionLock, myDevice, noting, draft, waits, toNote>>

\* A tool that needs no session is not wrapped; it may be given one for its evidence.
BareToolCall(p, s) ==
    /\ "tool" \in Handlers
    /\ at[p] = "idle"
    /\ mySession' = [mySession EXCEPT ![p] = s]
    /\ GoTo(p, "bare")
    /\ UNCHANGED <<files, calls, record, sessionLock, myDevice, noting, draft, waits, toNote>>

\* The leases of all devices have been swept; their owners get a note each.
Recovered(p) ==
    /\ at[p] = "recover"
    /\ UNCHANGED record
    /\ Lease!Return(p)
    /\ IF outcome[p] = "error"
       THEN Done(p)
       ELSE /\ GoTo(p, "note")
            /\ toNote' = [toNote EXCEPT ![p] = recovered[p]]
            /\ UNCHANGED <<args, draft, waits>>
    /\ UNCHANGED sessionLock

Note(p) ==
    \E s \in toNote[p] :
        /\ LoadForAppend(p, s, "lease_recovered_stale", "note", "noteWrite", "note")
        /\ toNote' = [toNote EXCEPT ![p] = @ \ {s}]
        /\ noting' = [noting EXCEPT ![p] = s]
        /\ UNCHANGED <<mySession, myDevice>>

NoteWrite(p) == WriteDraft(p, noting[p], "noteWrite", "note")

\* Mutant: a closed session counts as an open one.
ResolveClosed(p) ==
    /\ at[p] = "note"
    /\ toNote[p] = {}
    /\ record[mySession[p]] # NoRecord
    /\ GoTo(p, "queued")
    /\ myDevice' = [myDevice EXCEPT ![p] = record[mySession[p]].device]
    /\ noting' = [noting EXCEPT ![p] = None]
    /\ UNCHANGED <<files, calls, record, sessionLock, mySession, draft, waits, toNote>>

\* The session decides: an open one runs the tool exclusively, with any other the tool
\* runs bare.  A context that is missing or does not match the session refuses the call.
Resolve(p) ==
    /\ at[p] = "note"
    /\ toNote[p] = {}
    /\ \/ Done(p)
       \/ LET r == record[mySession[p]]
          IN /\ IF IsOpen(r)
                THEN /\ GoTo(p, "queued")
                     /\ myDevice' = [myDevice EXCEPT ![p] = r.device]
                ELSE GoTo(p, "bare") /\ UNCHANGED myDevice
             /\ noting' = [noting EXCEPT ![p] = None]
             /\ UNCHANGED <<mySession, draft, waits, toNote>>
    /\ UNCHANGED <<files, calls, record, sessionLock>>

-----------------------------------------------------------------------------
(* runExclusive *)

\* The wait is announced before the lock is asked for.
Queue(p) ==
    /\ LoadForAppend(p, mySession[p], "queue_wait_started", "queued", "queuedWrite", "wait")
    /\ UNCHANGED <<args, toNote>>

QueueWrite(p) == WriteDraft(p, mySession[p], "queuedWrite", "wait")

\* Mutant: mkdir with recursive: true, which accepts a directory that exists.
TakeSessionLockRecursive(p) ==
    /\ at[p] = "wait"
    /\ sessionLock' = [sessionLock EXCEPT ![mySession[p]] = TRUE]
    /\ waits' = [waits EXCEPT ![p] = 0]
    /\ GoTo(p, "dequeued")
    /\ UNCHANGED <<files, calls, record, args, draft, toNote>>

\* acquireSessionLock: mkdir succeeds.
TakeSessionLock(p) ==
    /\ at[p] = "wait"
    /\ ~sessionLock[mySession[p]]
    /\ sessionLock' = [sessionLock EXCEPT ![mySession[p]] = TRUE]
    /\ waits' = [waits EXCEPT ![p] = 0]
    /\ GoTo(p, "dequeued")
    /\ UNCHANGED <<files, calls, record, args, draft, toNote>>

\* Mutant: the wait for the lock has no bound.
SessionLockTakenForever(p) ==
    /\ at[p] = "wait"
    /\ sessionLock[mySession[p]]
    /\ UNCHANGED vars

\* mkdir fails with EEXIST: sleep and try again, or throw after LockAttempts.
SessionLockTaken(p) ==
    /\ at[p] = "wait"
    /\ sessionLock[mySession[p]]
    /\ IF waits[p] + 1 < LockAttempts
       THEN waits' = [waits EXCEPT ![p] = @ + 1] /\ UNCHANGED <<at, args, draft, toNote>>
       ELSE Done(p)
    /\ UNCHANGED <<files, calls, record, sessionLock>>

Dequeue(p) ==
    /\ LoadForAppend(p, mySession[p], "queue_wait_ended", "dequeued", "dequeuedWrite", "markBusy")
    /\ UNCHANGED <<args, toNote>>

DequeueWrite(p) == WriteDraft(p, mySession[p], "dequeuedWrite", "markBusy")

\* markBusy runs before the try block: if it throws, the session lock is not released.
\* That it may have updated nothing is ignored.
MarkBusy(p) == CallLease(p, "markBusy", {"markBusy"}, "busy")
MarkedBusy(p) == LeaseReturns(p, "busy", "heartbeat", "idle")

Heartbeat(p) == CallLease(p, "refreshHeartbeat", {"heartbeat"}, "beating")
HeartbeatDone(p) == LeaseReturns(p, "beating", "task", "finally")

\* The handler runs.  Of all it does, the record sees its evidence (one write per task).
TaskEvidence(p) ==
    /\ LoadForAppend(p, mySession[p], "evidence", "task", "taskWrite", "finally")
    /\ UNCHANGED <<args, toNote>>

TaskEvidenceWrite(p) == WriteDraft(p, mySession[p], "taskWrite", "finally")

\* The handler returns or throws: markIdle, then the lock is released.  If markIdle
\* throws, it is not.
MarkIdle(p) == CallLease(p, "markIdle", {"task", "finally"}, "idling")
MarkedIdle(p) == LeaseReturns(p, "idling", "unlock", "idle")

SessionUnlock(p) ==
    /\ at[p] = "unlock"
    /\ \/ sessionLock' = [sessionLock EXCEPT ![mySession[p]] = FALSE]
       \/ "rm" \in Failures /\ UNCHANGED sessionLock
    /\ Done(p)
    /\ UNCHANGED <<files, calls, record>>

\* A tool that needs no session, or whose session is not open, runs without lock and
\* lease; its evidence is written all the same.
BareEvidence(p) ==
    /\ LoadForAppend(p, mySession[p], "evidence", "bare", "bareWrite", "answer")
    /\ UNCHANGED <<args, toNote>>

BareEvidenceWrite(p) == WriteDraft(p, mySession[p], "bareWrite", "answer")

Answer(p) ==
    /\ at[p] \in {"bare", "answer"}
    /\ Done(p)
    /\ UNCHANGED <<files, calls, record, sessionLock>>

-----------------------------------------------------------------------------
(* Failures and the next-state relation *)

\* A file-system call of the tool itself throws.  Inside the try block of runExclusive
\* the finally block runs; everywhere else the error leaves the tool as it is.
Throw(p) ==
    /\ "io" \in Failures
    /\ \/ /\ at[p] \in {"endRead", "endWrite", "endNote", "endNoteWrite", "note", "noteWrite", "queued",
                        "queuedWrite", "wait", "dequeued", "dequeuedWrite", "bare", "bareWrite"}
          /\ Done(p)
       \/ /\ at[p] = "taskWrite"
          /\ GoTo(p, "finally")
          /\ draft' = [draft EXCEPT ![p] = NoRecord]
          /\ UNCHANGED <<args, waits, toNote>>
    /\ UNCHANGED <<files, calls, record, sessionLock>>

\* Mutant: the restart of a process removes the lock directories.
CrashCleansUp(p) ==
    /\ "crash" \in Failures
    /\ at[p] # "idle"
    /\ leaseLock' = [d \in Device |-> FALSE]
    /\ sessionLock' = [s \in Session |-> FALSE]
    /\ UNCHANGED <<now, lease, record>>
    /\ Lease!Forget(p)
    /\ Done(p)

\* The process dies, with or without a lease call; its lock directories stay.
Crash(p) ==
    /\ "crash" \in Failures
    /\ at[p] # "idle"
    /\ UNCHANGED <<record, sessionLock>>
    /\ \/ Lease!Crash(p)
       \/ pc[p] = "idle" /\ UNCHANGED <<files, calls>>
    /\ Done(p)

\* A step of the lease call that the tool waits for.
LeaseStep(p) ==
    /\ UNCHANGED record
    /\ Lease!Step(p)
    /\ UNCHANGED <<sessionLock, tool>>

LeaseError(p) ==
    /\ UNCHANGED record
    /\ Lease!IoError(p)
    /\ UNCHANGED <<sessionLock, tool>>

Tick ==
    /\ UNCHANGED record
    /\ Lease!Tick
    /\ UNCHANGED <<sessionLock, tool>>

\* One step of a tool call under way, failures apart.
Step(p) ==
    \/ LeaseStep(p)
    \/ StartAcquired(p) \/ StartPersist(p) \/ StartUndone(p)
    \/ EndRead(p) \/ EndWrite(p) \/ EndUnknown(p) \/ EndRelease(p) \/ EndReleased(p)
    \/ EndNote(p) \/ EndNoteWrite(p)
    \/ Recovered(p) \/ Note(p) \/ NoteWrite(p) \/ Resolve(p)
    \/ Queue(p) \/ QueueWrite(p) \/ TakeSessionLock(p) \/ SessionLockTaken(p)
    \/ Dequeue(p) \/ DequeueWrite(p) \/ MarkBusy(p) \/ MarkedBusy(p)
    \/ Heartbeat(p) \/ HeartbeatDone(p) \/ TaskEvidence(p) \/ TaskEvidenceWrite(p)
    \/ MarkIdle(p) \/ MarkedIdle(p) \/ SessionUnlock(p)
    \/ BareEvidence(p) \/ BareEvidenceWrite(p) \/ Answer(p)

Next ==
    \/ \E p \in Proc :
          \/ \E s \in Session, d \in Device : StartSession(p, s, d)
          \/ \E s \in Session : EndSession(p, s) \/ ToolCall(p, s) \/ BareToolCall(p, s)
          \/ Step(p)
          \/ LeaseError(p) \/ StartUndo(p) \/ Throw(p) \/ Crash(p)
    \/ Tick

Spec == Init /\ [][Next]_vars

\* The event loop of a process drives its tool call on, and handlers end.  Nothing is
\* said of failures: no call is rescued by one.
FairSpec == Spec /\ \A p \in Proc : WF_vars(Step(p))

-----------------------------------------------------------------------------
(* Properties *)

\* Between mkdir and rm of the session lock.
Exclusive == {"dequeued", "dequeuedWrite", "markBusy", "busy", "heartbeat", "beating",
              "task", "taskWrite", "finally", "idling", "unlock"}
Tasks == {"task", "taskWrite"}
Points == Exclusive \cup Tasks \cup
          {"idle", "startAcquire", "startPersist", "startUndo", "endRead", "endWrite", "endClosed",
           "endRelease", "endNote", "endNoteWrite", "recover", "note", "noteWrite", "queued",
           "queuedWrite", "wait", "bare", "bareWrite", "answer"}

\* The tools of one session run one at a time, in whatever process they were called and
\* whatever failed before (session-scheduler.ts:55-96).
OneTaskPerSession ==
    \A p, q \in Proc :
        at[p] \in Exclusive /\ at[q] \in Exclusive /\ mySession[p] = mySession[q] => p = q

\* Whatever the tools do, the lease files see only calls that DeviceLease allows for, so
\* everything shown of DeviceLease holds here.
LeaseSpec == Lease!Spec

\* An open session owns the lease of its device (architecture doc:46), so at most one
\* session per device is open.
OpenSessionOwnsDevice ==
    \A s \in Session :
        IsOpen(record[s]) => /\ lease[record[s].device] # None
                             /\ lease[record[s].device].owner = s

\* While the handler of a tool runs in an open session, the session owns the device.
TaskHoldsLease ==
    \A p \in Proc :
        at[p] \in Tasks => /\ lease[myDevice[p]] # None
                           /\ lease[myDevice[p]].owner = mySession[p]

\* Handlers of different calls never work on one device at the same time.
OneTaskPerDevice ==
    \A p, q \in Proc :
        at[p] \in Tasks /\ at[q] \in Tasks /\ myDevice[p] = myDevice[q] => p = q

\* Only start_session opens a session that was closed.
ClosedStaysClosed ==
    [][\A s \in Session :
          record[s] # NoRecord /\ record[s].closed /\ ~record'[s].closed =>
              \E p \in Proc : at[p] = "startPersist" /\ mySession[p] = s]_record

\* Evidence once in the timeline of an open session stays there until the session is started again.
EvidenceIsKept ==
    [][\A s \in Session :
          record[s] # NoRecord /\ "evidence" \in record[s].timeline =>
              \/ "evidence" \in record'[s].timeline
              \/ \E p \in Proc : at[p] = "startPersist" /\ mySession[p] = s]_record

\* Every tool call is answered or throws: every wait is bounded.
CallsEnd == \A p \in Proc : at[p] # "idle" ~> at[p] = "idle"
=============================================================================
