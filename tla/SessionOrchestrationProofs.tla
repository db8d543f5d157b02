---------------------- MODULE SessionOrchestrationProofs ----------------------
(***************************************************************************)
(* Proofs about SessionOrchestration.  The session lock excludes, for any  *)
(* number of sessions, devices and tool calls and whatever fails: a tool   *)
(* call is between mkdir and rm only while the directory exists, and       *)
(* nothing but its own SessionUnlock removes it.  What the lease calls and *)
(* the records do plays no part, so their actions stay unexpanded.  In the *)
(* second part, the refinement of DeviceLease.  In the third, what one     *)
(* call at a time makes sure of: the records lose nothing, and open        *)
(* sessions own their devices.                                             *)
(***************************************************************************)
EXTENDS SessionOrchestration, TLAPS

\* The types that the proof needs: a call under way has a session.
CallOK ==
    /\ at \in [Proc -> Points]
    /\ mySession \in [Proc -> Session \cup {None}]
    /\ sessionLock \in [Session -> BOOLEAN]
    /\ \A p \in Proc : at[p] # "idle" => mySession[p] \in Session

\* A tool call inside runExclusive has the lock directory of its session.
SessionLockHeld == \A p \in Proc : at[p] \in Exclusive => sessionLock[mySession[p]]

ExclusionInv == CallOK /\ SessionLockHeld /\ OneTaskPerSession

\* A call moves on, into the exclusive part only from within it, and touches no lock.
LEMMA MoveOn ==
    ASSUME ExclusionInv, NEW p \in Proc, NEW x \in Points, at[p] # "idle",
           at' = [at EXCEPT ![p] = x], x \in Exclusive => at[p] \in Exclusive,
           UNCHANGED <<mySession, sessionLock>>
    PROVE  ExclusionInv'
<1>1. CallOK'
  BY DEF ExclusionInv, CallOK
<1>2. \A q \in Proc : at'[q] \in Exclusive => at[q] \in Exclusive
  BY DEF ExclusionInv, CallOK
<1>3. SessionLockHeld' /\ OneTaskPerSession'
  BY <1>2 DEF ExclusionInv, SessionLockHeld, OneTaskPerSession
<1> QED
  BY <1>1, <1>3 DEF ExclusionInv

\* A call that ends without touching a lock.
LEMMA EndOn ==
    ASSUME ExclusionInv, NEW p \in Proc, Done(p), UNCHANGED sessionLock
    PROVE  ExclusionInv'
<1>1. CallOK'
  BY DEF ExclusionInv, CallOK, Done, GoTo, Points
<1>2. \A q \in Proc : at'[q] \in Exclusive => at[q] \in Exclusive /\ mySession'[q] = mySession[q]
  BY DEF ExclusionInv, CallOK, Done, GoTo, Exclusive
<1>3. SessionLockHeld' /\ OneTaskPerSession'
  BY <1>2 DEF ExclusionInv, SessionLockHeld, OneTaskPerSession
<1> QED
  BY <1>1, <1>3 DEF ExclusionInv

\* A tool is called: it starts outside the exclusive part.
LEMMA StartOn ==
    ASSUME ExclusionInv, NEW p \in Proc, NEW s \in Session, NEW x \in Points \ Exclusive,
           at' = [at EXCEPT ![p] = x], mySession' = [mySession EXCEPT ![p] = s],
           UNCHANGED sessionLock
    PROVE  ExclusionInv'
<1>1. CallOK'
  BY DEF ExclusionInv, CallOK
<1>2. \A q \in Proc : at'[q] \in Exclusive => at[q] \in Exclusive /\ mySession'[q] = mySession[q]
  BY DEF ExclusionInv, CallOK
<1>3. SessionLockHeld' /\ OneTaskPerSession'
  BY <1>2 DEF ExclusionInv, SessionLockHeld, OneTaskPerSession
<1> QED
  BY <1>1, <1>3 DEF ExclusionInv

\* CallLease, LeaseReturns, LoadForAppend and WriteDraft move on or end.
LEMMA CallLeaseOn ==
    ASSUME ExclusionInv, NEW p \in Proc, NEW o, NEW point, NEW next \in Points,
           CallLease(p, o, point, next), "idle" \notin point,
           next \in Exclusive => point \subseteq Exclusive
    PROVE  ExclusionInv'
<1>1. at[p] # "idle" /\ (next \in Exclusive => at[p] \in Exclusive)
  BY DEF CallLease
<1>2. at' = [at EXCEPT ![p] = next] /\ UNCHANGED <<mySession, sessionLock>>
  BY DEF CallLease, GoTo, args
<1> QED
  BY <1>1, <1>2, MoveOn

LEMMA LeaseReturnsOn ==
    ASSUME ExclusionInv, NEW p \in Proc, NEW point, NEW next \in Points, NEW failed \in Points,
           LeaseReturns(p, point, next, failed), point # "idle",
           next \in Exclusive \/ failed \in Exclusive => point \in Exclusive
    PROVE  ExclusionInv'
<1> DEFINE goal == IF outcome[p] = "error" THEN failed ELSE next
<1>1. UNCHANGED sessionLock /\ at[p] = point
  BY DEF LeaseReturns
<1>2. CASE goal = "idle"
  BY <1>1, <1>2, EndOn DEF LeaseReturns
<1>3. CASE goal # "idle"
  <2>1. at' = [at EXCEPT ![p] = goal] /\ UNCHANGED mySession
    BY <1>3 DEF LeaseReturns, GoTo, args
  <2>2. goal \in Points /\ (goal \in Exclusive => point \in Exclusive)
    OBVIOUS
  <2> HIDE DEF goal
  <2> QED
    BY <1>1, <2>1, <2>2, MoveOn
<1> QED
  BY <1>2, <1>3

LEMMA LoadForAppendOn ==
    ASSUME ExclusionInv, NEW p \in Proc, NEW s, NEW event, NEW point,
           NEW write \in Points, NEW skip \in Points,
           LoadForAppend(p, s, event, point, write, skip), UNCHANGED mySession, point # "idle",
           write \in Exclusive \/ skip \in Exclusive => point \in Exclusive
    PROVE  ExclusionInv'
<1>1. UNCHANGED sessionLock /\ at[p] = point
  BY DEF LoadForAppend
<1>2. \/ at' = [at EXCEPT ![p] = write]
      \/ at' = [at EXCEPT ![p] = skip]
  BY DEF LoadForAppend, GoTo
<1> QED
  BY <1>1, <1>2, MoveOn

LEMMA WriteDraftOn ==
    ASSUME ExclusionInv, NEW p \in Proc, NEW s, NEW point, NEW next \in Points,
           WriteDraft(p, s, point, next), point # "idle",
           next \in Exclusive => point \in Exclusive
    PROVE  ExclusionInv'
<1>1. UNCHANGED sessionLock /\ at[p] = point
  BY DEF WriteDraft
<1>2. CASE next = "idle"
  BY <1>1, <1>2, EndOn DEF WriteDraft
<1>3. CASE next # "idle"
  <2>1. at' = [at EXCEPT ![p] = next] /\ UNCHANGED mySession
    BY <1>3 DEF WriteDraft, GoTo, args
  <2> QED
    BY <1>1, <2>1, MoveOn
<1> QED
  BY <1>2, <1>3

-----------------------------------------------------------------------------
(* The invariant *)

\* At first no tool call is under way.
LEMMA InitExclusion == Init => ExclusionInv
BY DEF Init, ExclusionInv, CallOK, SessionLockHeld, OneTaskPerSession, Points, Exclusive

\* Only TakeSessionLock goes in, and only with a directory that did not exist.
LEMMA TakeOn ==
    ASSUME ExclusionInv, NEW p \in Proc, TakeSessionLock(p)
    PROVE  ExclusionInv'
<1>1. at[p] = "wait" /\ mySession[p] \in Session /\ ~sessionLock[mySession[p]]
  BY DEF TakeSessionLock, ExclusionInv, CallOK
<1>2. /\ at' = [at EXCEPT ![p] = "dequeued"]
      /\ sessionLock' = [sessionLock EXCEPT ![mySession[p]] = TRUE]
      /\ UNCHANGED mySession
  BY DEF TakeSessionLock, GoTo, args
<1>3. CallOK'
  BY <1>1, <1>2 DEF ExclusionInv, CallOK, Points, Exclusive
<1>4. \A q \in Proc : at[q] \in Exclusive => mySession[q] # mySession[p] /\ mySession[q] \in Session
  BY <1>1 DEF ExclusionInv, CallOK, SessionLockHeld, Exclusive
<1>5. \A q \in Proc : at'[q] \in Exclusive => q = p \/ at[q] \in Exclusive
  BY <1>2 DEF ExclusionInv, CallOK
<1>6. SessionLockHeld' /\ OneTaskPerSession'
  BY <1>1, <1>2, <1>4, <1>5 DEF ExclusionInv, CallOK, SessionLockHeld, OneTaskPerSession
<1> QED
  BY <1>3, <1>6 DEF ExclusionInv

\* The lock that SessionUnlock removes is the one of its own session, which no other
\* call inside the exclusive part shares.
LEMMA UnlockOn ==
    ASSUME ExclusionInv, NEW p \in Proc, SessionUnlock(p)
    PROVE  ExclusionInv'
<1>1. CASE UNCHANGED sessionLock
  BY <1>1, EndOn DEF SessionUnlock
<1>2. CASE sessionLock' = [sessionLock EXCEPT ![mySession[p]] = FALSE]
  <2>1. at[p] \in Exclusive /\ at[p] # "idle" /\ mySession[p] \in Session
    BY DEF SessionUnlock, Exclusive, ExclusionInv, CallOK
  <2>2. at' = [at EXCEPT ![p] = "idle"] /\ mySession' = [mySession EXCEPT ![p] = None]
    BY DEF SessionUnlock, Done, GoTo
  <2>3. CallOK'
    BY <1>2, <2>1, <2>2 DEF ExclusionInv, CallOK, Points
  <2>4. \A q \in Proc : at'[q] \in Exclusive =>
            q # p /\ at[q] \in Exclusive /\ mySession'[q] = mySession[q]
    BY <2>2 DEF ExclusionInv, CallOK, Exclusive
  <2>5. \A q \in Proc : at'[q] \in Exclusive => mySession[q] # mySession[p] /\ mySession[q] \in Session
    BY <2>1, <2>4 DEF ExclusionInv, CallOK, OneTaskPerSession, Exclusive
  <2>6. SessionLockHeld' /\ OneTaskPerSession'
    BY <1>2, <2>1, <2>4, <2>5 DEF ExclusionInv, CallOK, SessionLockHeld, OneTaskPerSession
  <2> QED
    BY <2>3, <2>6 DEF ExclusionInv
<1> QED
  BY <1>1, <1>2 DEF SessionUnlock

\* Every action keeps the invariant: most of them by one of the lemmas above.
LEMMA StepExclusion == ExclusionInv /\ [Next]_vars => ExclusionInv'
<1> SUFFICES ASSUME ExclusionInv, [Next]_vars PROVE ExclusionInv'
  OBVIOUS
<1> USE DEF Points, Exclusive
<1>1. ASSUME NEW p \in Proc, NEW s \in Session, NEW d \in Device, StartSession(p, s, d) PROVE ExclusionInv'
  BY <1>1, StartOn DEF StartSession, GoTo
<1>2. ASSUME NEW p \in Proc, NEW s \in Session, EndSession(p, s) PROVE ExclusionInv'
  BY <1>2, StartOn DEF EndSession, GoTo
<1>3. ASSUME NEW p \in Proc, NEW s \in Session, ToolCall(p, s) PROVE ExclusionInv'
  BY <1>3, StartOn DEF ToolCall, GoTo
<1>4. ASSUME NEW p \in Proc, NEW s \in Session, BareToolCall(p, s) PROVE ExclusionInv'
  BY <1>4, StartOn DEF BareToolCall, GoTo
<1>5. ASSUME NEW p \in Proc, LeaseStep(p) PROVE ExclusionInv'
  BY <1>5 DEF LeaseStep, tool, args, ExclusionInv, CallOK, SessionLockHeld, OneTaskPerSession
<1>6. ASSUME NEW p \in Proc, LeaseError(p) PROVE ExclusionInv'
  BY <1>6 DEF LeaseError, tool, args, ExclusionInv, CallOK, SessionLockHeld, OneTaskPerSession
<1>7. ASSUME NEW p \in Proc, StartAcquired(p) PROVE ExclusionInv'
  BY <1>7, LeaseReturnsOn DEF StartAcquired
<1>8. ASSUME NEW p \in Proc, StartUndone(p) PROVE ExclusionInv'
  BY <1>8, LeaseReturnsOn DEF StartUndone
<1>9. ASSUME NEW p \in Proc, EndReleased(p) PROVE ExclusionInv'
  BY <1>9, LeaseReturnsOn DEF EndReleased
<1>10. ASSUME NEW p \in Proc, MarkedBusy(p) PROVE ExclusionInv'
  BY <1>10, LeaseReturnsOn DEF MarkedBusy
<1>11. ASSUME NEW p \in Proc, HeartbeatDone(p) PROVE ExclusionInv'
  BY <1>11, LeaseReturnsOn DEF HeartbeatDone
<1>12. ASSUME NEW p \in Proc, MarkedIdle(p) PROVE ExclusionInv'
  BY <1>12, LeaseReturnsOn DEF MarkedIdle
<1>13. ASSUME NEW p \in Proc, StartUndo(p) PROVE ExclusionInv'
  BY <1>13, CallLeaseOn DEF StartUndo
<1>14. ASSUME NEW p \in Proc, EndRelease(p) PROVE ExclusionInv'
  BY <1>14, CallLeaseOn DEF EndRelease
<1>15. ASSUME NEW p \in Proc, MarkBusy(p) PROVE ExclusionInv'
  BY <1>15, CallLeaseOn DEF MarkBusy
<1>16. ASSUME NEW p \in Proc, Heartbeat(p) PROVE ExclusionInv'
  BY <1>16, CallLeaseOn DEF Heartbeat
<1>17. ASSUME NEW p \in Proc, MarkIdle(p) PROVE ExclusionInv'
  BY <1>17, CallLeaseOn DEF MarkIdle
<1>18. ASSUME NEW p \in Proc, EndNote(p) PROVE ExclusionInv'
  BY <1>18, LoadForAppendOn DEF EndNote, args
<1>19. ASSUME NEW p \in Proc, Queue(p) PROVE ExclusionInv'
  BY <1>19, LoadForAppendOn DEF Queue, args
<1>20. ASSUME NEW p \in Proc, Dequeue(p) PROVE ExclusionInv'
  BY <1>20, LoadForAppendOn DEF Dequeue, args
<1>21. ASSUME NEW p \in Proc, TaskEvidence(p) PROVE ExclusionInv'
  BY <1>21, LoadForAppendOn DEF TaskEvidence, args
<1>22. ASSUME NEW p \in Proc, BareEvidence(p) PROVE ExclusionInv'
  BY <1>22, LoadForAppendOn DEF BareEvidence, args
<1>23. ASSUME NEW p \in Proc, EndWrite(p) PROVE ExclusionInv'
  BY <1>23, WriteDraftOn DEF EndWrite
<1>24. ASSUME NEW p \in Proc, EndNoteWrite(p) PROVE ExclusionInv'
  BY <1>24, WriteDraftOn DEF EndNoteWrite
<1>25. ASSUME NEW p \in Proc, NoteWrite(p) PROVE ExclusionInv'
  BY <1>25, WriteDraftOn DEF NoteWrite
<1>26. ASSUME NEW p \in Proc, QueueWrite(p) PROVE ExclusionInv'
  BY <1>26, WriteDraftOn DEF QueueWrite
<1>27. ASSUME NEW p \in Proc, DequeueWrite(p) PROVE ExclusionInv'
  BY <1>27, WriteDraftOn DEF DequeueWrite
<1>28. ASSUME NEW p \in Proc, TaskEvidenceWrite(p) PROVE ExclusionInv'
  BY <1>28, WriteDraftOn DEF TaskEvidenceWrite
<1>29. ASSUME NEW p \in Proc, BareEvidenceWrite(p) PROVE ExclusionInv'
  BY <1>29, WriteDraftOn DEF BareEvidenceWrite
<1>30. ASSUME NEW p \in Proc, Note(p) PROVE ExclusionInv'
  BY <1>30, LoadForAppendOn DEF Note
<1>31. ASSUME NEW p \in Proc, StartPersist(p) PROVE ExclusionInv'
  BY <1>31, EndOn DEF StartPersist
<1>32. ASSUME NEW p \in Proc, EndUnknown(p) PROVE ExclusionInv'
  BY <1>32, EndOn DEF EndUnknown
<1>33. ASSUME NEW p \in Proc, Answer(p) PROVE ExclusionInv'
  BY <1>33, EndOn DEF Answer
<1>34. ASSUME NEW p \in Proc, Crash(p) PROVE ExclusionInv'
  BY <1>34, EndOn DEF Crash
<1>35. ASSUME NEW p \in Proc, EndRead(p) PROVE ExclusionInv'
  BY <1>35, MoveOn DEF EndRead, GoTo, args
<1>36. ASSUME NEW p \in Proc, Recovered(p) PROVE ExclusionInv'
  BY <1>36, EndOn, MoveOn DEF Recovered, GoTo, args
<1>37. ASSUME NEW p \in Proc, Resolve(p) PROVE ExclusionInv'
  BY <1>37, EndOn, MoveOn DEF Resolve, GoTo, args
<1>38. ASSUME NEW p \in Proc, Throw(p) PROVE ExclusionInv'
  BY <1>38, EndOn, MoveOn DEF Throw, GoTo, args
<1>39. ASSUME NEW p \in Proc, TakeSessionLock(p) PROVE ExclusionInv'
  BY <1>39, TakeOn
<1>40. ASSUME NEW p \in Proc, SessionLockTaken(p) PROVE ExclusionInv'
  <2>1. UNCHANGED sessionLock
    BY <1>40 DEF SessionLockTaken
  <2>2. CASE Done(p)
    BY <2>1, <2>2, EndOn
  <2>3. CASE UNCHANGED <<at, args>>
    BY <2>1, <2>3 DEF args, ExclusionInv, CallOK, SessionLockHeld, OneTaskPerSession
  <2> QED
    BY <1>40, <2>2, <2>3 DEF SessionLockTaken
<1>41. ASSUME NEW p \in Proc, SessionUnlock(p) PROVE ExclusionInv'
  BY <1>41, UnlockOn
<1>42. CASE Tick
  BY <1>42 DEF Tick, tool, args, ExclusionInv, CallOK, SessionLockHeld, OneTaskPerSession
<1>43. CASE UNCHANGED vars
  BY <1>43 DEF vars, tool, args, ExclusionInv, CallOK, SessionLockHeld, OneTaskPerSession
<1> QED
  BY <1>1, <1>2, <1>3, <1>4, <1>5, <1>6, <1>7, <1>8, <1>9, <1>10, <1>11, <1>12, <1>13,
     <1>14, <1>15, <1>16, <1>17, <1>18, <1>19, <1>20, <1>21, <1>22, <1>23, <1>24, <1>25,
     <1>26, <1>27, <1>28, <1>29, <1>30, <1>31, <1>32, <1>33, <1>34, <1>35, <1>36, <1>37,
     <1>38, <1>39, <1>40, <1>41, <1>42, <1>43 DEF Next, Step

\* The tools of one session run one at a time (session-scheduler.ts:55-96).
THEOREM TasksExclude == Spec => []OneTaskPerSession
<1>1. ExclusionInv => OneTaskPerSession
  BY DEF ExclusionInv
<1> QED
  BY InitExclusion, StepExclusion, <1>1, PTL DEF Spec

-----------------------------------------------------------------------------
(***************************************************************************)
(* The tools of SessionOrchestration call the lease operations as          *)
(* DeviceLease says they may be called: SessionOrchestration implements    *)
(* DeviceLease, for any number of sessions, devices and tool calls and     *)
(* whatever fails.  The one thing to show is that a tool that names a      *)
(* session and a device has both, which rests on the records that it read. *)
(***************************************************************************)
Named(r) == "device" \in DOMAIN r /\ r.device \in Device

\* The points with a loaded record about to be written.
Writing == {"endWrite", "endNoteWrite", "noteWrite", "queuedWrite", "dequeuedWrite",
            "taskWrite", "bareWrite"}
\* The points from which a lease operation for the device of the call can come.
OnDevice == Exclusive \cup {"startAcquire", "startPersist", "startUndo", "queued", "queuedWrite", "wait"}

\* Every record, on disk or about to be written, names a device, and so does a
\* call that works on one.
RecordsNamed ==
    /\ DOMAIN record = Session
    /\ \A s \in Session : record[s] = NoRecord \/ Named(record[s])
DraftsNamed ==
    /\ DOMAIN draft = Proc
    /\ \A p \in Proc : at[p] \in Writing => Named(draft[p])
CallsNamed ==
    /\ DOMAIN myDevice = Proc
    /\ \A p \in Proc : /\ myDevice[p] \in Device \cup {None}
                       /\ at[p] \in OnDevice => myDevice[p] \in Device
\* The notes on leases that a recovery removed are for sessions that there are.
NotesNamed ==
    /\ DOMAIN toNote = Proc /\ DOMAIN noting = Proc
    /\ \A p \in Proc : /\ toNote[p] \subseteq Session
                       /\ at[p] = "noteWrite" => noting[p] \in Session
AllNamed == RecordsNamed /\ DraftsNamed /\ CallsNamed /\ NotesNamed
DeviceInv == CallOK /\ AllNamed

-----------------------------------------------------------------------------
(* The steps keep devices named. *)

\* The records that the tools write name the device of the one they come from.
LEMMA WritersKeepDevice ==
    ASSUME NEW r, Named(r)
    PROVE  /\ \A event, more : Named(AppendedRecord(r, event, more))
           /\ \A artifacts : Named(EndedRecord(r, artifacts))
           /\ Named([r EXCEPT !.timeline = @ \cap Noted])
BY DEF Named, AppendedRecord, EndedRecord

\* A start writes the device it was called with.
LEMMA StartNamesDevice == ASSUME NEW d \in Device PROVE Named(StartedRecord(d))
BY DEF Named, StartedRecord

\* A call that moves on and writes nothing.
LEMMA MoveNamed ==
    ASSUME DeviceInv, NEW p \in Proc, NEW x \in Points \ Writing,
           at' = [at EXCEPT ![p] = x], x \in OnDevice => at[p] \in OnDevice,
           UNCHANGED <<record, myDevice, draft, toNote>>,
           noting' \in {noting, [noting EXCEPT ![p] = None]}
    PROVE  AllNamed'
BY DEF DeviceInv, AllNamed, CallOK, RecordsNamed, DraftsNamed, CallsNamed, NotesNamed, Named, Writing

\* A call that ends.
LEMMA EndNamed ==
    ASSUME DeviceInv, NEW p \in Proc, Done(p)
    PROVE  DraftsNamed' /\ CallsNamed' /\ NotesNamed' /\ (record' = record => AllNamed')
BY DEF DeviceInv, AllNamed, CallOK, RecordsNamed, DraftsNamed, CallsNamed, NotesNamed, Done, GoTo,
       Writing, OnDevice, Exclusive, Named

\* A lease call is entered, and returns.
LEMMA CallLeaseNamed ==
    ASSUME DeviceInv, NEW p \in Proc, NEW o, NEW point, NEW next \in Points \ Writing,
           CallLease(p, o, point, next), next \in OnDevice => point \subseteq OnDevice
    PROVE  AllNamed'
<1>1. at' = [at EXCEPT ![p] = next] /\ at[p] \in point /\ UNCHANGED <<record, myDevice, draft, toNote, noting>>
  BY DEF CallLease, GoTo, args
<1> QED BY <1>1, MoveNamed

\* The caller goes on, or its call ends.
LEMMA LeaseReturnsNamed ==
    ASSUME DeviceInv, NEW p \in Proc, NEW point,
           NEW next \in Points \ Writing, NEW failed \in Points \ Writing,
           LeaseReturns(p, point, next, failed),
           next \in OnDevice \/ failed \in OnDevice => point \in OnDevice
    PROVE  AllNamed'
<1> DEFINE goal == IF outcome[p] = "error" THEN failed ELSE next
<1>1. UNCHANGED record /\ at[p] = point
  BY DEF LeaseReturns
<1>2. CASE goal = "idle"
  <2>1. Done(p)
    BY <1>2 DEF LeaseReturns
  <2> QED BY <1>1, <2>1, EndNamed
<1>3. CASE goal # "idle"
  <2>1. at' = [at EXCEPT ![p] = goal] /\ UNCHANGED <<myDevice, draft, toNote, noting>>
    BY <1>3 DEF LeaseReturns, GoTo, args
  <2>2. goal \in Points \ Writing /\ (goal \in OnDevice => point \in OnDevice)
    OBVIOUS
  <2> HIDE DEF goal
  <2> QED BY <1>1, <2>1, <2>2, MoveNamed
<1> QED BY <1>2, <1>3

\* A record is loaded to be extended; what is about to be written names its device.
LEMMA LoadNamed ==
    ASSUME DeviceInv, NEW p \in Proc, NEW s \in Session, NEW event, NEW point,
           NEW write \in Points, NEW skip \in Points \ Writing,
           LoadForAppend(p, s, event, point, write, skip), UNCHANGED myDevice,
           \/ write # "noteWrite" /\ UNCHANGED <<toNote, noting>>
           \/ toNote' = [toNote EXCEPT ![p] = @ \ {s}] /\ noting' = [noting EXCEPT ![p] = s],
           write \in OnDevice \/ skip \in OnDevice => point \in OnDevice
    PROVE  AllNamed'
<1>1. at[p] = point /\ UNCHANGED record
  BY DEF LoadForAppend
<1>2. record[s] # NoRecord => Named(AppendedRecord(record[s], event, {}))
  BY WritersKeepDevice DEF DeviceInv, AllNamed, RecordsNamed
<1>3. \/ at' = [at EXCEPT ![p] = skip] /\ UNCHANGED draft
      \/ /\ at' = [at EXCEPT ![p] = write] /\ record[s] # NoRecord
         /\ draft' = [draft EXCEPT ![p] = AppendedRecord(record[s], event, {})]
  BY DEF LoadForAppend, GoTo
<1>4. DraftsNamed'
  BY <1>2, <1>3 DEF DeviceInv, AllNamed, CallOK, DraftsNamed, Named
<1>5. CallsNamed' /\ RecordsNamed'
  BY <1>1, <1>3 DEF DeviceInv, AllNamed, CallOK, CallsNamed, RecordsNamed, Named
<1>6. NotesNamed'
  BY <1>3 DEF DeviceInv, AllNamed, CallOK, NotesNamed, Writing
<1> QED BY <1>4, <1>5, <1>6 DEF AllNamed

\* A record that is written.
LEMMA WriteNamed ==
    ASSUME DeviceInv, NEW s \in Session, NEW r, Named(r), WriteRecord(s, r)
    PROVE  RecordsNamed'
<1>1. Named([r EXCEPT !.timeline = @ \cap Noted])
  BY WritersKeepDevice
<1> QED BY <1>1 DEF WriteRecord, DeviceInv, AllNamed, RecordsNamed, Named

\* What a call has loaded and extended is written.
LEMMA WriteDraftNamed ==
    ASSUME DeviceInv, NEW p \in Proc, NEW s \in Session, NEW point \in Writing,
           NEW next \in Points \ Writing,
           WriteDraft(p, s, point, next), next \in OnDevice => point \in OnDevice
    PROVE  AllNamed'
<1>1. RecordsNamed'
  BY WriteNamed DEF WriteDraft, DeviceInv, AllNamed, DraftsNamed
<1>2. CASE next = "idle"
  BY <1>1, <1>2, EndNamed DEF WriteDraft, AllNamed
<1>3. CASE next # "idle"
  <2>1. /\ at[p] = point /\ at' = [at EXCEPT ![p] = next] /\ UNCHANGED <<myDevice, toNote, noting>>
        /\ draft' = [draft EXCEPT ![p] = NoRecord]
    BY <1>3 DEF WriteDraft, GoTo, args
  <2> QED BY <1>1, <2>1 DEF DeviceInv, AllNamed, CallOK, DraftsNamed, CallsNamed, NotesNamed, Named, Writing
<1> QED BY <1>2, <1>3

\* At first there are no records and no calls.
LEMMA InitNamed == Init => DeviceInv
<1> SUFFICES ASSUME Init PROVE DeviceInv
  OBVIOUS
<1>1. CallOK
  BY InitExclusion DEF ExclusionInv
<1>2. AllNamed
  BY DEF Init, AllNamed, RecordsNamed, DraftsNamed, CallsNamed, NotesNamed, Writing, OnDevice, Exclusive
<1> QED BY <1>1, <1>2 DEF DeviceInv

\* Every action keeps devices named: most of them by one of the lemmas above.
LEMMA StepNamed ==
    ASSUME DeviceInv, CallOK', recovered \in [Proc -> SUBSET Session], [Next]_vars
    PROVE  DeviceInv'
<1> USE DEF Points, Exclusive, OnDevice, Writing
<1> SUFFICES AllNamed'
  BY DEF DeviceInv
<1>0. \A p \in Proc : at[p] # "idle" => mySession[p] \in Session
  BY DEF DeviceInv, CallOK
<1>1. ASSUME NEW p \in Proc, NEW s \in Session, NEW d \in Device, StartSession(p, s, d) PROVE AllNamed'
  BY <1>1 DEF StartSession, GoTo, DeviceInv, AllNamed, CallOK, RecordsNamed, DraftsNamed, CallsNamed, NotesNamed, Named
<1>2. ASSUME NEW p \in Proc, NEW s \in Session, EndSession(p, s) PROVE AllNamed'
  <2>1. record[s] = NoRecord \/ Named(record[s])
    BY DEF DeviceInv, AllNamed, RecordsNamed
  <2> QED
    BY <1>2, <2>1 DEF EndSession, GoTo, DeviceInv, AllNamed, CallOK, RecordsNamed, DraftsNamed, CallsNamed, NotesNamed, Named
<1>3. ASSUME NEW p \in Proc, NEW s \in Session, ToolCall(p, s) PROVE AllNamed'
  BY <1>3, MoveNamed DEF ToolCall, GoTo
<1>4. ASSUME NEW p \in Proc, NEW s \in Session, BareToolCall(p, s) PROVE AllNamed'
  BY <1>4, MoveNamed DEF BareToolCall, GoTo
<1>5. ASSUME NEW p \in Proc, LeaseStep(p) \/ LeaseError(p) PROVE AllNamed'
  BY <1>5 DEF LeaseStep, LeaseError, tool, args, DeviceInv, AllNamed, RecordsNamed, DraftsNamed, CallsNamed, NotesNamed, Named
<1>6. ASSUME NEW p \in Proc, StartAcquired(p) \/ StartUndone(p) PROVE AllNamed'
  BY <1>6, LeaseReturnsNamed DEF StartAcquired, StartUndone
<1>7. ASSUME NEW p \in Proc, EndReleased(p) PROVE AllNamed'
  BY <1>7, LeaseReturnsNamed DEF EndReleased
<1>8. ASSUME NEW p \in Proc, MarkedBusy(p) \/ HeartbeatDone(p) \/ MarkedIdle(p) PROVE AllNamed'
  BY <1>8, LeaseReturnsNamed DEF MarkedBusy, HeartbeatDone, MarkedIdle
<1>9. ASSUME NEW p \in Proc, StartUndo(p) \/ EndRelease(p) PROVE AllNamed'
  BY <1>9, CallLeaseNamed DEF StartUndo, EndRelease
<1>10. ASSUME NEW p \in Proc, MarkBusy(p) \/ Heartbeat(p) \/ MarkIdle(p) PROVE AllNamed'
  BY <1>10, CallLeaseNamed DEF MarkBusy, Heartbeat, MarkIdle
<1>11. ASSUME NEW p \in Proc, EndNote(p) \/ BareEvidence(p) PROVE AllNamed'
  <2>1. mySession[p] \in Session
    BY <1>0, <1>11 DEF EndNote, BareEvidence, LoadForAppend
  <2> QED BY <1>11, <2>1, LoadNamed DEF EndNote, BareEvidence, args
<1>12. ASSUME NEW p \in Proc, Queue(p) \/ Dequeue(p) \/ TaskEvidence(p) PROVE AllNamed'
  <2>1. mySession[p] \in Session
    BY <1>0, <1>12 DEF Queue, Dequeue, TaskEvidence, LoadForAppend
  <2> QED BY <1>12, <2>1, LoadNamed DEF Queue, Dequeue, TaskEvidence, args
<1>13. ASSUME NEW p \in Proc, EndWrite(p) \/ EndNoteWrite(p) \/ BareEvidenceWrite(p) PROVE AllNamed'
  <2>1. mySession[p] \in Session
    BY <1>0, <1>13 DEF EndWrite, EndNoteWrite, BareEvidenceWrite, WriteDraft
  <2> QED BY <1>13, <2>1, WriteDraftNamed DEF EndWrite, EndNoteWrite, BareEvidenceWrite
<1>14. ASSUME NEW p \in Proc, QueueWrite(p) \/ DequeueWrite(p) \/ TaskEvidenceWrite(p) PROVE AllNamed'
  <2>1. mySession[p] \in Session
    BY <1>0, <1>14 DEF QueueWrite, DequeueWrite, TaskEvidenceWrite, WriteDraft
  <2> QED BY <1>14, <2>1, WriteDraftNamed DEF QueueWrite, DequeueWrite, TaskEvidenceWrite
<1>15. ASSUME NEW p \in Proc, Note(p) PROVE AllNamed'
  <2>1. PICK s \in toNote[p] :
          /\ LoadForAppend(p, s, "lease_recovered_stale", "note", "noteWrite", "note")
          /\ toNote' = [toNote EXCEPT ![p] = @ \ {s}] /\ noting' = [noting EXCEPT ![p] = s]
          /\ UNCHANGED myDevice
    BY <1>15 DEF Note
  <2>2. s \in Session
    BY DEF DeviceInv, AllNamed, NotesNamed
  <2> QED BY <2>1, <2>2, LoadNamed
<1>16. ASSUME NEW p \in Proc, NoteWrite(p) PROVE AllNamed'
  <2>1. noting[p] \in Session
    BY <1>16 DEF NoteWrite, WriteDraft, DeviceInv, AllNamed, NotesNamed
  <2> QED BY <1>16, <2>1, WriteDraftNamed DEF NoteWrite
<1>17. ASSUME NEW p \in Proc, StartPersist(p) PROVE AllNamed'
  <2>1. mySession[p] \in Session /\ myDevice[p] \in Device
    BY <1>0, <1>17 DEF StartPersist, DeviceInv, AllNamed, CallsNamed
  <2>2. RecordsNamed'
    BY <1>17, <2>1, WriteNamed, StartNamesDevice DEF StartPersist
  <2> QED BY <1>17, <2>2, EndNamed DEF StartPersist, AllNamed
<1>18. ASSUME NEW p \in Proc, EndUnknown(p) \/ Answer(p) \/ Crash(p) PROVE AllNamed'
  <2>1. Done(p) /\ record' = record
    BY <1>18 DEF EndUnknown, Answer, Crash
  <2> QED BY <2>1, EndNamed
<1>19. ASSUME NEW p \in Proc, EndRead(p) PROVE AllNamed'
  <2>1. mySession[p] \in Session /\ at[p] = "endRead"
        /\ UNCHANGED <<record, myDevice, toNote, noting>>
    BY <1>0, <1>19 DEF EndRead, args
  <2>2. CASE ~IsOpen(record[mySession[p]])
    BY <1>19, <2>1, <2>2, MoveNamed DEF EndRead, GoTo
  <2>3. CASE IsOpen(record[mySession[p]])
    <3>1. Named(EndedRecord(record[mySession[p]], {}))
      BY <2>1, <2>3, WritersKeepDevice DEF DeviceInv, AllNamed, RecordsNamed, IsOpen
    <3>2. /\ at' = [at EXCEPT ![p] = "endWrite"]
          /\ draft' = [draft EXCEPT ![p] = EndedRecord(record[mySession[p]], {})]
      BY <1>19, <2>3 DEF EndRead, GoTo
    <3> QED
      BY <2>1, <3>1, <3>2 DEF DeviceInv, AllNamed, CallOK, RecordsNamed, DraftsNamed, CallsNamed, NotesNamed, Named
  <2> QED BY <2>2, <2>3
<1>20. ASSUME NEW p \in Proc, Recovered(p) PROVE AllNamed'
  <2>1. record' = record /\ at[p] = "recover"
    BY <1>20 DEF Recovered
  <2>2. CASE Done(p)
    BY <2>1, <2>2, EndNamed
  <2>3. CASE ~Done(p)
    <3>1. /\ at' = [at EXCEPT ![p] = "note"] /\ UNCHANGED <<args, draft>>
          /\ toNote' = [toNote EXCEPT ![p] = recovered[p]]
      BY <1>20, <2>3 DEF Recovered, GoTo
    <3> QED
      BY <2>1, <3>1 DEF args, DeviceInv, AllNamed, CallOK, RecordsNamed, DraftsNamed, CallsNamed, NotesNamed, Named
  <2> QED BY <2>2, <2>3
<1>21. ASSUME NEW p \in Proc, Resolve(p) PROVE AllNamed'
  <2>1. record' = record /\ at[p] = "note" /\ mySession[p] \in Session
    BY <1>0, <1>21 DEF Resolve
  <2>2. CASE Done(p)
    BY <2>1, <2>2, EndNamed
  <2>3. CASE ~Done(p) /\ IsOpen(record[mySession[p]])
    <3>1. /\ at' = [at EXCEPT ![p] = "queued"] /\ UNCHANGED <<draft, toNote>>
          /\ noting' = [noting EXCEPT ![p] = None]
          /\ myDevice' = [myDevice EXCEPT ![p] = record[mySession[p]].device]
      BY <1>21, <2>3 DEF Resolve, GoTo
    <3>2. record[mySession[p]].device \in Device
      BY <2>1, <2>3 DEF DeviceInv, AllNamed, RecordsNamed, Named, IsOpen
    <3> QED BY <2>1, <3>1, <3>2 DEF DeviceInv, AllNamed, CallOK, RecordsNamed, DraftsNamed, CallsNamed, NotesNamed, Named
  <2>4. CASE ~Done(p) /\ ~IsOpen(record[mySession[p]])
    BY <1>21, <2>1, <2>4, MoveNamed DEF Resolve, GoTo
  <2> QED BY <2>2, <2>3, <2>4
<1>22. ASSUME NEW p \in Proc, Throw(p) PROVE AllNamed'
  <2>1. record' = record
    BY <1>22 DEF Throw
  <2>2. CASE Done(p)
    BY <2>1, <2>2, EndNamed
  <2>3. CASE ~Done(p)
    BY <1>22, <2>1, <2>3 DEF Throw, GoTo, args, DeviceInv, AllNamed, CallOK, RecordsNamed, DraftsNamed, CallsNamed, NotesNamed, Named
  <2> QED BY <2>2, <2>3
<1>23. ASSUME NEW p \in Proc, TakeSessionLock(p) PROVE AllNamed'
  BY <1>23, MoveNamed DEF TakeSessionLock, GoTo, args
<1>24. ASSUME NEW p \in Proc, SessionLockTaken(p) \/ SessionUnlock(p) PROVE AllNamed'
  <2>1. record' = record
    BY <1>24 DEF SessionLockTaken, SessionUnlock
  <2>2. CASE Done(p)
    BY <2>1, <2>2, EndNamed
  <2>3. CASE UNCHANGED <<at, args, draft, toNote>>
    BY <2>1, <2>3 DEF args, DeviceInv, AllNamed, RecordsNamed, DraftsNamed, CallsNamed, NotesNamed, Named
  <2> QED BY <1>24, <2>2, <2>3 DEF SessionLockTaken, SessionUnlock
<1>25. CASE Tick \/ UNCHANGED vars
  BY <1>25 DEF Tick, vars, tool, args, DeviceInv, AllNamed, RecordsNamed, DraftsNamed, CallsNamed, NotesNamed, Named
<1>26. ASSUME NEW p \in Proc, Step(p) PROVE AllNamed'
  BY <1>26, <1>5, <1>6, <1>7, <1>8, <1>9, <1>10, <1>11, <1>12, <1>13, <1>14, <1>15, <1>16, <1>17,
     <1>18, <1>19, <1>20, <1>21, <1>23, <1>24 DEF Step
<1> QED
  BY <1>1, <1>2, <1>3, <1>4, <1>5, <1>9, <1>18, <1>22, <1>25, <1>26 DEF Next

-----------------------------------------------------------------------------
(* Every step is one of DeviceLease. *)

\* What the lease operations see of a step that touches neither their files and
\* calls nor the records.
LEMMA Unseen == UNCHANGED <<files, calls, record>> => UNCHANGED Lease!vars
BY DEF files, calls, Lease!vars, Lease!callVars, Lease!sweep

\* A record that is written opens or closes its session, or leaves it as it was.
LEMMA WriteIsChange ==
    ASSUME RecordsNamed, NEW s \in Session, NEW r, WriteRecord(s, r), UNCHANGED <<files, calls>>
    PROVE  [Lease!Next]_(Lease!vars)
<1> DEFINE w == [r EXCEPT !.timeline = @ \cap Noted]
<1>1. record' = [record EXCEPT ![s] = w]
  BY DEF WriteRecord
<1>2. CASE IsOpen(record[s]) <=> IsOpen(w)
  <2>1. [t \in Session |-> record[t] # NoRecord /\ ~record[t].closed]'
        = [t \in Session |-> record[t] # NoRecord /\ ~record[t].closed]
    BY <1>1, <1>2 DEF RecordsNamed, IsOpen
  <2> QED BY <2>1 DEF files, calls, Lease!vars, Lease!callVars, Lease!sweep
<1>3. CASE ~(IsOpen(record[s]) <=> IsOpen(w))
  <2>1. Lease!RecordChange(s)
    BY <1>1, <1>3 DEF Lease!RecordChange, Lease!callVars, Lease!sweep, files, calls, RecordsNamed, IsOpen
  <2> QED BY <2>1 DEF Lease!Next
<1> QED BY <1>2, <1>3

\* A lease operation is called for the session and the device of the tool call.
LEMMA CallIsCall ==
    ASSUME DeviceInv, NEW p \in Proc, NEW o \in {"acquire", "release", "markBusy", "markIdle", "refreshHeartbeat"},
           NEW point, NEW next, CallLease(p, o, point, next),
           "idle" \notin point, myDevice[p] \in Device
    PROVE  Lease!Next
<1>1. Lease!Call(p, o, mySession[p], myDevice[p]) /\ mySession[p] \in Session
  BY DEF CallLease, DeviceInv, CallOK
<1> QED BY <1>1 DEF Lease!Next, Lease!Ops, Lease!LockedOps

\* Its caller takes the outcome.
LEMMA ReturnIsReturn == ASSUME NEW p \in Proc, Lease!Return(p) PROVE Lease!Next
BY DEF Lease!Next

\* The second half of an append writes a record.
LEMMA WriteDraftIsChange ==
    ASSUME RecordsNamed, NEW p \in Proc, NEW s \in Session, NEW point, NEW next,
           WriteDraft(p, s, point, next)
    PROVE  [Lease!Next]_(Lease!vars)
BY WriteIsChange DEF WriteDraft

-----------------------------------------------------------------------------
(* What is proved of DeviceLease, about the lease files of this module. *)

Proved == INSTANCE DeviceLeaseProofs WITH
             open <- [s \in Session |-> record[s] # NoRecord /\ ~record[s].closed]

\* The theorems hold under the assumptions on the constants.
LEMMA ProvedAssumption == Proved!LeaseAssumption
BY LeaseConstants DEF Proved!FailureKinds, Lease!FailureKinds, Proved!Lease, Lease!Lease

\* The two instances say the same.
LEMMA SameInv == Proved!IndInv <=> Lease!IndInv
BY DEF Proved!IndInv, Lease!IndInv, Proved!TypeOK, Lease!TypeOK, Proved!CallShape,
  Lease!CallShape, Proved!LockHeld, Lease!LockHeld, Proved!LeaseLockMutex, Lease!LeaseLockMutex,
  Proved!HeartbeatPast, Lease!HeartbeatPast, Proved!WriteIsRenewal, Lease!WriteIsRenewal,
  Proved!RereadNeverForeign, Lease!RereadNeverForeign, Proved!RecoveryHitsOnlyStale,
  Lease!RecoveryHitsOnlyStale, Proved!AcquiredIsOwn, Lease!AcquiredIsOwn, Proved!Foreign,
  Lease!Foreign, Proved!IsStale, Lease!IsStale, Proved!InLock, Lease!InLock, Proved!Critical,
  Lease!Critical, Proved!PCs, Lease!PCs, Proved!Ops, Lease!Ops, Proved!LockedOps,
  Lease!LockedOps, Proved!Outcomes, Lease!Outcomes, Proved!Lease, Lease!Lease

\* So do their steps.
LEMMA SameStep == ASSUME NEW p PROVE Proved!Step(p) <=> Lease!Step(p)
BY DEF Proved!Step, Lease!Step, Proved!TakeLock, Lease!TakeLock, Proved!LockTaken,
  Lease!LockTaken, Proved!Unlock, Lease!Unlock, Proved!LoadLease, Lease!LoadLease,
  Proved!AcquireLoad, Lease!AcquireLoad, Proved!UpdateLoad, Lease!UpdateLoad,
  Proved!RecoverLoad, Lease!RecoverLoad, Proved!CheckOwner, Lease!CheckOwner,
  Proved!StealLease, Lease!StealLease, Proved!Reread, Lease!Reread, Proved!PersistLease,
  Lease!PersistLease, Proved!RemoveStale, Lease!RemoveStale, Proved!ListLease,
  Lease!ListLease, Proved!ListEnd, Lease!ListEnd, Proved!NextStale, Lease!NextStale,
  Proved!RecoverEnd, Lease!RecoverEnd, Proved!ReleaseLoad, Lease!ReleaseLoad,
  Proved!ReleaseRemove, Lease!ReleaseRemove, Proved!Foreign, Lease!Foreign, Proved!Renewed,
  Lease!Renewed, Proved!IsStale, Lease!IsStale, Proved!Leave, Lease!Leave, Proved!Finish,
  Lease!Finish, Proved!sweep, Lease!sweep

\* And their next-state relations.
LEMMA SameNext == [Proved!Next]_(Proved!vars) <=> [Lease!Next]_(Lease!vars)
<1>1. Proved!vars = Lease!vars /\ (Proved!vars)' = (Lease!vars)'
  BY DEF Proved!vars, Lease!vars, Proved!callVars, Lease!callVars, Proved!sweep, Lease!sweep
<1>2. Proved!Next <=> Lease!Next
  BY SameStep DEF Proved!Next, Lease!Next, Proved!Ops, Lease!Ops, Proved!LockedOps,
     Lease!LockedOps, Proved!Call, Lease!Call, Proved!CallRecover, Lease!CallRecover,
     Proved!IoError, Lease!IoError, Proved!Return, Lease!Return, Proved!Crash, Lease!Crash,
     Proved!Forget, Lease!Forget, Proved!Finish, Lease!Finish, Proved!Leave, Lease!Leave,
     Proved!Critical, Lease!Critical, Proved!Tick, Lease!Tick, Proved!RecordChange,
     Lease!RecordChange, Proved!callVars, Lease!callVars, Proved!sweep, Lease!sweep
<1> QED BY <1>1, <1>2

\* The invariant of DeviceLease is one here.
LEMMA LeaseStays == Lease!IndInv /\ [Lease!Next]_(Lease!vars) => Lease!IndInv'
<1> SUFFICES ASSUME Lease!IndInv, [Lease!Next]_(Lease!vars) PROVE Lease!IndInv'
  OBVIOUS
<1>1. Proved!IndInv /\ [Proved!Next]_(Proved!vars)
  BY SameInv, SameNext
<1>2. Proved!IndInv'
  BY <1>1, ProvedAssumption, Proved!IndStep
<1>3. (Proved!IndInv <=> Lease!IndInv)'
  BY SameInv, PTL
<1> QED BY <1>2, <1>3

-----------------------------------------------------------------------------
(* Every step is one of DeviceLease. *)

\* A step of a lease call, of the clock, of a caller that takes the outcome or of a
\* process that dies is the same step there; all else but calls and records is unseen.
LEMMA StepIsLeaseStep ==
    ASSUME DeviceInv, [Next]_vars
    PROVE  [Lease!Next]_(Lease!vars)
<1> USE DEF Exclusive, OnDevice, Writing
<1>0. \A p \in Proc : at[p] # "idle" => mySession[p] \in Session
  BY DEF DeviceInv, CallOK
<1>1. RecordsNamed
  BY DEF DeviceInv, AllNamed
<1>2. \A p \in Proc : at[p] \in OnDevice => myDevice[p] \in Device
  BY DEF DeviceInv, AllNamed, CallsNamed
<1>3. ASSUME NEW p \in Proc, NEW s \in Session, NEW d \in Device, StartSession(p, s, d)
      PROVE  Lease!Next
  BY <1>3 DEF StartSession, Lease!Next, Lease!Ops, Lease!LockedOps
<1>4. ASSUME NEW p \in Proc, NEW s \in Session, ToolCall(p, s) PROVE Lease!Next
  BY <1>4 DEF ToolCall, Lease!Next
<1>5. ASSUME NEW p \in Proc, LeaseStep(p) \/ LeaseError(p) PROVE Lease!Next
  BY <1>5 DEF LeaseStep, LeaseError, Lease!Next
<1>6. CASE Tick
  BY <1>6 DEF Tick, Lease!Next
<1>7. ASSUME NEW p \in Proc, StartUndo(p) \/ MarkBusy(p) \/ Heartbeat(p) \/ MarkIdle(p)
      PROVE  Lease!Next
  <2>1. myDevice[p] \in Device
    BY <1>2, <1>7 DEF StartUndo, MarkBusy, Heartbeat, MarkIdle, CallLease
  <2> QED BY <1>7, <2>1, CallIsCall DEF StartUndo, MarkBusy, Heartbeat, MarkIdle
<1>8. ASSUME NEW p \in Proc, EndRelease(p) PROVE Lease!Next
  <2>1. myDevice[p] \in Device
    BY <1>8 DEF EndRelease, DeviceInv, AllNamed, CallsNamed
  <2> QED BY <1>8, <2>1, CallIsCall DEF EndRelease
<1>9. ASSUME NEW p \in Proc,
             \/ StartAcquired(p) \/ StartUndone(p) \/ EndReleased(p) \/ Recovered(p)
             \/ MarkedBusy(p) \/ HeartbeatDone(p) \/ MarkedIdle(p)
      PROVE  Lease!Next
  <2>1. Lease!Return(p)
    BY <1>9 DEF StartAcquired, StartUndone, EndReleased, Recovered, MarkedBusy, HeartbeatDone,
       MarkedIdle, LeaseReturns
  <2> QED BY <2>1 DEF Lease!Next
<1>10. ASSUME NEW p \in Proc, Crash(p) PROVE [Lease!Next]_(Lease!vars)
  <2>1. CASE Lease!Crash(p)
    BY <2>1 DEF Lease!Next
  <2>2. CASE UNCHANGED <<files, calls>>
    BY <1>10, <2>2, Unseen DEF Crash
  <2> QED BY <1>10, <2>1, <2>2 DEF Crash
<1>11. ASSUME NEW p \in Proc,
              \/ EndWrite(p) \/ EndNoteWrite(p) \/ QueueWrite(p) \/ DequeueWrite(p)
              \/ TaskEvidenceWrite(p) \/ BareEvidenceWrite(p)
       PROVE  [Lease!Next]_(Lease!vars)
  <2>1. mySession[p] \in Session
    BY <1>0, <1>11 DEF EndWrite, EndNoteWrite, QueueWrite, DequeueWrite, TaskEvidenceWrite,
       BareEvidenceWrite, WriteDraft
  <2> QED
    BY <1>1, <1>11, <2>1, WriteDraftIsChange DEF EndWrite, EndNoteWrite, QueueWrite, DequeueWrite,
       TaskEvidenceWrite, BareEvidenceWrite
<1>12. ASSUME NEW p \in Proc, NoteWrite(p) PROVE [Lease!Next]_(Lease!vars)
  <2>1. noting[p] \in Session
    BY <1>12 DEF NoteWrite, WriteDraft, DeviceInv, AllNamed, NotesNamed
  <2> QED BY <1>1, <1>12, <2>1, WriteDraftIsChange DEF NoteWrite
<1>13. ASSUME NEW p \in Proc, StartPersist(p) PROVE [Lease!Next]_(Lease!vars)
  <2>1. mySession[p] \in Session
    BY <1>0, <1>13 DEF StartPersist
  <2> QED BY <1>1, <1>13, <2>1, WriteIsChange DEF StartPersist
<1>14. ASSUME NEW p \in Proc,
              \/ \E s \in Session : EndSession(p, s) \/ BareToolCall(p, s)
              \/ EndRead(p) \/ EndUnknown(p) \/ EndNote(p) \/ Note(p) \/ Resolve(p) \/ Queue(p)
              \/ TakeSessionLock(p) \/ SessionLockTaken(p) \/ Dequeue(p) \/ TaskEvidence(p)
              \/ SessionUnlock(p) \/ BareEvidence(p) \/ Answer(p) \/ Throw(p)
       PROVE  UNCHANGED Lease!vars
  <2>1. UNCHANGED <<files, calls, record>>
    BY <1>14 DEF EndSession, BareToolCall, EndRead, EndUnknown, EndNote, Note, Resolve, Queue,
       TakeSessionLock, SessionLockTaken, Dequeue, TaskEvidence, SessionUnlock, BareEvidence,
       Answer, Throw, LoadForAppend
  <2> QED BY <2>1, Unseen
<1>15. CASE UNCHANGED vars
  BY <1>15, Unseen DEF vars
<1>16. ASSUME NEW p \in Proc, Step(p) PROVE [Lease!Next]_(Lease!vars)
  BY <1>16, <1>5, <1>7, <1>8, <1>9, <1>11, <1>12, <1>13, <1>14 DEF Step
<1> QED
  BY <1>3, <1>4, <1>5, <1>6, <1>7, <1>10, <1>14, <1>15, <1>16 DEF Next

-----------------------------------------------------------------------------
WholeInv == ExclusionInv /\ DeviceInv /\ Lease!IndInv

\* The invariant that carries the refinement.
LEMMA WholeStays == WholeInv /\ [Next]_vars => WholeInv' /\ [Lease!Next]_(Lease!vars)
<1> SUFFICES ASSUME WholeInv, [Next]_vars PROVE WholeInv' /\ [Lease!Next]_(Lease!vars)
  OBVIOUS
<1>1. ExclusionInv' /\ CallOK'
  BY StepExclusion DEF WholeInv, ExclusionInv
<1>2. recovered \in [Proc -> SUBSET Session]
  BY DEF WholeInv, Lease!IndInv, Lease!TypeOK
<1>3. DeviceInv'
  BY <1>1, <1>2, StepNamed DEF WholeInv
<1>4. [Lease!Next]_(Lease!vars)
  BY StepIsLeaseStep DEF WholeInv
<1>5. Lease!IndInv'
  BY <1>4, LeaseStays DEF WholeInv
<1> QED BY <1>1, <1>3, <1>4, <1>5 DEF WholeInv

\* It holds at first.
LEMMA InitWhole == Init => WholeInv
<1> SUFFICES ASSUME Init PROVE WholeInv
  OBVIOUS
<1>1. Lease!Init
  BY DEF Init
<1>2. Proved!Init
  BY <1>1 DEF Lease!Init, Proved!Init
<1>3. Lease!IndInv
  BY <1>2, ProvedAssumption, Proved!IndInit, SameInv
<1> QED BY <1>3, InitExclusion, InitNamed DEF WholeInv

\* Whatever the tools do, the lease files see only calls that DeviceLease allows for.
THEOREM ToolsUseLeases == Spec => LeaseSpec
<1>1. Init => Lease!Init
  BY DEF Init
<1> QED BY <1>1, InitWhole, WholeStays, PTL DEF Spec, LeaseSpec, Lease!Spec

\* So what is proved of the lease files holds while sessions use them.
THEOREM LeasesHold == Spec => []Lease!IndInv
<1>1. WholeInv => Lease!IndInv
  BY DEF WholeInv
<1> QED BY <1>1, InitWhole, WholeStays, PTL DEF Spec

-----------------------------------------------------------------------------
(***************************************************************************)
(* One tool call at a time (the line-by-line stdio server), for any number *)
(* of sessions and devices and whatever fails: the records lose nothing,   *)
(* and as long as no lease goes stale, an open session owns its device and *)
(* a task holds the lease.                                                 *)
(***************************************************************************)
OneCall == \A p, q \in Proc : p = q

\* No lease goes stale: calls come often enough to renew the heartbeat of every lease.
LeasesFresh == \A d \in Device : lease[d] # None => ~Lease!IsStale(lease[d], now)

\* A recovery started in the past.
AsOfPast == \A p \in Proc : asOf[p] <= now

Owns(s, d) == lease[d] # None /\ lease[d].owner = s

\* The points at which a tool call waits for a lease operation.
Waiting == {"startAcquire", "startUndo", "endRelease", "recover", "busy", "beating", "idling"}

\* The points at which the session of the call is not open.
NotOpen == {"startAcquire", "startPersist", "startUndo",
            "endClosed", "endRelease", "endNote", "endNoteWrite"}

\* The points at which the session of the call has the lease of its device.
Holding == Exclusive \cup {"startPersist", "queued", "queuedWrite", "wait"}

\* The session whose record a call is about to write.
Target(p) == IF at[p] = "noteWrite" THEN noting[p] ELSE mySession[p]

\* What a record on disk looks like.
RecordsShaped ==
    \A s \in Session :
        record[s] # NoRecord => /\ {"device", "closed", "timeline"} \subseteq DOMAIN record[s]
                                /\ record[s].timeline \subseteq Noted

\* A record about to be written is the one on disk, with more in its timeline, or closed.
DraftsExtend ==
    \A p \in Proc :
        at[p] \in Writing =>
            LET r == record[Target(p)]
            IN /\ r # NoRecord
               /\ {"device", "closed", "timeline"} \subseteq DOMAIN draft[p]
               /\ r.timeline \subseteq draft[p].timeline
               /\ draft[p].device = r.device
               /\ IF at[p] = "endWrite" THEN draft[p].closed ELSE draft[p].closed = r.closed

\* Where the session of a call stands at each point.
CallsInTurn ==
    \A p \in Proc :
        /\ at[p] \in NotOpen => ~IsOpen(record[mySession[p]])
        /\ at[p] \in Holding => Owns(mySession[p], myDevice[p])

\* The lease operation under way is the one that the tool call waits for.
LeaseCallsFit ==
    \A p \in Proc :
        /\ at[p] \notin Waiting => pc[p] = "idle"
        /\ at[p] = "startAcquire" => op[p] = "acquire" /\ sess[p] = mySession[p] /\ dev[p] = myDevice[p]
        /\ at[p] \in {"startUndo", "endRelease"} => sess[p] = mySession[p]
        /\ at[p] \in {"busy", "beating", "idling"} => op[p] \in {"markBusy", "markIdle", "refreshHeartbeat"}
        /\ pc[p] \in {"rload", "rremove"} => op[p] = "release" /\ at[p] \in {"startUndo", "endRelease"}

\* No lease operation takes a lease away from an open session, and acquireLease says the truth.
LeaseCallsSpare ==
    \A p \in Proc :
        /\ pc[p] \in {"owner", "steal"} => lease[dev[p]] = copy[p]
        /\ pc[p] = "steal" => ~IsOpen(record[copy[p].owner])
        /\ pc[p] = "rremove" => lease[dev[p]] = None \/ lease[dev[p]].owner = sess[p]
        /\ op[p] = "acquire" /\ pc[p] \in {"unlock", "done"} => outcome[p] \in {"error", "busy", "acquired"}
        /\ op[p] = "acquire" /\ outcome[p] = "acquired" => Owns(sess[p], dev[p])

\* The invariants: of the records, and of the leases of open sessions.
RecordsSound == RecordsShaped /\ DraftsExtend
SerialInv == OpenSessionOwnsDevice /\ CallsInTurn /\ LeaseCallsFit /\ LeaseCallsSpare

-----------------------------------------------------------------------------
(* The records lose nothing. *)

\* At first there are none.
LEMMA InitRecords == Init => RecordsSound
BY DEF Init, RecordsSound, RecordsShaped, DraftsExtend, Writing

\* A call that writes nothing next.
LEMMA NoDraft ==
    ASSUME OneCall, NEW p \in Proc, at'[p] \notin Writing
    PROVE  DraftsExtend'
BY DEF OneCall, DraftsExtend

\* A call that ends.
LEMMA DoneIsIdle ==
    ASSUME CallOK, NEW p \in Proc, Done(p)
    PROVE  at'[p] = "idle"
BY DEF CallOK, Done, GoTo

\* What is loaded to be extended is what is on disk.
LEMMA DraftLoaded ==
    ASSUME OneCall, RecordsSound, WholeInv, NEW p \in Proc, NEW s \in Session, NEW event, NEW point,
           NEW write \in Writing \ {"endWrite"}, NEW skip \in Points \ Writing,
           LoadForAppend(p, s, event, point, write, skip),
           s = IF write = "noteWrite" THEN noting'[p] ELSE mySession'[p]
    PROVE  DraftsExtend'
<1>0. UNCHANGED record /\ CallOK /\ DOMAIN draft = Proc
  BY DEF LoadForAppend, WholeInv, ExclusionInv, DeviceInv, AllNamed, DraftsNamed
<1>1. CASE record[s] = NoRecord
  <2>1. at'[p] = skip
    BY <1>0, <1>1 DEF LoadForAppend, GoTo, CallOK
  <2> QED BY <2>1, NoDraft
<1>2. CASE record[s] # NoRecord
  <2>1. at'[p] = write /\ draft'[p] = AppendedRecord(record[s], event, {})
    BY <1>0, <1>2 DEF LoadForAppend, GoTo, CallOK
  <2>2. {"device", "closed", "timeline"} \subseteq DOMAIN record[s]
    BY <1>2 DEF RecordsSound, RecordsShaped
  <2>3. /\ {"device", "closed", "timeline"} \subseteq DOMAIN draft'[p]
        /\ record[s].timeline \subseteq draft'[p].timeline
        /\ draft'[p].device = record[s].device
        /\ draft'[p].closed = record[s].closed
    BY <2>1, <2>2 DEF AppendedRecord
  <2>4. Target(p)' = s
    BY <2>1 DEF Target
  <2> QED
    BY <1>0, <1>2, <2>1, <2>3, <2>4 DEF OneCall, DraftsExtend
<1> QED BY <1>1, <1>2

\* What a write of a draft does to the records.
LEMMA DraftWritten ==
    ASSUME RecordsSound, WholeInv, NEW p \in Proc, NEW point \in Writing, NEW next,
           WriteDraft(p, Target(p), point, next)
    PROVE  /\ UNCHANGED lease
           /\ RecordsShaped'
           /\ \A t \in Session : IsOpen(record'[t]) => IsOpen(record[t]) /\ record'[t].device = record[t].device
           /\ point = "endWrite" => ~IsOpen(record'[mySession[p]])
           /\ \A t \in Session : record[t] # NoRecord =>
                  /\ record[t].closed => record'[t].closed
                  /\ record[t].timeline \subseteq record'[t].timeline
<1> DEFINE s == Target(p)
           w == [draft[p] EXCEPT !.timeline = @ \cap Noted]
<1>0. at[p] = point /\ UNCHANGED lease /\ record' = [record EXCEPT ![s] = w]
  BY DEF WriteDraft, WriteRecord, files
<1>1. s \in Session /\ DOMAIN record = Session
  BY <1>0 DEF Target, WholeInv, ExclusionInv, CallOK, DeviceInv, AllNamed, RecordsNamed, NotesNamed, Writing
<1>2. record'[s] = w /\ \A t \in Session \ {s} : record'[t] = record[t]
  BY <1>0, <1>1
<1>3. /\ record[s] # NoRecord
      /\ {"device", "closed", "timeline"} \subseteq DOMAIN draft[p]
      /\ record[s].timeline \subseteq draft[p].timeline
      /\ draft[p].device = record[s].device
      /\ IF point = "endWrite" THEN draft[p].closed ELSE draft[p].closed = record[s].closed
  BY <1>0 DEF RecordsSound, DraftsExtend
<1>4. /\ {"device", "closed", "timeline"} \subseteq DOMAIN w
      /\ w.timeline = draft[p].timeline \cap Noted
      /\ w.device = record[s].device
      /\ IF point = "endWrite" THEN w.closed ELSE w.closed = record[s].closed
  BY <1>3
<1>5. record[s].timeline \subseteq Noted
  BY <1>1, <1>3 DEF RecordsSound, RecordsShaped
<1> HIDE DEF w, s
<1>6. \A t \in Session : IsOpen(record'[t]) => IsOpen(record[t]) /\ record'[t].device = record[t].device
  BY <1>2, <1>3, <1>4 DEF IsOpen
<1>7. RecordsShaped'
  BY <1>2, <1>4 DEF RecordsSound, RecordsShaped
<1>8. point = "endWrite" => ~IsOpen(record'[mySession[p]])
  BY <1>0, <1>2, <1>4 DEF IsOpen, Target, s
<1>9. \A t \in Session : record[t] # NoRecord =>
           (record[t].closed => record'[t].closed) /\ record[t].timeline \subseteq record'[t].timeline
  BY <1>2, <1>3, <1>4, <1>5
<1> QED BY <1>0, <1>6, <1>7, <1>8, <1>9

\* The writers, each with the session it writes.
LEMMA DraftWriters ==
    ASSUME NEW p \in Proc,
           \/ EndWrite(p) \/ EndNoteWrite(p) \/ NoteWrite(p) \/ QueueWrite(p) \/ DequeueWrite(p)
           \/ TaskEvidenceWrite(p) \/ BareEvidenceWrite(p)
    PROVE  \E point \in Writing, next \in Points \ Writing : WriteDraft(p, Target(p), point, next)
BY DEF EndWrite, EndNoteWrite, NoteWrite, QueueWrite, DequeueWrite,
   TaskEvidenceWrite, BareEvidenceWrite, WriteDraft, Target, Writing, Points, Exclusive

\* Every step, one call at a time.
LEMMA RecordsStep ==
    ASSUME RecordsSound, WholeInv, OneCall, [Next]_vars
    PROVE  RecordsSound'
<1>0. CallOK /\ AllNamed
  BY DEF WholeInv, ExclusionInv, DeviceInv
<1>1. CASE UNCHANGED <<record, tool>>
  BY <1>1 DEF RecordsSound, RecordsShaped, DraftsExtend, Target, tool, args
<1>2. ASSUME NEW p \in Proc, record' = record, at'[p] \notin Writing PROVE RecordsSound'
  BY <1>2, NoDraft DEF RecordsSound, RecordsShaped
<1>3. ASSUME NEW p \in Proc, EndNote(p) \/ Queue(p) \/ Dequeue(p) \/ TaskEvidence(p) \/ BareEvidence(p)
      PROVE  RecordsSound'
  <2>1. record' = record /\ mySession' = mySession /\ mySession[p] \in Session
    BY <1>0, <1>3 DEF EndNote, Queue, Dequeue, TaskEvidence, BareEvidence, LoadForAppend, args, CallOK
  <2>2. DraftsExtend'
    BY <1>3, <2>1, DraftLoaded DEF EndNote, Queue, Dequeue, TaskEvidence, BareEvidence,
       Writing, Points, Exclusive
  <2> QED BY <2>1, <2>2 DEF RecordsSound, RecordsShaped
<1>4. ASSUME NEW p \in Proc, Note(p) PROVE RecordsSound'
  <2>1. PICK s \in toNote[p] :
          /\ LoadForAppend(p, s, "lease_recovered_stale", "note", "noteWrite", "note")
          /\ noting' = [noting EXCEPT ![p] = s]
    BY <1>4 DEF Note
  <2>2. s \in Session /\ noting'[p] = s /\ record' = record
    BY <1>0, <2>1 DEF AllNamed, NotesNamed, LoadForAppend
  <2>3. DraftsExtend'
    BY <2>1, <2>2, DraftLoaded DEF Writing, Points, Exclusive
  <2> QED BY <2>2, <2>3 DEF RecordsSound, RecordsShaped
<1>5. ASSUME NEW p \in Proc, EndRead(p) PROVE RecordsSound'
  <2>1. UNCHANGED <<record, mySession>> /\ at[p] = "endRead" /\ mySession[p] \in Session
    BY <1>0, <1>5 DEF EndRead, args, CallOK
  <2>2. CASE IsOpen(record[mySession[p]])
    <3>1. at'[p] = "endWrite" /\ draft'[p] = EndedRecord(record[mySession[p]], {})
      BY <1>0, <1>5, <2>2 DEF EndRead, GoTo, CallOK, AllNamed, DraftsNamed
    <3>2. {"device", "closed", "timeline"} \subseteq DOMAIN record[mySession[p]]
      BY <2>1, <2>2 DEF RecordsSound, RecordsShaped, IsOpen
    <3>3. /\ {"device", "closed", "timeline"} \subseteq DOMAIN draft'[p]
          /\ record[mySession[p]].timeline \subseteq draft'[p].timeline
          /\ draft'[p].device = record[mySession[p]].device
          /\ draft'[p].closed
      BY <3>1, <3>2 DEF EndedRecord
    <3>4. Target(p)' = mySession[p]
      BY <2>1, <3>1 DEF Target
    <3>5. DraftsExtend'
      BY <2>1, <2>2, <3>1, <3>3, <3>4 DEF OneCall, DraftsExtend, IsOpen
    <3> QED BY <2>1, <3>5 DEF RecordsSound, RecordsShaped
  <2>3. CASE ~IsOpen(record[mySession[p]])
    <3>1. at'[p] = "endClosed"
      BY <1>0, <1>5, <2>3 DEF EndRead, GoTo, CallOK
    <3> QED BY <1>2, <2>1, <3>1 DEF Writing
  <2> QED BY <2>2, <2>3
<1>6. ASSUME NEW p \in Proc, NEW point \in Writing, NEW next \in Points \ Writing,
             WriteDraft(p, Target(p), point, next)
      PROVE  RecordsSound'
  <2>1. at'[p] \notin Writing
    BY <1>0, <1>6, DoneIsIdle DEF WriteDraft, GoTo, CallOK, Writing
  <2> QED BY <1>6, <2>1, DraftWritten, NoDraft DEF RecordsSound
<1>7. ASSUME NEW p \in Proc, StartPersist(p) PROVE RecordsSound'
  <2> DEFINE w == [StartedRecord(myDevice[p]) EXCEPT !.timeline = @ \cap Noted]
  <2>1. record' = [record EXCEPT ![mySession[p]] = w] /\ DOMAIN record = Session /\ Done(p)
    BY <1>0, <1>7 DEF StartPersist, WriteRecord, AllNamed, RecordsNamed
  <2>2. {"device", "closed", "timeline"} \subseteq DOMAIN w /\ w.timeline \subseteq Noted
    BY DEF StartedRecord
  <2> HIDE DEF w
  <2>3. RecordsShaped'
    BY <2>1, <2>2 DEF RecordsSound, RecordsShaped
  <2> QED BY <1>0, <2>1, <2>3, DoneIsIdle, NoDraft DEF RecordsSound, Writing
<1>8. ASSUME NEW p \in Proc,
             \/ \E s \in Session : \/ EndSession(p, s) \/ ToolCall(p, s) \/ BareToolCall(p, s)
                                  \/ \E d \in Device : StartSession(p, s, d)
             \/ TakeSessionLock(p) \/ StartUndo(p) \/ EndRelease(p)
             \/ MarkBusy(p) \/ Heartbeat(p) \/ MarkIdle(p)
      PROVE  RecordsSound'
  <2>1. record' = record /\ at'[p] \notin Writing
    BY <1>0, <1>8 DEF EndSession, ToolCall, BareToolCall, StartSession, TakeSessionLock, StartUndo,
       EndRelease, MarkBusy, Heartbeat, MarkIdle, CallLease, GoTo, CallOK, Writing
  <2> QED BY <1>2, <2>1
<1>9. ASSUME NEW p \in Proc,
             \/ StartAcquired(p) \/ StartUndone(p) \/ EndReleased(p) \/ MarkedBusy(p)
             \/ HeartbeatDone(p) \/ MarkedIdle(p) \/ Recovered(p) \/ Resolve(p) \/ Throw(p)
      PROVE  RecordsSound'
  <2>1. record' = record
    BY <1>9 DEF StartAcquired, StartUndone, EndReleased, MarkedBusy, HeartbeatDone, MarkedIdle,
       LeaseReturns, Recovered, Resolve, Throw
  <2>2. Done(p) \/ \E x \in Points \ Writing : GoTo(p, x)
    BY <1>9 DEF StartAcquired, StartUndone, EndReleased, MarkedBusy, HeartbeatDone, MarkedIdle,
       LeaseReturns, Recovered, Resolve, Throw, Writing, Points, Exclusive
  <2>3. at'[p] \notin Writing
    BY <1>0, <2>2, DoneIsIdle DEF GoTo, CallOK, Writing
  <2> QED BY <1>2, <2>1, <2>3
<1>10. ASSUME NEW p \in Proc,
              EndUnknown(p) \/ SessionLockTaken(p) \/ SessionUnlock(p) \/ Answer(p) \/ Crash(p)
       PROVE  RecordsSound'
  <2>1. record' = record /\ (Done(p) \/ (at' = at /\ at[p] = "wait"))
    BY <1>10 DEF EndUnknown, SessionLockTaken, SessionUnlock, Answer, Crash
  <2>2. at'[p] \notin Writing
    BY <1>0, <2>1, DoneIsIdle DEF Writing
  <2> QED BY <1>2, <2>1, <2>2
<1>11. CASE Tick \/ (\E p \in Proc : LeaseStep(p) \/ LeaseError(p)) \/ UNCHANGED vars
  BY <1>11, <1>1 DEF Tick, LeaseStep, LeaseError, vars
<1>12. ASSUME NEW p \in Proc,
              \/ EndWrite(p) \/ EndNoteWrite(p) \/ NoteWrite(p) \/ QueueWrite(p) \/ DequeueWrite(p)
              \/ TaskEvidenceWrite(p) \/ BareEvidenceWrite(p)
       PROVE  RecordsSound'
  BY <1>6, <1>12, DraftWriters
<1> QED
  BY <1>3, <1>4, <1>5, <1>7, <1>8, <1>9, <1>10, <1>11, <1>12 DEF Next, Step

\* Only a start loses anything of a record.
LEMMA RecordsKeep ==
    ASSUME RecordsSound, WholeInv, [Next]_vars, NEW s \in Session, record[s] # NoRecord
    PROVE  \/ \E p \in Proc : at[p] = "startPersist" /\ mySession[p] = s
           \/ /\ record[s].closed => record'[s].closed
              /\ record[s].timeline \subseteq record'[s].timeline
<1> DEFINE Kept == /\ record[s].closed => record'[s].closed
                   /\ record[s].timeline \subseteq record'[s].timeline
<1>1. CASE record' = record
  BY <1>1
<1>2. ASSUME NEW p \in Proc, StartPersist(p), ~Kept
      PROVE  at[p] = "startPersist" /\ mySession[p] = s
  BY <1>2 DEF StartPersist, WriteRecord, WholeInv, DeviceInv, AllNamed, RecordsNamed
<1>3. ASSUME NEW p \in Proc, NEW point \in Writing, NEW next, WriteDraft(p, Target(p), point, next)
      PROVE  Kept
  BY <1>3, DraftWritten
<1>4. \/ record' = record
      \/ \E p \in Proc : StartPersist(p)
      \/ \E p \in Proc : \/ EndWrite(p) \/ EndNoteWrite(p) \/ NoteWrite(p) \/ QueueWrite(p)
                         \/ DequeueWrite(p) \/ TaskEvidenceWrite(p) \/ BareEvidenceWrite(p)
  BY DEF Next, Step, vars, LeaseStep, LeaseError, Tick, StartSession, EndSession, ToolCall, BareToolCall,
     StartAcquired, StartUndone, StartUndo, EndRead, EndUnknown, EndRelease, EndReleased, EndNote,
     Recovered, Note, Resolve, Queue, TakeSessionLock, SessionLockTaken, Dequeue, MarkBusy, MarkedBusy,
     Heartbeat, HeartbeatDone, TaskEvidence, MarkIdle, MarkedIdle, SessionUnlock, BareEvidence, Answer,
     Throw, Crash, LoadForAppend, LeaseReturns, CallLease
<1> QED BY <1>1, <1>2, <1>3, <1>4, DraftWriters

\* The invariant of the records, one call at a time.
LEMMA RecordsHold ==
    ASSUME OneCall
    PROVE  Spec => [](RecordsSound /\ WholeInv)
<1>1. Init => RecordsSound /\ WholeInv
  BY InitRecords, InitWhole
<1>2. RecordsSound /\ WholeInv /\ [Next]_vars => (RecordsSound /\ WholeInv)'
  BY RecordsStep, WholeStays
<1> QED BY <1>1, <1>2, PTL DEF Spec

\* With one call at a time, only a start opens a session that was closed.
THEOREM ClosedSessionsStay ==
    ASSUME OneCall
    PROVE  Spec => ClosedStaysClosed
<1>1. RecordsSound /\ WholeInv /\ [Next]_vars =>
        [\A s \in Session :
            record[s] # NoRecord /\ record[s].closed /\ ~record'[s].closed =>
                \E p \in Proc : at[p] = "startPersist" /\ mySession[p] = s]_record
  BY RecordsKeep
<1> QED BY RecordsHold, <1>1, PTL DEF Spec, ClosedStaysClosed

\* And only a start takes evidence out of a timeline.
THEOREM EvidenceStays ==
    ASSUME OneCall
    PROVE  Spec => EvidenceIsKept
<1>1. RecordsSound /\ WholeInv /\ [Next]_vars =>
        [\A s \in Session :
            record[s] # NoRecord /\ "evidence" \in record[s].timeline =>
                \/ "evidence" \in record'[s].timeline
                \/ \E p \in Proc : at[p] = "startPersist" /\ mySession[p] = s]_record
  BY RecordsKeep
<1> QED BY RecordsHold, <1>1, PTL DEF Spec, EvidenceIsKept

-----------------------------------------------------------------------------
(* An open session owns its device. *)

\* At first no session is open.
LEMMA InitSerial == Init => SerialInv
BY DEF Init, Lease!Init, SerialInv, OpenSessionOwnsDevice, IsOpen,
       CallsInTurn, NotOpen, Holding, Exclusive, LeaseCallsFit, LeaseCallsSpare, Waiting

\* A recovery reads the clock when it starts.
LEMMA AsOfStays ==
    ASSUME AsOfPast, WholeInv, [Lease!Next]_(Lease!vars)
    PROVE  AsOfPast'
<1>0. Lease!TypeOK
  BY DEF WholeInv, Lease!IndInv
<1>1. CASE Lease!Tick
  BY <1>0, <1>1, LeaseConstants DEF Lease!Tick, Lease!callVars, Lease!sweep, AsOfPast, Lease!TypeOK
<1>2. CASE UNCHANGED <<now, asOf>>
  BY <1>2 DEF AsOfPast
<1>3. ASSUME NEW p \in Proc, Lease!CallRecover(p) PROVE AsOfPast'
  BY <1>0, <1>3 DEF Lease!CallRecover, AsOfPast, Lease!TypeOK
<1>4. ASSUME NEW p \in Proc, Lease!Return(p) \/ Lease!Crash(p) PROVE AsOfPast'
  BY <1>0, <1>4 DEF Lease!Return, Lease!Crash, Lease!Forget, AsOfPast, Lease!TypeOK
<1>5. ASSUME NEW p \in Proc, Lease!Step(p) PROVE UNCHANGED <<now, asOf>>
  BY <1>5 DEF Lease!Step, Lease!TakeLock, Lease!LockTaken, Lease!Unlock, Lease!LoadLease,
     Lease!CheckOwner, Lease!StealLease, Lease!Reread, Lease!PersistLease, Lease!RemoveStale,
     Lease!ListLease, Lease!ListEnd, Lease!NextStale, Lease!RecoverEnd, Lease!ReleaseLoad,
     Lease!ReleaseRemove, Lease!sweep
<1> QED
  BY <1>1, <1>2, <1>3, <1>4, <1>5 DEF Lease!Next, Lease!vars, Lease!callVars, Lease!sweep,
     Lease!Call, Lease!IoError, Lease!RecordChange
\* What a lease operation takes away was not the lease of an open session, nor of a call at work.
LEMMA StepSpares ==
    ASSUME SerialInv, WholeInv, LeasesFresh, AsOfPast, NEW p \in Proc, Lease!Step(p)
    PROVE  \A s \in Session, d \in Device :
               Owns(s, d) /\ (IsOpen(record[s]) \/ at[p] \in Holding) => Owns(s, d)'
<1> SUFFICES ASSUME NEW s \in Session, NEW d \in Device, Owns(s, d), IsOpen(record[s]) \/ at[p] \in Holding
             PROVE  Owns(s, d)'
  OBVIOUS
<1>0. Lease!IndInv
  BY DEF WholeInv
<1>1. at[p] \in Holding /\ pc[p] # "idle" => op[p] \in {"markBusy", "markIdle", "refreshHeartbeat"}
  BY DEF SerialInv, LeaseCallsFit, Holding, Waiting, Exclusive
<1>2. CASE Lease!StealLease(p)
  <2>1. pc[p] = "steal" /\ lease' = [lease EXCEPT ![dev[p]] = None] /\ op[p] = "acquire"
    BY <1>0, <1>2 DEF Lease!StealLease, Lease!IndInv, Lease!CallShape
  <2>2. lease[dev[p]] = copy[p] /\ ~IsOpen(record[copy[p].owner])
    BY <2>1 DEF SerialInv, LeaseCallsSpare
  <2>3. d # dev[p]
    BY <1>1, <2>1, <2>2 DEF Owns
  <2> QED BY <2>1, <2>3, <1>0 DEF Owns, Lease!IndInv, Lease!TypeOK
<1>3. CASE Lease!ReleaseRemove(p)
  <2>1. pc[p] = "rremove" /\ lease' = [lease EXCEPT ![dev[p]] = None]
    BY <1>3 DEF Lease!ReleaseRemove
  <2>2. /\ op[p] = "release" /\ sess[p] = mySession[p] /\ at[p] \in {"startUndo", "endRelease"}
        /\ ~IsOpen(record[sess[p]])
        /\ lease[dev[p]] = None \/ lease[dev[p]].owner = sess[p]
    BY <2>1 DEF SerialInv, LeaseCallsSpare, LeaseCallsFit, CallsInTurn, NotOpen
  <2>3. d # dev[p]
    BY <1>1, <2>1, <2>2 DEF Owns
  <2> QED BY <2>1, <2>3, <1>0 DEF Owns, Lease!IndInv, Lease!TypeOK
<1>4. CASE Lease!PersistLease(p)
  <2>1. /\ pc[p] = "persist" /\ lease' = [lease EXCEPT ![dev[p]] = copy[p]]
        /\ copy[p] \in Lease!Lease /\ copy[p].owner = sess[p]
        /\ lease[dev[p]] # None => lease[dev[p]].owner = sess[p]
    BY <1>0, <1>4 DEF Lease!PersistLease, Lease!IndInv, Lease!CallShape, Lease!WriteIsRenewal
  <2>2. copy[p] # None
    BY <2>1, LeaseConstants
  <2> QED BY <2>1, <2>2, <1>0 DEF Owns, Lease!IndInv, Lease!TypeOK
<1>5. CASE Lease!RemoveStale(p)
  <2>1. pc[p] = "remove" /\ lease' = [lease EXCEPT ![dev[p]] = None] /\ dev[p] \in Device
    BY <1>0, <1>5 DEF Lease!RemoveStale, Lease!IndInv, Lease!CallShape, Lease!Critical
  <2>2. asOf[p] \in 0..MaxTime /\ lease[dev[p]] \in Lease!Lease \cup {None}
    BY <2>1, <1>0 DEF Lease!IndInv, Lease!TypeOK
  <2>3. lease[dev[p]] = None
    <3> SUFFICES ASSUME lease[dev[p]] # None PROVE FALSE
      OBVIOUS
    <3>1. asOf[p] - lease[dev[p]].heartbeatAt > StaleAfter
      BY <2>1, <1>0 DEF Lease!IndInv, Lease!RecoveryHitsOnlyStale, Lease!IsStale
    <3>2. lease[dev[p]].heartbeatAt \in 0..MaxTime /\ now \in 0..MaxTime
      BY <2>2, <1>0 DEF Lease!Lease, Lease!IndInv, Lease!TypeOK
    <3>3. asOf[p] <= now /\ ~(now - lease[dev[p]].heartbeatAt > StaleAfter)
      BY <2>1 DEF AsOfPast, LeasesFresh, Lease!IsStale
    <3> QED BY <3>1, <3>2, <3>3, <2>2, LeaseConstants
  <2> QED BY <2>1, <2>3, <1>0 DEF Owns, Lease!IndInv, Lease!TypeOK
<1>6. CASE UNCHANGED lease
  BY <1>6 DEF Owns
<1> QED
  BY <1>2, <1>3, <1>4, <1>5, <1>6 DEF Lease!Step, Lease!TakeLock, Lease!LockTaken, Lease!Unlock,
     Lease!LoadLease, Lease!CheckOwner, Lease!Reread, Lease!ListLease, Lease!ListEnd, Lease!NextStale,
     Lease!RecoverEnd, Lease!ReleaseLoad

\* The operation that is under way stays the one that the tool waits for.
LEMMA StepFits ==
    ASSUME SerialInv, WholeInv, OneCall, NEW p \in Proc, Lease!Step(p), UNCHANGED <<record, tool>>
    PROVE  LeaseCallsFit'
<1>0. Lease!TypeOK /\ Lease!CallShape
  BY DEF WholeInv, Lease!IndInv
<1>1. UNCHANGED <<op, sess, at, mySession, myDevice>>
  BY DEF Lease!Step, Lease!TakeLock, Lease!LockTaken, Lease!Unlock,
     Lease!LoadLease, Lease!CheckOwner, Lease!StealLease, Lease!Reread, Lease!PersistLease,
     Lease!RemoveStale, Lease!ListLease, Lease!ListEnd, Lease!NextStale,
     Lease!RecoverEnd, Lease!ReleaseLoad, Lease!ReleaseRemove, tool, args
<1>2. pc[p] # "idle" /\ (pc'[p] \in {"rload", "rremove"} => pc[p] \in {"rload", "rremove"})
  BY <1>0 DEF Lease!Step, Lease!TakeLock, Lease!LockTaken, Lease!Unlock,
     Lease!LoadLease, Lease!AcquireLoad, Lease!UpdateLoad, Lease!RecoverLoad, Lease!CheckOwner,
     Lease!StealLease, Lease!Reread, Lease!PersistLease, Lease!RemoveStale, Lease!ListLease,
     Lease!ListEnd, Lease!NextStale, Lease!RecoverEnd, Lease!ReleaseLoad, Lease!ReleaseRemove,
     Lease!Leave, Lease!Finish, Lease!TypeOK
<1>3. dev' = dev \/ op[p] = "recover"
  BY <1>0 DEF Lease!Step, Lease!TakeLock, Lease!LockTaken, Lease!Unlock,
     Lease!LoadLease, Lease!CheckOwner, Lease!StealLease, Lease!Reread, Lease!PersistLease,
     Lease!RemoveStale, Lease!ListLease, Lease!ListEnd, Lease!NextStale,
     Lease!RecoverEnd, Lease!ReleaseLoad, Lease!ReleaseRemove, Lease!CallShape
<1> QED
  BY <1>1, <1>2, <1>3 DEF SerialInv, LeaseCallsFit, OneCall

\* It goes on without taking a lease away from an open session.
LEMMA StepSparesOn ==
    ASSUME SerialInv, WholeInv, OneCall, NEW p \in Proc, Lease!Step(p), UNCHANGED <<record, tool>>
    PROVE  LeaseCallsSpare'
<1>0. Lease!TypeOK /\ Lease!CallShape /\ Lease!WriteIsRenewal
  BY DEF WholeInv, Lease!IndInv
<1> USE DEF Owns
<1> DEFINE Spare ==
      /\ pc[p] \in {"owner", "steal"} => lease[dev[p]] = copy[p]
      /\ pc[p] = "steal" => ~IsOpen(record[copy[p].owner])
      /\ pc[p] = "rremove" => lease[dev[p]] = None \/ lease[dev[p]].owner = sess[p]
      /\ op[p] = "acquire" /\ pc[p] \in {"unlock", "done"} => outcome[p] \in {"error", "busy", "acquired"}
      /\ op[p] = "acquire" /\ outcome[p] = "acquired" => Owns(sess[p], dev[p])
<1>a. Spare
  BY DEF SerialInv, LeaseCallsSpare
<1>b. pc[p] \in {"rload", "rremove"} => op[p] = "release"
  BY DEF SerialInv, LeaseCallsFit
<1>c. pc[p] \notin {"unlock", "done", "rload", "rremove"} => outcome[p] = "none"
  BY <1>0 DEF Lease!CallShape, Lease!TypeOK, Lease!PCs, Lease!Critical
<1> SUFFICES Spare'
  BY DEF OneCall, LeaseCallsSpare
<1>1. CASE Lease!TakeLock(p) \/ Lease!LockTaken(p) \/ Lease!ListLease(p) \/ Lease!ListEnd(p) \/ Lease!NextStale(p)
           \/ Lease!RecoverEnd(p)
  BY <1>0, <1>1, <1>a, <1>c DEF Lease!TakeLock, Lease!LockTaken, Lease!ListLease, Lease!ListEnd, Lease!NextStale,
     Lease!RecoverEnd, Lease!Finish, Lease!TypeOK, Lease!sweep, Lease!CallShape
<1>2. CASE Lease!Unlock(p)
  BY <1>0, <1>2, <1>a DEF Lease!Unlock, Lease!TypeOK, Lease!sweep
<1>3. CASE Lease!LoadLease(p)
  BY <1>0, <1>3, <1>a, <1>c DEF Lease!LoadLease, Lease!AcquireLoad, Lease!UpdateLoad, Lease!RecoverLoad,
     Lease!Leave, Lease!TypeOK, Lease!sweep
<1>4. CASE Lease!CheckOwner(p)
  <2>1. copy[p].owner \in Session
    BY <1>0, <1>4 DEF Lease!CheckOwner, Lease!CallShape, Lease!Lease
  <2> QED
    BY <1>0, <1>4, <1>a, <1>c, <2>1 DEF Lease!CheckOwner, Lease!Leave, Lease!TypeOK, Lease!sweep, IsOpen
<1>5. CASE Lease!StealLease(p)
  BY <1>0, <1>5, <1>a, <1>c DEF Lease!StealLease, Lease!TypeOK, Lease!sweep
<1>6. CASE Lease!Reread(p)
  BY <1>0, <1>6, <1>a, <1>c DEF Lease!Reread, Lease!Leave, Lease!TypeOK, Lease!sweep
<1>7. CASE Lease!PersistLease(p)
  <2>1. copy[p] # None /\ copy[p].owner = sess[p] /\ dev[p] \in Device
    BY <1>0, <1>7, LeaseConstants DEF Lease!PersistLease, Lease!CallShape, Lease!WriteIsRenewal, Lease!Critical
  <2> QED
    BY <1>0, <1>7, <1>a, <1>c, <2>1 DEF Lease!PersistLease, Lease!Leave, Lease!TypeOK, Lease!sweep
<1>8. CASE Lease!RemoveStale(p)
  BY <1>0, <1>8, <1>a, <1>c DEF Lease!RemoveStale, Lease!TypeOK, Lease!CallShape
<1>9. CASE Lease!ReleaseLoad(p) \/ Lease!ReleaseRemove(p)
  BY <1>0, <1>9, <1>a, <1>b DEF Lease!ReleaseLoad, Lease!ReleaseRemove, Lease!Finish, Lease!Foreign,
     Lease!TypeOK, Lease!sweep
<1> QED
  BY <1>1, <1>2, <1>3, <1>4, <1>5, <1>6, <1>7, <1>8, <1>9 DEF Lease!Step

\* Between lease operations there is nothing to say of them.
LEMMA Settled ==
    ASSUME OneCall, NEW p \in Proc, Lease!CallShape', pc'[p] = "idle", at'[p] \notin Waiting
    PROVE  LeaseCallsFit' /\ LeaseCallsSpare'
<1>1. outcome'[p] = "none"
  BY DEF Lease!CallShape
<1> QED
  BY <1>1 DEF OneCall, LeaseCallsFit, LeaseCallsSpare, Waiting

\* Nothing on disk changes.
LEMMA OwnersStay ==
    ASSUME OpenSessionOwnsDevice, UNCHANGED <<lease, record>>
    PROVE  OpenSessionOwnsDevice'
BY DEF OpenSessionOwnsDevice, IsOpen

\* A call that moves on.
LEMMA MoveTurn ==
    ASSUME OneCall, CallOK, NEW p \in Proc, NEW x \in Points,
           at' = [at EXCEPT ![p] = x], UNCHANGED <<lease, record, mySession, myDevice>>,
           x \in NotOpen => ~IsOpen(record[mySession[p]]),
           x \in Holding => Owns(mySession[p], myDevice[p])
    PROVE  CallsInTurn'
<1>1. at'[p] = x
  BY DEF CallOK
<1> QED
  BY <1>1 DEF OneCall, CallsInTurn, IsOpen, Owns

\* A call that ends.
LEMMA EndTurn ==
    ASSUME OneCall, CallOK, NEW p \in Proc, Done(p)
    PROVE  CallsInTurn' /\ at'[p] = "idle"
<1>1. at'[p] = "idle"
  BY DEF CallOK, Done, GoTo
<1> QED
  BY <1>1 DEF OneCall, CallsInTurn, NotOpen, Holding, Exclusive

\* A record is loaded to be extended.
LEMMA LoadTurn ==
    ASSUME OneCall, CallOK, NEW p \in Proc, NEW s, NEW event, NEW point,
           NEW write \in Points, NEW skip \in Points \ NotOpen,
           LoadForAppend(p, s, event, point, write, skip), UNCHANGED <<mySession, myDevice>>,
           write \in Holding \/ skip \in Holding => Owns(mySession[p], myDevice[p]),
           write \in NotOpen => ~IsOpen(record[mySession[p]])
    PROVE  CallsInTurn'
<1>1. at' = [at EXCEPT ![p] = skip] \/ at' = [at EXCEPT ![p] = write]
  BY DEF LoadForAppend, GoTo
<1>2. UNCHANGED <<lease, record>>
  BY DEF LoadForAppend, files
<1> QED BY <1>1, <1>2, MoveTurn

\* What the write of a draft leaves of the call and its session.
LEMMA WriteTurn ==
    ASSUME OneCall, RecordsSound, OpenSessionOwnsDevice, CallsInTurn, WholeInv, NEW p \in Proc, NEW point \in Writing,
           NEW next \in Points \ (Writing \cup Waiting),
           WriteDraft(p, Target(p), point, next),
           next \in NotOpen => point = "endWrite", next \in Holding => point \in Holding
    PROVE  OpenSessionOwnsDevice' /\ CallsInTurn' /\ at'[p] \notin Waiting
<1>0. CallOK
  BY DEF WholeInv, ExclusionInv
<1>1. /\ UNCHANGED lease
      /\ \A t \in Session : IsOpen(record'[t]) => IsOpen(record[t]) /\ record'[t].device = record[t].device
      /\ point = "endWrite" => ~IsOpen(record'[mySession[p]])
  BY DraftWritten
<1>a. OpenSessionOwnsDevice'
  BY <1>1 DEF OpenSessionOwnsDevice
<1>2. CASE next = "idle"
  BY <1>0, <1>a, <1>2, EndTurn DEF WriteDraft, Waiting
<1>3. CASE next # "idle"
  <2>1. at[p] = point /\ at' = [at EXCEPT ![p] = next] /\ UNCHANGED <<mySession, myDevice>>
    BY <1>3 DEF WriteDraft, GoTo, args
  <2>2. at'[p] = next
    BY <1>0, <2>1 DEF CallOK
  <2>3. CallsInTurn'
    BY <1>1, <2>1, <2>2 DEF OneCall, CallsInTurn, Owns, IsOpen
  <2> QED BY <1>a, <2>2, <2>3
<1> QED BY <1>2, <1>3

\* A lease operation is over: its caller goes on where it may, or ends.
LEMMA ReturnTurn ==
    ASSUME OneCall, OpenSessionOwnsDevice, WholeInv, NEW p \in Proc, NEW point,
           NEW next \in Points \ (Writing \cup Waiting), NEW failed \in Points \ (Writing \cup Waiting),
           LeaseReturns(p, point, next, failed),
           outcome[p] # "error" /\ next \in NotOpen => ~IsOpen(record[mySession[p]]),
           failed \notin NotOpen,
           outcome[p] # "error" /\ next \in Holding => Owns(mySession[p], myDevice[p]),
           failed \in Holding => Owns(mySession[p], myDevice[p])
    PROVE  OpenSessionOwnsDevice' /\ CallsInTurn' /\ at'[p] \notin Waiting /\ pc'[p] = "idle"
<1> DEFINE goal == IF outcome[p] = "error" THEN failed ELSE next
<1>0. CallOK /\ Lease!TypeOK
  BY DEF WholeInv, ExclusionInv, Lease!IndInv
<1>1. UNCHANGED <<lease, record>> /\ pc'[p] = "idle" /\ OpenSessionOwnsDevice'
  BY <1>0, OwnersStay DEF LeaseReturns, Lease!Return, Lease!Forget, Lease!TypeOK
<1>2. CASE goal = "idle"
  BY <1>0, <1>1, <1>2, EndTurn DEF LeaseReturns, Waiting
<1>3. CASE goal # "idle"
  <2>1. at' = [at EXCEPT ![p] = goal] /\ UNCHANGED <<mySession, myDevice>>
    BY <1>3 DEF LeaseReturns, GoTo, args
  <2>2. /\ goal \in Points \ (Writing \cup Waiting)
        /\ goal \in NotOpen => ~IsOpen(record[mySession[p]])
        /\ goal \in Holding => Owns(mySession[p], myDevice[p])
    OBVIOUS
  <2>3. at'[p] = goal
    BY <1>0, <2>1 DEF CallOK
  <2> HIDE DEF goal
  <2> QED BY <1>0, <1>1, <2>1, <2>2, <2>3, MoveTurn
<1> QED BY <1>2, <1>3

\* A lease operation is entered.
LEMMA CallTurn ==
    ASSUME OneCall, OpenSessionOwnsDevice, WholeInv, NEW p \in Proc, NEW o, NEW point, NEW next \in Waiting,
           CallLease(p, o, point, next), o # "acquire",
           next \in NotOpen => ~IsOpen(record[mySession[p]]),
           next \in Holding => Owns(mySession[p], myDevice[p]),
           o = "release" => next \in {"startUndo", "endRelease"},
           next \in {"busy", "beating", "idling"} => o \in {"markBusy", "markIdle", "refreshHeartbeat"},
           next # "startAcquire"
    PROVE  OpenSessionOwnsDevice' /\ CallsInTurn' /\ LeaseCallsFit' /\ LeaseCallsSpare'
<1>0. CallOK /\ Lease!TypeOK
  BY DEF WholeInv, ExclusionInv, Lease!IndInv
<1>1. /\ UNCHANGED <<lease, record, mySession, myDevice>> /\ at' = [at EXCEPT ![p] = next]
      /\ Lease!Call(p, o, mySession[p], myDevice[p])
  BY DEF CallLease, Lease!Call, GoTo, args
<1>2. /\ pc'[p] = (IF o = "release" THEN "rload" ELSE "lock")
      /\ op'[p] = o /\ sess'[p] = mySession'[p] /\ at'[p] = next
  BY <1>0, <1>1 DEF Lease!Call, Lease!TypeOK, CallOK
<1>3. OpenSessionOwnsDevice' /\ CallsInTurn'
  BY <1>0, <1>1, OwnersStay, MoveTurn DEF Waiting, Writing, Points, Exclusive
<1>4. LeaseCallsFit' /\ LeaseCallsSpare'
  BY <1>2 DEF OneCall, LeaseCallsFit, LeaseCallsSpare
<1> QED BY <1>3, <1>4

\* Steps of a lease operation, good or bad, and of the clock.
LEMMA LeaseStepSerial ==
    ASSUME SerialInv, WholeInv, OneCall, LeasesFresh, AsOfPast, NEW p \in Proc, LeaseStep(p)
    PROVE  SerialInv'
<1>0. CallOK /\ AllNamed
  BY DEF WholeInv, ExclusionInv, DeviceInv
<1>1. UNCHANGED <<record, tool>> /\ Lease!Step(p)
  BY DEF LeaseStep
<1>2. \A s \in Session, d \in Device :
          Owns(s, d) /\ (IsOpen(record[s]) \/ at[p] \in Holding) => Owns(s, d)'
  BY <1>1, StepSpares
<1>3. OpenSessionOwnsDevice'
  <2>1. \A s \in Session : IsOpen(record[s]) => record[s].device \in Device /\ Owns(s, record[s].device)
    BY <1>0 DEF SerialInv, OpenSessionOwnsDevice, Owns, AllNamed, RecordsNamed, Named, IsOpen
  <2> QED BY <1>1, <1>2, <2>1 DEF OpenSessionOwnsDevice, Owns, IsOpen
<1>4. CallsInTurn'
  <2>1. at[p] \in Holding => mySession[p] \in Session /\ myDevice[p] \in Device /\ Owns(mySession[p], myDevice[p])
    BY <1>0 DEF SerialInv, CallsInTurn, CallOK, AllNamed, CallsNamed, Holding, OnDevice, Exclusive
  <2>2. at[p] \in Holding => Owns(mySession[p], myDevice[p])'
    BY <1>1, <1>2, <2>1 DEF Owns, tool, args
  <2> QED BY <1>1, <2>2 DEF OneCall, SerialInv, CallsInTurn, IsOpen, tool, args
<1>5. LeaseCallsFit' /\ LeaseCallsSpare'
  BY <1>1, StepFits, StepSparesOn
<1> QED BY <1>3, <1>4, <1>5 DEF SerialInv

\* What they leave alone.
LEMMA StillSerial ==
    ASSUME OpenSessionOwnsDevice, CallsInTurn, UNCHANGED <<lease, record, tool>>
    PROVE  OpenSessionOwnsDevice' /\ CallsInTurn'
BY OwnersStay DEF CallsInTurn, Owns, IsOpen, tool, args

\* A lease operation that throws.
LEMMA LeaseErrorSerial ==
    ASSUME SerialInv, WholeInv, OneCall, NEW p \in Proc, LeaseError(p)
    PROVE  SerialInv'
<1>0. Lease!TypeOK /\ Lease!CallShape
  BY DEF WholeInv, Lease!IndInv
<1>1. UNCHANGED <<lease, record, tool, op, sess, dev, copy>> /\ Lease!IoError(p)
  BY DEF LeaseError, Lease!IoError
<1>2. OpenSessionOwnsDevice' /\ CallsInTurn'
  BY <1>1, StillSerial DEF SerialInv
<1>3. pc[p] # "idle" /\ pc'[p] \in {"done", "unlock"} /\ outcome'[p] = "error"
  BY <1>0, <1>1 DEF Lease!IoError, Lease!Finish, Lease!Leave, Lease!TypeOK, Lease!Critical
<1>4. LeaseCallsFit'
  BY <1>1, <1>3 DEF OneCall, SerialInv, LeaseCallsFit, tool, args
<1>5. LeaseCallsSpare'
  BY <1>1, <1>3 DEF OneCall, SerialInv, LeaseCallsSpare
<1> QED BY <1>2, <1>4, <1>5 DEF SerialInv

\* Nothing that matters changes.
LEMMA StutterSerial ==
    ASSUME SerialInv, UNCHANGED <<lease, calls, record, tool>>
    PROVE  SerialInv'
<1>1. OpenSessionOwnsDevice' /\ CallsInTurn'
  BY StillSerial DEF SerialInv
<1>2. LeaseCallsFit' /\ LeaseCallsSpare'
  BY DEF SerialInv, LeaseCallsFit, LeaseCallsSpare, Owns, IsOpen, calls, tool, args
<1> QED BY <1>1, <1>2 DEF SerialInv

\* start_session.
LEMMA StartSerial ==
    ASSUME SerialInv, WholeInv, Lease!CallShape', OneCall, NEW p \in Proc,
           \/ \E s \in Session, d \in Device : StartSession(p, s, d)
           \/ StartAcquired(p) \/ StartPersist(p) \/ StartUndo(p) \/ StartUndone(p)
    PROVE  SerialInv'
<1> USE DEF Points, Exclusive, Writing, Waiting, NotOpen, Holding
<1>0. OpenSessionOwnsDevice /\ CallsInTurn /\ CallOK /\ Lease!TypeOK
  BY DEF SerialInv, WholeInv, ExclusionInv, Lease!IndInv
<1> SUFFICES OpenSessionOwnsDevice' /\ CallsInTurn' /\ LeaseCallsFit' /\ LeaseCallsSpare'
  BY DEF SerialInv
<1>1. ASSUME NEW s \in Session, NEW d \in Device, StartSession(p, s, d)
      PROVE  OpenSessionOwnsDevice' /\ CallsInTurn' /\ LeaseCallsFit' /\ LeaseCallsSpare'
  <2>1. /\ UNCHANGED <<lease, record>> /\ ~IsOpen(record[s])
        /\ pc'[p] = "lock" /\ op'[p] = "acquire" /\ sess'[p] = s /\ dev'[p] = d /\ outcome' = outcome
        /\ pc[p] = "idle"
    BY <1>0, <1>1 DEF StartSession, Lease!Call, Lease!TypeOK
  <2>2. at'[p] = "startAcquire" /\ mySession'[p] = s /\ myDevice'[p] = d
    BY <1>0, <1>1 DEF StartSession, GoTo, CallOK, WholeInv, DeviceInv, AllNamed, CallsNamed
  <2>3. outcome'[p] = "none"
    BY <2>1 DEF WholeInv, Lease!IndInv, Lease!CallShape
  <2>4. CallsInTurn'
    BY <2>1, <2>2 DEF OneCall, CallsInTurn, IsOpen
  <2> QED
    BY <1>0, <2>1, <2>2, <2>3, <2>4, OwnersStay DEF OneCall, LeaseCallsFit, LeaseCallsSpare
<1>2. CASE StartAcquired(p)
  <2>1. at[p] = "startAcquire" /\ pc[p] = "done"
    BY <1>2 DEF StartAcquired, LeaseReturns, Lease!Return
  <2>2. /\ ~IsOpen(record[mySession[p]])
        /\ outcome[p] \in {"error", "busy"} \/ Owns(mySession[p], myDevice[p])
    BY <2>1 DEF SerialInv, CallsInTurn, LeaseCallsFit, LeaseCallsSpare
  <2>3. OpenSessionOwnsDevice' /\ CallsInTurn' /\ at'[p] \notin Waiting /\ pc'[p] = "idle"
    BY <1>0, <1>2, <2>2, ReturnTurn DEF StartAcquired
  <2> QED BY <2>3, Settled
<1>3. CASE StartPersist(p)
  <2>1. /\ WriteRecord(mySession[p], StartedRecord(myDevice[p])) /\ Done(p) /\ UNCHANGED <<lease, pc>>
        /\ Owns(mySession[p], myDevice[p]) /\ pc[p] = "idle" /\ mySession[p] \in Session
    BY <1>0, <1>3 DEF StartPersist, SerialInv, CallsInTurn, LeaseCallsFit, files, calls, CallOK
  <2> DEFINE w == [StartedRecord(myDevice[p]) EXCEPT !.timeline = @ \cap Noted]
  <2>2. w.device = myDevice[p]
    BY DEF StartedRecord
  <2>3. record' = [record EXCEPT ![mySession[p]] = w] /\ DOMAIN record = Session
    BY <2>1 DEF WriteRecord, WholeInv, DeviceInv, AllNamed, RecordsNamed
  <2> HIDE DEF w
  <2>4. record'[mySession[p]] = w /\ \A t \in Session \ {mySession[p]} : record'[t] = record[t]
    BY <2>1, <2>3
  <2>5. OpenSessionOwnsDevice'
    BY <1>0, <2>1, <2>2, <2>4 DEF OpenSessionOwnsDevice, Owns, IsOpen
  <2> QED BY <1>0, <2>1, <2>5, EndTurn, Settled
<1>4. CASE StartUndo(p)
  <2>1. ~IsOpen(record[mySession[p]])
    BY <1>4 DEF StartUndo, CallLease, SerialInv, CallsInTurn
  <2> QED BY <1>0, <1>4, <2>1, CallTurn DEF StartUndo
<1>5. CASE StartUndone(p)
  <2>1. OpenSessionOwnsDevice' /\ CallsInTurn' /\ at'[p] \notin Waiting /\ pc'[p] = "idle"
    BY <1>0, <1>5, ReturnTurn DEF StartUndone
  <2> QED BY <2>1, Settled
<1> QED BY <1>1, <1>2, <1>3, <1>4, <1>5

\* end_session.
LEMMA EndSerial ==
    ASSUME SerialInv, RecordsSound, WholeInv, Lease!CallShape', OneCall, NEW p \in Proc,
           \/ \E s \in Session : EndSession(p, s)
           \/ EndRead(p) \/ EndWrite(p) \/ EndUnknown(p) \/ EndRelease(p) \/ EndReleased(p)
           \/ EndNote(p) \/ EndNoteWrite(p)
    PROVE  SerialInv'
<1> USE DEF Points, Exclusive, Writing, Waiting, NotOpen, Holding
<1>0. OpenSessionOwnsDevice /\ CallsInTurn /\ CallOK /\ Lease!TypeOK
  BY DEF SerialInv, WholeInv, ExclusionInv, Lease!IndInv
<1> SUFFICES OpenSessionOwnsDevice' /\ CallsInTurn' /\ LeaseCallsFit' /\ LeaseCallsSpare'
  BY DEF SerialInv
<1>a. at[p] \notin Waiting => pc[p] = "idle"
  BY DEF SerialInv, LeaseCallsFit
<1>b. at[p] \in NotOpen => ~IsOpen(record[mySession[p]])
  BY DEF SerialInv, CallsInTurn
<1>1. ASSUME NEW s \in Session, EndSession(p, s)
      PROVE  OpenSessionOwnsDevice' /\ CallsInTurn' /\ LeaseCallsFit' /\ LeaseCallsSpare'
  <2>1. UNCHANGED <<lease, record, pc>> /\ at[p] = "idle" /\ at'[p] = "endRead"
    BY <1>0, <1>1 DEF EndSession, GoTo, CallOK, files, calls
  <2>2. CallsInTurn'
    BY <2>1 DEF OneCall, CallsInTurn
  <2> QED BY <1>0, <1>a, <2>1, <2>2, OwnersStay, Settled
<1>2. CASE EndRead(p)
  <2>1. /\ UNCHANGED <<lease, record, pc, mySession, myDevice>> /\ at[p] = "endRead"
        /\ mySession[p] \in Session
    BY <1>0, <1>2 DEF EndRead, files, calls, args, CallOK
  <2>2. CASE IsOpen(record[mySession[p]])
    <3>1. at' = [at EXCEPT ![p] = "endWrite"] /\ at'[p] = "endWrite"
      BY <1>0, <1>2, <2>2 DEF EndRead, GoTo, CallOK
    <3> QED BY <1>0, <1>a, <2>1, <3>1, OwnersStay, MoveTurn, Settled
  <2>3. CASE ~IsOpen(record[mySession[p]])
    <3>1. at' = [at EXCEPT ![p] = "endClosed"] /\ at'[p] = "endClosed"
      BY <1>0, <1>2, <2>3 DEF EndRead, GoTo, CallOK
    <3> QED BY <1>0, <1>a, <2>1, <2>3, <3>1, OwnersStay, MoveTurn, Settled
  <2> QED BY <2>2, <2>3
<1>3. CASE EndWrite(p) \/ EndNoteWrite(p)
  <2>1. pc' = pc /\ at[p] \in {"endWrite", "endNoteWrite"} /\ Target(p) = mySession[p]
    BY <1>3 DEF EndWrite, EndNoteWrite, WriteDraft, calls, Target
  <2>2. OpenSessionOwnsDevice' /\ CallsInTurn' /\ at'[p] \notin Waiting
    BY <1>0, <1>3, <2>1, WriteTurn DEF EndWrite, EndNoteWrite
  <2> QED BY <1>a, <2>1, <2>2, Settled
<1>4. CASE EndUnknown(p)
  <2>1. UNCHANGED <<lease, record, pc>> /\ at[p] = "endClosed" /\ Done(p)
    BY <1>4 DEF EndUnknown, files, calls
  <2> QED BY <1>0, <1>a, <2>1, OwnersStay, EndTurn, Settled
<1>5. CASE EndRelease(p)
  <2>1. ~IsOpen(record[mySession[p]])
    BY <1>5, <1>b DEF EndRelease, CallLease
  <2> QED BY <1>0, <1>5, <2>1, CallTurn DEF EndRelease
<1>6. CASE EndReleased(p)
  <2>1. ~IsOpen(record[mySession[p]])
    BY <1>6, <1>b DEF EndReleased, LeaseReturns
  <2>2. OpenSessionOwnsDevice' /\ CallsInTurn' /\ at'[p] \notin Waiting /\ pc'[p] = "idle"
    BY <1>0, <1>6, <2>1, ReturnTurn DEF EndReleased
  <2> QED BY <2>2, Settled
<1>7. CASE EndNote(p)
  <2>1. /\ LoadForAppend(p, mySession[p], "lease_released", "endNote", "endNoteWrite", "answer")
        /\ UNCHANGED <<mySession, myDevice>> /\ at[p] = "endNote"
        /\ UNCHANGED <<lease, record, pc>>
    BY <1>7 DEF EndNote, LoadForAppend, args, files, calls
  <2>2. mySession[p] \in Session /\ ~IsOpen(record[mySession[p]])
    BY <1>0, <1>b, <2>1 DEF CallOK
  <2>3. CallsInTurn'
    BY <1>0, <2>1, <2>2, LoadTurn
  <2>4. at'[p] \notin Waiting
    BY <1>0, <2>1 DEF LoadForAppend, GoTo, CallOK
  <2> QED BY <1>0, <1>a, <2>1, <2>3, <2>4, OwnersStay, Settled
<1> QED BY <1>1, <1>2, <1>3, <1>4, <1>5, <1>6, <1>7

\* withSessionExecution up to the task, and the tools that run bare.
LEMMA CalledSerial ==
    ASSUME SerialInv, RecordsSound, WholeInv, Lease!CallShape', OneCall, NEW p \in Proc,
           \/ \E s \in Session : ToolCall(p, s) \/ BareToolCall(p, s)
           \/ Recovered(p) \/ Note(p) \/ NoteWrite(p) \/ Resolve(p)
           \/ BareEvidence(p) \/ BareEvidenceWrite(p) \/ Answer(p)
    PROVE  SerialInv'
<1> USE DEF Points, Exclusive, Writing, Waiting, NotOpen, Holding
<1>0. OpenSessionOwnsDevice /\ CallsInTurn /\ CallOK /\ Lease!TypeOK
  BY DEF SerialInv, WholeInv, ExclusionInv, Lease!IndInv
<1> SUFFICES OpenSessionOwnsDevice' /\ CallsInTurn' /\ LeaseCallsFit' /\ LeaseCallsSpare'
  BY DEF SerialInv
<1>a. at[p] \notin Waiting => pc[p] = "idle"
  BY DEF SerialInv, LeaseCallsFit
<1>1. ASSUME NEW s \in Session, ToolCall(p, s)
      PROVE  OpenSessionOwnsDevice' /\ CallsInTurn' /\ LeaseCallsFit' /\ LeaseCallsSpare'
  <2>1. /\ UNCHANGED <<lease, record>>
        /\ pc'[p] = "list" /\ op'[p] = "recover" /\ at'[p] = "recover"
    BY <1>0, <1>1 DEF ToolCall, Lease!CallRecover, Lease!TypeOK, GoTo, CallOK
  <2>2. CallsInTurn'
    BY <2>1 DEF OneCall, CallsInTurn
  <2> QED BY <1>0, <2>1, <2>2, OwnersStay DEF OneCall, LeaseCallsFit, LeaseCallsSpare
<1>2. ASSUME NEW s \in Session, BareToolCall(p, s)
      PROVE  OpenSessionOwnsDevice' /\ CallsInTurn' /\ LeaseCallsFit' /\ LeaseCallsSpare'
  <2>1. UNCHANGED <<lease, record, pc>> /\ at[p] = "idle" /\ at'[p] = "bare"
    BY <1>0, <1>2 DEF BareToolCall, GoTo, CallOK, files, calls
  <2>2. CallsInTurn'
    BY <2>1 DEF OneCall, CallsInTurn
  <2> QED BY <1>0, <1>a, <2>1, <2>2, OwnersStay, Settled
<1>3. CASE Recovered(p)
  <2>1. UNCHANGED <<lease, record>> /\ pc'[p] = "idle"
    BY <1>0, <1>3 DEF Recovered, Lease!Return, Lease!Forget, Lease!TypeOK
  <2>2. CASE Done(p)
    BY <1>0, <2>1, <2>2, OwnersStay, EndTurn, Settled
  <2>3. CASE ~Done(p)
    <3>1. at' = [at EXCEPT ![p] = "note"] /\ at'[p] = "note" /\ UNCHANGED <<mySession, myDevice>>
      BY <1>0, <1>3, <2>3 DEF Recovered, GoTo, CallOK, args
    <3> QED BY <1>0, <2>1, <3>1, OwnersStay, MoveTurn, Settled
  <2> QED BY <2>2, <2>3
<1>4. CASE Note(p)
  <2>1. PICK s \in toNote[p] :
          /\ LoadForAppend(p, s, "lease_recovered_stale", "note", "noteWrite", "note")
          /\ noting' = [noting EXCEPT ![p] = s] /\ UNCHANGED <<mySession, myDevice>>
    BY <1>4 DEF Note
  <2>2. s \in Session /\ noting'[p] = s
    BY <2>1 DEF WholeInv, DeviceInv, AllNamed, NotesNamed
  <2>3. at[p] = "note" /\ UNCHANGED <<lease, record, pc>> /\ at'[p] \notin Waiting
    BY <1>0, <2>1 DEF LoadForAppend, GoTo, CallOK, files, calls
  <2>4. CallsInTurn'
    BY <1>0, <2>1, <2>2, LoadTurn
  <2> QED BY <1>0, <1>a, <2>3, <2>4, OwnersStay, Settled
<1>5. CASE NoteWrite(p) \/ BareEvidenceWrite(p)
  <2>1. pc' = pc /\ at[p] \in {"noteWrite", "bareWrite"}
        /\ Target(p) = IF at[p] = "noteWrite" THEN noting[p] ELSE mySession[p]
    BY <1>5 DEF NoteWrite, BareEvidenceWrite, WriteDraft, calls, Target
  <2>2. \/ WriteDraft(p, Target(p), "noteWrite", "note")
        \/ WriteDraft(p, Target(p), "bareWrite", "answer")
    BY <1>5 DEF NoteWrite, BareEvidenceWrite, WriteDraft, Target
  <2>3. OpenSessionOwnsDevice' /\ CallsInTurn' /\ at'[p] \notin Waiting
    BY <1>0, <2>2, WriteTurn
  <2> QED BY <1>a, <2>1, <2>3, Settled
<1>6. CASE Resolve(p)
  <2>1. UNCHANGED <<lease, record, pc>> /\ at[p] = "note" /\ mySession[p] \in Session
    BY <1>0, <1>6 DEF Resolve, files, calls, CallOK
  <2>2. CASE Done(p)
    BY <1>0, <1>a, <2>1, <2>2, OwnersStay, EndTurn, Settled
  <2>3. CASE ~Done(p) /\ IsOpen(record[mySession[p]])
    <3>1. /\ at'[p] = "queued" /\ myDevice'[p] = record[mySession[p]].device
          /\ mySession' = mySession
      BY <1>0, <1>6, <2>3 DEF Resolve, GoTo, CallOK, WholeInv, DeviceInv, AllNamed, CallsNamed
    <3>2. Owns(mySession[p], record[mySession[p]].device)
      BY <1>0, <2>1, <2>3 DEF OpenSessionOwnsDevice, Owns
    <3>3. CallsInTurn'
      BY <2>1, <3>1, <3>2 DEF OneCall, CallsInTurn, Owns
    <3> QED BY <1>0, <1>a, <2>1, <3>1, <3>3, OwnersStay, Settled
  <2>4. CASE ~Done(p) /\ ~IsOpen(record[mySession[p]])
    <3>1. at' = [at EXCEPT ![p] = "bare"] /\ at'[p] = "bare" /\ UNCHANGED <<mySession, myDevice>>
      BY <1>0, <1>6, <2>4 DEF Resolve, GoTo, CallOK
    <3> QED BY <1>0, <1>a, <2>1, <3>1, OwnersStay, MoveTurn, Settled
  <2> QED BY <2>2, <2>3, <2>4
<1>7. CASE BareEvidence(p)
  <2>1. /\ LoadForAppend(p, mySession[p], "evidence", "bare", "bareWrite", "answer")
        /\ UNCHANGED <<lease, record, pc, mySession, myDevice>> /\ at[p] = "bare"
    BY <1>7 DEF BareEvidence, LoadForAppend, args, files, calls
  <2>2. mySession[p] \in Session /\ at'[p] \notin Waiting
    BY <1>0, <2>1 DEF LoadForAppend, GoTo, CallOK
  <2>3. CallsInTurn'
    BY <1>0, <2>1, <2>2, LoadTurn
  <2> QED BY <1>0, <1>a, <2>1, <2>2, <2>3, OwnersStay, Settled
<1>8. CASE Answer(p)
  <2>1. UNCHANGED <<lease, record, pc>> /\ at[p] \notin Waiting /\ Done(p)
    BY <1>8 DEF Answer, files, calls
  <2> QED BY <1>0, <1>a, <2>1, OwnersStay, EndTurn, Settled
<1> QED BY <1>1, <1>2, <1>3, <1>4, <1>5, <1>6, <1>7, <1>8

\* runExclusive.
LEMMA ExclusiveSerial ==
    ASSUME SerialInv, RecordsSound, WholeInv, Lease!CallShape', OneCall, NEW p \in Proc,
           \/ Queue(p) \/ QueueWrite(p) \/ TakeSessionLock(p) \/ SessionLockTaken(p)
           \/ Dequeue(p) \/ DequeueWrite(p) \/ MarkBusy(p) \/ MarkedBusy(p)
           \/ Heartbeat(p) \/ HeartbeatDone(p) \/ TaskEvidence(p) \/ TaskEvidenceWrite(p)
           \/ MarkIdle(p) \/ MarkedIdle(p) \/ SessionUnlock(p)
    PROVE  SerialInv'
<1> USE DEF Points, Exclusive, Writing, Waiting, NotOpen, Holding
<1>0. OpenSessionOwnsDevice /\ CallsInTurn /\ CallOK /\ Lease!TypeOK
  BY DEF SerialInv, WholeInv, ExclusionInv, Lease!IndInv
<1> SUFFICES OpenSessionOwnsDevice' /\ CallsInTurn' /\ LeaseCallsFit' /\ LeaseCallsSpare'
  BY DEF SerialInv
<1>a. at[p] \notin Waiting => pc[p] = "idle"
  BY DEF SerialInv, LeaseCallsFit
<1>b. at[p] \in Holding => Owns(mySession[p], myDevice[p])
  BY DEF SerialInv, CallsInTurn
<1>1. CASE Queue(p) \/ Dequeue(p) \/ TaskEvidence(p)
  <2>1. /\ \/ LoadForAppend(p, mySession[p], "queue_wait_started", "queued", "queuedWrite", "wait")
           \/ LoadForAppend(p, mySession[p], "queue_wait_ended", "dequeued", "dequeuedWrite", "markBusy")
           \/ LoadForAppend(p, mySession[p], "evidence", "task", "taskWrite", "finally")
        /\ UNCHANGED <<lease, record, pc, mySession, myDevice>> /\ at[p] \in {"queued", "dequeued", "task"}
    BY <1>1 DEF Queue, Dequeue, TaskEvidence, LoadForAppend, args, files, calls
  <2>2. mySession[p] \in Session /\ at'[p] \notin Waiting
    BY <1>0, <2>1 DEF LoadForAppend, GoTo, CallOK
  <2>3. CallsInTurn'
    BY <1>0, <1>b, <2>1, <2>2, LoadTurn
  <2> QED BY <1>0, <1>a, <2>1, <2>2, <2>3, OwnersStay, Settled
<1>2. CASE QueueWrite(p) \/ DequeueWrite(p) \/ TaskEvidenceWrite(p)
  <2>1. pc' = pc /\ at[p] \in {"queuedWrite", "dequeuedWrite", "taskWrite"} /\ Target(p) = mySession[p]
    BY <1>2 DEF QueueWrite, DequeueWrite, TaskEvidenceWrite, WriteDraft, calls, Target
  <2>2. OpenSessionOwnsDevice' /\ CallsInTurn' /\ at'[p] \notin Waiting
    BY <1>0, <1>2, <2>1, WriteTurn DEF QueueWrite, DequeueWrite, TaskEvidenceWrite
  <2> QED BY <1>a, <2>1, <2>2, Settled
<1>3. CASE TakeSessionLock(p)
  <2>1. UNCHANGED <<lease, record, pc, mySession, myDevice>> /\ at[p] = "wait"
        /\ at' = [at EXCEPT ![p] = "dequeued"] /\ at'[p] = "dequeued"
    BY <1>0, <1>3 DEF TakeSessionLock, GoTo, args, files, calls, CallOK
  <2> QED BY <1>0, <1>a, <1>b, <2>1, OwnersStay, MoveTurn, Settled
<1>4. CASE SessionLockTaken(p)
  <2>1. UNCHANGED <<lease, record, calls>> /\ at[p] = "wait"
    BY <1>4 DEF SessionLockTaken, files
  <2>2. CASE Done(p)
    BY <1>0, <1>a, <2>1, <2>2, OwnersStay, EndTurn, Settled DEF calls
  <2>3. CASE UNCHANGED <<at, args, draft, toNote>>
    <3>1. CallsInTurn'
      BY <1>0, <2>1, <2>3 DEF CallsInTurn, Target, Owns, IsOpen, args
    <3> QED BY <1>0, <1>a, <2>1, <2>3, <3>1, OwnersStay, Settled DEF calls
  <2> QED BY <1>4, <2>2, <2>3 DEF SessionLockTaken
<1>5. CASE MarkBusy(p) \/ Heartbeat(p) \/ MarkIdle(p)
  <2>1. Owns(mySession[p], myDevice[p])
    BY <1>5, <1>b DEF MarkBusy, Heartbeat, MarkIdle, CallLease
  <2> QED BY <1>0, <1>5, <2>1, CallTurn DEF MarkBusy, Heartbeat, MarkIdle
<1>6. CASE MarkedBusy(p) \/ HeartbeatDone(p) \/ MarkedIdle(p)
  <2>1. Owns(mySession[p], myDevice[p])
    BY <1>6, <1>b DEF MarkedBusy, HeartbeatDone, MarkedIdle, LeaseReturns
  <2>2. OpenSessionOwnsDevice' /\ CallsInTurn' /\ at'[p] \notin Waiting /\ pc'[p] = "idle"
    BY <1>0, <1>6, <2>1, ReturnTurn DEF MarkedBusy, HeartbeatDone, MarkedIdle
  <2> QED BY <2>2, Settled
<1>7. CASE SessionUnlock(p)
  <2>1. UNCHANGED <<lease, record, pc>> /\ at[p] \notin Waiting /\ Done(p)
    BY <1>7 DEF SessionUnlock, files, calls
  <2> QED BY <1>0, <1>a, <2>1, OwnersStay, EndTurn, Settled
<1> QED BY <1>1, <1>2, <1>3, <1>4, <1>5, <1>6, <1>7

\* A tool call that throws, or whose process dies.
LEMMA FailSerial ==
    ASSUME SerialInv, WholeInv, Lease!CallShape', OneCall, NEW p \in Proc, Throw(p) \/ Crash(p)
    PROVE  SerialInv'
<1> USE DEF Points, Exclusive, Writing, Waiting, NotOpen, Holding
<1>0. OpenSessionOwnsDevice /\ CallsInTurn /\ CallOK /\ Lease!TypeOK
  BY DEF SerialInv, WholeInv, ExclusionInv, Lease!IndInv
<1> SUFFICES OpenSessionOwnsDevice' /\ CallsInTurn' /\ LeaseCallsFit' /\ LeaseCallsSpare'
  BY DEF SerialInv
<1>a. at[p] \notin Waiting => pc[p] = "idle"
  BY DEF SerialInv, LeaseCallsFit
<1>1. UNCHANGED <<lease, record>> /\ pc'[p] = "idle"
  BY <1>0, <1>a DEF Throw, Crash, Lease!Crash, Lease!Forget, Lease!TypeOK, files, calls
<1>2. CASE Done(p)
  BY <1>0, <1>1, <1>2, OwnersStay, EndTurn, Settled
<1>3. CASE ~Done(p)
  <2>1. /\ at[p] = "taskWrite" /\ at' = [at EXCEPT ![p] = "finally"] /\ at'[p] = "finally"
        /\ UNCHANGED <<mySession, myDevice>>
    BY <1>0, <1>3 DEF Throw, Crash, GoTo, args, CallOK
  <2>2. Owns(mySession[p], myDevice[p])
    BY <2>1 DEF SerialInv, CallsInTurn
  <2> QED BY <1>0, <1>1, <2>1, <2>2, OwnersStay, MoveTurn, Settled
<1> QED BY <1>2, <1>3

\* Every step, one call at a time.
LEMMA StepSerial ==
    ASSUME SerialInv, RecordsSound, WholeInv, OneCall, LeasesFresh, AsOfPast, [Next]_vars
    PROVE  SerialInv'
<1>1. Lease!CallShape'
  BY WholeStays DEF WholeInv, Lease!IndInv
<1>2. CASE Tick \/ UNCHANGED vars
  <2>1. UNCHANGED <<lease, calls, record, tool>>
    BY <1>2 DEF Tick, vars, files, calls, Lease!Tick, Lease!callVars, Lease!sweep
  <2> QED BY <2>1, StutterSerial
<1>3. ASSUME NEW p \in Proc, Step(p) PROVE SerialInv'
  BY <1>1, <1>3, LeaseStepSerial, StartSerial, EndSerial, CalledSerial, ExclusiveSerial DEF Step
<1> QED
  BY <1>1, <1>2, <1>3, StartSerial, EndSerial, CalledSerial, LeaseErrorSerial, FailSerial DEF Next

\* The invariant holds, one call at a time and as long as no lease goes stale.
LEMMA SerialHolds ==
    ASSUME OneCall
    PROVE  Spec /\ []LeasesFresh => []SerialInv
<1>0. Init => AsOfPast
  BY DEF Init, Lease!Init, AsOfPast
<1>1. Init => SerialInv /\ RecordsSound /\ WholeInv /\ AsOfPast
  BY <1>0, InitSerial, InitRecords, InitWhole
<1>2. SerialInv /\ RecordsSound /\ WholeInv /\ AsOfPast /\ LeasesFresh /\ [Next]_vars
      => SerialInv' /\ RecordsSound' /\ WholeInv' /\ AsOfPast'
  BY StepSerial, RecordsStep, WholeStays, AsOfStays
<1> QED BY <1>1, <1>2, PTL DEF Spec

\* One call at a time and no lease going stale, an open session owns the lease of its device,
\* whatever fails (architecture doc:46).
THEOREM OpenSessionsOwn ==
    ASSUME OneCall
    PROVE  Spec /\ []LeasesFresh => []OpenSessionOwnsDevice
<1>1. SerialInv => OpenSessionOwnsDevice
  BY DEF SerialInv
<1> QED BY SerialHolds, <1>1, PTL

\* And while the handler of a tool runs, its session owns the device.
THEOREM TasksHoldLeases ==
    ASSUME OneCall
    PROVE  Spec /\ []LeasesFresh => []TaskHoldsLease
<1>1. SerialInv => TaskHoldsLease
  BY DEF SerialInv, CallsInTurn, TaskHoldsLease, Tasks, Holding, Exclusive, Owns
<1> QED BY SerialHolds, <1>1, PTL
=============================================================================
