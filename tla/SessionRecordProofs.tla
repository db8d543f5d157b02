------------------------- MODULE SessionRecordProofs -------------------------
(***************************************************************************)
(* The record store with one writer per session implements SessionLog, and *)
(* keeps its two copies of interruptions and checkpoint alike, for any     *)
(* sessions, processes, events and artifacts, and whatever write fails     *)
(* half way.                                                               *)
(***************************************************************************)
EXTENDS SessionRecord, TLAPS

\* A process that is at work has a job, and a start loads nothing.
JobShape ==
    \A p \in Proc :
        /\ pc[p] # "idle" => job[p] \in Jobs
        /\ pc[p] = "load" => job[p].op # "start"

\* The callers' discipline: one writer of a session at a time.
OneWriter ==
    \A p, q \in Proc :
        p # q /\ pc[p] # "idle" /\ pc[q] # "idle" => job[p].session # job[q].session

\* A draft is made from the record as it still is on disk, or for a new
\* session; once written, it is the record.
DraftShape ==
    \A p \in Proc :
        /\ pc[p] = "write" =>
             \/ job[p].op = "start" /\ draft[p] = StartedRecord(job[p].device)
             \/ /\ job[p].op # "start" /\ record[job[p].session] # NoRecord
                /\ ~(job[p].op = "end" /\ record[job[p].session].closed)
                /\ draft[p] = NextRecord(job[p], record[job[p].session])
        /\ pc[p] = "audit" =>
             draft[p] = record[job[p].session] /\ draft[p] # NoRecord

IndInv == TypeOK /\ JobShape /\ OneWriter /\ DraftShape /\ CopiesAgree

-----------------------------------------------------------------------------
(* Lemmas about the records that the writers build. *)

Agree(r) ==
    r.closed \/ (r.interruptions = r.sessionInterruptions /\ r.checkpoint = r.sessionCheckpoint)

\* What a job other than a start adds to the timeline.
Added(j) ==
    IF j.op = "end" THEN {"session_ended"} ELSE IF j.op = "artifacts" THEN {} ELSE {j.event}

LEMMA JobCases ==
    ASSUME NEW j \in Jobs
    PROVE  /\ j.session \in Session
           /\ j.op \in {"start", "end", "append", "interruption", "artifacts"}
           /\ j.op = "start" => j.device \in Device
           /\ j.op \in {"end", "append", "interruption", "artifacts"} => j.artifacts \in SUBSET Artifact
           /\ j.op \in {"append", "interruption"} => j.event \in Event
           /\ j.op = "interruption" => j.checkpoint \in Event \cup {NoCheckpoint}
BY DEF Jobs

LEMMA StartedFacts ==
    ASSUME NEW d \in Device
    PROVE  /\ StartedRecord(d) \in Records
           /\ StartedRecord(d) # NoRecord
           /\ Agree(StartedRecord(d))
           /\ ~StartedRecord(d).closed
           /\ StartedRecord(d).timeline = {"session_started"}
<1>1. StartedRecord(d) \in Records
  BY DEF StartedRecord, Records, TimelineEvents
<1> QED  BY <1>1, RecordAssumption DEF StartedRecord, Agree

LEMMA NextFacts ==
    ASSUME NEW j \in Jobs, j.op # "start", NEW r \in Records
    PROVE  /\ NextRecord(j, r) \in Records
           /\ NextRecord(j, r) # NoRecord
           /\ Agree(r) => Agree(NextRecord(j, r))
           /\ NextRecord(j, r).closed <=> (r.closed \/ j.op = "end")
           /\ NextRecord(j, r).timeline = r.timeline \cup Added(j)
<1> DEFINE n == NextRecord(j, r)
<1> SUFFICES /\ n \in Records
             /\ Agree(r) => Agree(n)
             /\ n.closed <=> (r.closed \/ j.op = "end")
             /\ n.timeline = r.timeline \cup Added(j)
  BY RecordAssumption
<1>1. CASE j.op = "end"
  <2>1. n = EndedRecord(r, j.artifacts)  BY <1>1 DEF NextRecord
  <2>2. j.artifacts \in SUBSET Artifact  BY <1>1, JobCases
  <2>3. n \in Records
    <3>1. /\ r.timeline \cup {"session_ended"} \in SUBSET TimelineEvents
      BY <2>2 DEF Records, TimelineEvents
    <3> QED  BY <2>1, <2>2, <3>1 DEF EndedRecord, Records
  <2>4. n.closed = TRUE  BY <2>1 DEF EndedRecord, Records
  <2>5. n.timeline = r.timeline \cup Added(j)  BY <2>1, <1>1 DEF EndedRecord, Records, Added
  <2>6. Agree(r) => Agree(n)  BY <2>1, <2>4 DEF EndedRecord, Records, Agree
  <2> QED  BY <2>3, <2>4, <2>5, <2>6, <1>1
<1>2. CASE j.op = "append"
  <2>1. n = AppendedRecord(r, j.event, j.artifacts)  BY <1>2 DEF NextRecord
  <2>2. j.artifacts \in SUBSET Artifact /\ j.event \in Event  BY <1>2, JobCases
  <2>3. n \in Records
    <3>1. /\ r.timeline \cup {j.event} \in SUBSET TimelineEvents
          /\ r.artifacts \cup j.artifacts \in SUBSET Artifact
      BY <2>2 DEF Records, TimelineEvents
    <3> QED  BY <2>1, <2>2, <3>1 DEF AppendedRecord, Records
  <2>4. n.closed = r.closed  BY <2>1 DEF AppendedRecord, Records
  <2>5. n.timeline = r.timeline \cup Added(j)  BY <2>1, <1>2 DEF AppendedRecord, Records, Added
  <2>6. Agree(r) => Agree(n)  BY <2>1, <2>4 DEF AppendedRecord, Records, Agree
  <2> QED  BY <2>3, <2>4, <2>5, <2>6, <1>2
<1>3. CASE j.op = "interruption"
  <2>1. n = InterruptedRecord(r, j.event, j.event, j.checkpoint, j.artifacts)  BY <1>3 DEF NextRecord
  <2>2. /\ j.artifacts \in SUBSET Artifact /\ j.event \in Event
        /\ j.checkpoint \in Event \cup {NoCheckpoint}
     BY <1>3, JobCases
  <2>3. n \in Records
    <3>1. /\ r.timeline \cup {j.event} \in SUBSET TimelineEvents
          /\ r.artifacts \cup j.artifacts \in SUBSET Artifact
          /\ r.interruptions \cup {j.event} \in SUBSET Event
      BY <2>2 DEF Records, TimelineEvents
    <3> QED  BY <2>1, <2>2, <3>1 DEF InterruptedRecord, Records
  <2>4. n.closed = r.closed  BY <2>1 DEF InterruptedRecord, Records
  <2>5. n.timeline = r.timeline \cup Added(j)  BY <2>1, <1>3 DEF InterruptedRecord, Records, Added
  <2>6. Agree(r) => Agree(n)  BY <2>1, <2>4 DEF InterruptedRecord, Records, Agree
  <2> QED  BY <2>3, <2>4, <2>5, <2>6, <1>3
<1>4. CASE j.op = "artifacts"
  <2>1. n = ArtifactsRecord(r, j.artifacts)  BY <1>4 DEF NextRecord
  <2>2. j.artifacts \in SUBSET Artifact  BY <1>4, JobCases
  <2>3. n \in Records
    <3>1. /\ r.artifacts \cup j.artifacts \in SUBSET Artifact
      BY <2>2 DEF Records, TimelineEvents
    <3> QED  BY <2>1, <2>2, <3>1 DEF ArtifactsRecord, Records
  <2>4. n.closed = r.closed  BY <2>1 DEF ArtifactsRecord, Records
  <2>5. n.timeline = r.timeline \cup Added(j)  BY <2>1, <1>4 DEF ArtifactsRecord, Records, Added
  <2>6. Agree(r) => Agree(n)  BY <2>1, <2>4 DEF ArtifactsRecord, Records, Agree
  <2> QED  BY <2>3, <2>4, <2>5, <2>6, <1>4
<1> QED  BY <1>1, <1>2, <1>3, <1>4, JobCases

-----------------------------------------------------------------------------
(* The invariant, one step per action. *)

LEMMA InitInv == Init => IndInv
BY DEF Init, IndInv, TypeOK, JobShape, OneWriter, DraftShape, CopiesAgree

LEMMA BeginInv ==
    ASSUME IndInv, NEW p \in Proc, NEW j \in Jobs, Begin(p, j)
    PROVE  IndInv'
<1> USE DEF IndInv
<1>1. TypeOK'
  BY StartedFacts, JobCases DEF TypeOK, Begin
<1>2. JobShape'
  BY DEF JobShape, TypeOK, Begin
<1>3. OneWriter'
  BY DEF OneWriter, TypeOK, Begin
<1>4. DraftShape'
  BY DEF DraftShape, TypeOK, Begin
<1>5. CopiesAgree'
  BY DEF CopiesAgree, Begin
<1> QED  BY <1>1, <1>2, <1>3, <1>4, <1>5

LEMMA LoadInv ==
    ASSUME IndInv, NEW p \in Proc, Load(p) \/ LoadEnded(p)
    PROVE  IndInv'
<1> USE DEF IndInv
<1> DEFINE s == job[p].session
<1>0. /\ job[p] \in Jobs /\ job[p].op # "start" /\ s \in Session
      /\ record[s] \in Records
  BY JobCases DEF TypeOK, JobShape, Load, LoadEnded
<1>1. TypeOK'
  BY <1>0, NextFacts DEF TypeOK, Load, LoadEnded
<1>2. JobShape'
  BY DEF JobShape, TypeOK, Load, LoadEnded
<1>3. OneWriter'
  BY DEF OneWriter, TypeOK, Load, LoadEnded
<1>4. DraftShape'
  BY <1>0 DEF DraftShape, TypeOK, Load, LoadEnded
<1>5. CopiesAgree'
  BY DEF CopiesAgree, Load, LoadEnded
<1> QED  BY <1>1, <1>2, <1>3, <1>4, <1>5

LEMMA WriteInv ==
    ASSUME IndInv, NEW p \in Proc, Write(p)
    PROVE  IndInv'
<1> USE DEF IndInv
<1> DEFINE s == job[p].session
<1>0. job[p] \in Jobs /\ s \in Session
  BY JobCases DEF TypeOK, JobShape, Write
<1>1. /\ draft[p] \in Records /\ draft[p] # NoRecord
      /\ Agree(draft[p])
  <2>1. CASE job[p].op = "start" /\ draft[p] = StartedRecord(job[p].device)
    BY <2>1, <1>0, JobCases, StartedFacts
  <2>2. CASE /\ job[p].op # "start" /\ record[s] # NoRecord
             /\ ~(job[p].op = "end" /\ record[s].closed)
             /\ draft[p] = NextRecord(job[p], record[s])
    <3>1. record[s] \in Records /\ Agree(record[s])
      BY <2>2, <1>0 DEF TypeOK, CopiesAgree, Agree
    <3> QED  BY <2>2, <3>1, <1>0, NextFacts
  <2> QED  BY <2>1, <2>2 DEF DraftShape, Write
<1>2. TypeOK'
  BY <1>0, <1>1 DEF TypeOK, Write
<1>3. JobShape'
  BY DEF JobShape, TypeOK, Write
<1>4. OneWriter'
  BY DEF OneWriter, TypeOK, Write
<1>5. DraftShape'
  <2> SUFFICES ASSUME NEW q \in Proc
               PROVE  /\ pc'[q] = "write" =>
                           \/ job'[q].op = "start" /\ draft'[q] = StartedRecord(job'[q].device)
                           \/ /\ job'[q].op # "start" /\ record'[job'[q].session] # NoRecord
                              /\ ~(job'[q].op = "end" /\ record'[job'[q].session].closed)
                              /\ draft'[q] = NextRecord(job'[q], record'[job'[q].session])
                      /\ pc'[q] = "audit" =>
                           draft'[q] = record'[job'[q].session] /\ draft'[q] # NoRecord
    BY DEF DraftShape
  <2>1. CASE q = p
    BY <2>1, <1>0, <1>1 DEF TypeOK, Write
  <2>2. CASE q # p /\ pc[q] # "idle"
    <3>1. job[q].session # s
      BY <2>2 DEF OneWriter, Write
    <3>2. /\ record'[job[q].session] = record[job[q].session]
          /\ pc'[q] = pc[q] /\ draft'[q] = draft[q] /\ job'[q] = job[q]
      BY <2>2, <3>1 DEF TypeOK, Write
    <3> QED  BY <3>2 DEF DraftShape
  <2>3. CASE q # p /\ pc[q] = "idle"
    BY <2>3 DEF TypeOK, Write
  <2> QED  BY <2>1, <2>2, <2>3
<1>6. CopiesAgree'
  <2> SUFFICES ASSUME NEW t \in Session, record'[t] # NoRecord, ~record'[t].closed
               PROVE  /\ record'[t].interruptions = record'[t].sessionInterruptions
                      /\ record'[t].checkpoint = record'[t].sessionCheckpoint
    BY DEF CopiesAgree
  <2>1. CASE t = s
    BY <2>1, <1>0, <1>1 DEF TypeOK, Write, Agree
  <2>2. CASE t # s
    BY <2>2, <1>0 DEF TypeOK, Write, CopiesAgree
  <2> QED  BY <2>1, <2>2
<1> QED  BY <1>2, <1>3, <1>4, <1>5, <1>6

LEMMA EndInv ==
    ASSUME IndInv, NEW p \in Proc, LoadMissing(p) \/ Sync(p) \/ Abandon(p)
    PROVE  IndInv'
<1> USE DEF IndInv
<1>1. TypeOK'
  <2>1. CASE Sync(p)
    <3>1. job[p].session \in Session
      BY <2>1, JobCases DEF JobShape, Sync
    <3> QED  BY <2>1, <3>1 DEF TypeOK, Sync, End
  <2>2. CASE LoadMissing(p) \/ Abandon(p)
    BY <2>2 DEF TypeOK, LoadMissing, Abandon, End
  <2> QED  BY <2>1, <2>2
<1>2. JobShape'
  BY DEF JobShape, TypeOK, LoadMissing, Sync, Abandon, End
<1>3. OneWriter'
  BY DEF OneWriter, TypeOK, LoadMissing, Sync, Abandon, End
<1>4. DraftShape'
  BY DEF DraftShape, TypeOK, LoadMissing, Sync, Abandon, End
<1>5. CopiesAgree'
  BY DEF CopiesAgree, LoadMissing, Sync, Abandon
<1> QED  BY <1>1, <1>2, <1>3, <1>4, <1>5

LEMMA NextInv == IndInv /\ [Next]_vars => IndInv'
<1> SUFFICES ASSUME IndInv, [Next]_vars PROVE IndInv'  OBVIOUS
<1>1. CASE UNCHANGED vars
  BY <1>1 DEF vars, IndInv, TypeOK, JobShape, OneWriter, DraftShape, CopiesAgree
<1>2. CASE Next
  BY <1>2, BeginInv, LoadInv, WriteInv, EndInv DEF Next, Step
<1> QED  BY <1>1, <1>2

-----------------------------------------------------------------------------
(* Theorems. *)

\* The invariant holds: types, the shape of jobs and drafts, one writer per session.
THEOREM Invariance == Spec => []IndInv
BY InitInv, NextInv, PTL DEF Spec

\* The two copies of the interruptions and of the checkpoint, of which resume reads one
\* and persistInterruptionEvent the other, agree in every open record.
THEOREM CopiesAlwaysAgree == Spec => []CopiesAgree
<1>1. IndInv => CopiesAgree  BY DEF IndInv
<1> QED  BY <1>1, Invariance, PTL

\* The audit file that a completed write leaves was made from the record on disk
\* (syncSessionAuditRecord), whatever writes failed before.
THEOREM AuditIsOfRecord == Spec => AuditFollowsRecord
<1>1. ASSUME IndInv, [Next]_vars
      PROVE  [\A p \in Proc : Sync(p) => audit'[job[p].session] = record'[job[p].session]]_vars
  <2> SUFFICES ASSUME NEW p \in Proc, Sync(p)
               PROVE  audit'[job[p].session] = record'[job[p].session]
    OBVIOUS
  <2>1. job[p].session \in Session
    BY <1>1, JobCases DEF IndInv, JobShape, Sync
  <2> QED  BY <1>1, <2>1 DEF IndInv, TypeOK, DraftShape, Sync
<1> QED  BY <1>1, Invariance, PTL DEF Spec, AuditFollowsRecord

\* The record store implements the log: only a write changes what the log says, and it
\* starts, closes or extends the log of one session.
THEOREM Refinement == Spec => LogSpec
<1>1. Init => Log!Init
  BY DEF Init, Log!Init
<1>2. ASSUME IndInv, [Next]_vars PROVE [Log!Next]_(Log!vars)
  <2>1. CASE UNCHANGED record
    BY <2>1 DEF Log!vars
  <2>2. ASSUME NEW p \in Proc, Write(p) PROVE [Log!Next]_(Log!vars)
    <3> DEFINE s == job[p].session
               r == record[s]
    <3>0. job[p] \in Jobs /\ s \in Session /\ record \in [Session -> Records \cup {NoRecord}]
      BY <1>2, <2>2, JobCases DEF IndInv, TypeOK, JobShape, Write
    <3>1. record' = [record EXCEPT ![s] = draft[p]]
      BY <2>2 DEF Write
    <3>2. CASE job[p].op = "start" /\ draft[p] = StartedRecord(job[p].device)
      <4>1. draft[p] # NoRecord /\ draft[p].closed = FALSE /\ draft[p].timeline = {"session_started"}
        <5>1. job[p].device \in Device  BY <3>0, <3>2, JobCases
        <5> QED  BY <5>1, <3>2, StartedFacts DEF StartedRecord
      <4>2. [t \in Session |-> record'[t] # NoRecord]
              = [[t \in Session |-> record[t] # NoRecord] EXCEPT ![s] = TRUE]
        BY <3>0, <3>1, <4>1
      <4>3. [t \in Session |-> record'[t] # NoRecord /\ record'[t].closed]
              = [[t \in Session |-> record[t] # NoRecord /\ record[t].closed] EXCEPT ![s] = FALSE]
        BY <3>0, <3>1, <4>1
      <4>4. [t \in Session |-> IF record'[t] = NoRecord THEN {} ELSE record'[t].timeline]
              = [[t \in Session |-> IF record[t] = NoRecord THEN {} ELSE record[t].timeline]
                   EXCEPT ![s] = {"session_started"}]
        BY <3>0, <3>1, <4>1
      <4>5. Log!Start(s)
        BY <4>2, <4>3, <4>4 DEF Log!Start
      <4>6. Log!Next
        BY <4>5, <3>0 DEF Log!Next, Log!Start
      <4> QED  BY <4>6
    <3>3. CASE /\ job[p].op # "start" /\ r # NoRecord
               /\ ~(job[p].op = "end" /\ r.closed)
               /\ draft[p] = NextRecord(job[p], r)
      <4>1. /\ draft[p] # NoRecord
            /\ draft[p].closed <=> (r.closed \/ job[p].op = "end")
            /\ draft[p].timeline = r.timeline \cup Added(job[p])
            /\ r \in Records /\ draft[p] \in Records
        BY <3>0, <3>3, NextFacts
      <4>2. CASE job[p].op = "end"
        <5>1. Log!Close(s)
          BY <3>0, <3>1, <3>3, <4>1, <4>2 DEF Log!Close, Added
        <5>2. Log!Next
          BY <5>1, <3>0 DEF Log!Next, Log!Close
        <5> QED  BY <5>2
      <4>3. CASE job[p].op \in {"append", "interruption"}
        <5>1. Log!Append(s, job[p].event)
          BY <3>0, <3>1, <3>3, <4>1, <4>3 DEF Log!Append, Added
        <5>2. job[p].event \in Event
          BY <3>0, <4>3, JobCases
        <5>3. Log!Next
          BY <5>1, <5>2, <3>0 DEF Log!Next, Log!Append
        <5> QED  BY <5>3
      <4>4. CASE job[p].op = "artifacts"
        <5>1. UNCHANGED Log!vars
          BY <3>0, <3>1, <3>3, <4>1, <4>4 DEF Log!vars, Added
        <5> QED  BY <5>1
      <4> QED  BY <4>2, <4>3, <4>4, <3>0, <3>3, JobCases
    <3> QED  BY <1>2, <2>2, <3>2, <3>3 DEF IndInv, DraftShape, Write
  <2> QED  BY <1>2, <2>1, <2>2
             DEF Next, vars, Step, Begin, LoadMissing, LoadEnded, Load, Sync, Abandon
<1> QED  BY <1>1, <1>2, Invariance, PTL DEF Spec, LogSpec, Log!Spec
=============================================================================
