---------------------------- MODULE SessionRecord ----------------------------
(***************************************************************************)
(* session-record-store.ts: every writer of a session record loads it,     *)
(* builds the next record in memory, replaces the file by a rename and     *)
(* then rewrites the audit file from what it wrote.  There is no lock.     *)
(* This module assumes that the callers have one writer per session at a   *)
(* time, as the tasks of runExclusive do, and asks what the store makes of *)
(* writes that fail half way; SessionOrchestration drops the assumption.   *)
(***************************************************************************)
EXTENDS SessionRecordOps

CONSTANTS Session, Proc, Device,
          Event,         \* timeline events that the tools append
          Artifact       \* artifact references

VARIABLES record,   \* session -> contents of its record file, or NoRecord
          audit,    \* session -> the record its audit file was made from, or NoRecord
          pc, job,  \* per process: next step of its write, and what it was asked to write
          draft     \* the record it is about to write

vars == <<record, audit, pc, job, draft>>

NoJob == [op |-> "none"]

\* The calls of the store, with their arguments.
Jobs ==
    [op : {"start"}, session : Session, device : Device]
        \cup [op : {"end", "artifacts"}, session : Session, artifacts : SUBSET Artifact]
        \cup [op : {"append"}, session : Session, event : Event, artifacts : SUBSET Artifact]
        \cup [op : {"interruption"}, session : Session, event : Event,
              checkpoint : Event \cup {NoCheckpoint}, artifacts : SUBSET Artifact]

Init ==
    /\ record = [s \in Session |-> NoRecord]
    /\ audit = [s \in Session |-> NoRecord]
    /\ pc = [p \in Proc |-> "idle"]
    /\ job = [p \in Proc |-> NoJob]
    /\ draft = [p \in Proc |-> NoRecord]

\* persistStartedSession loads nothing.
Begin(p, j) ==
    /\ pc[p] = "idle"
    /\ \A q \in Proc : pc[q] # "idle" => job[q].session # j.session
    /\ job' = [job EXCEPT ![p] = j]
    /\ IF j.op = "start"
       THEN /\ draft' = [draft EXCEPT ![p] = StartedRecord(j.device)]
            /\ pc' = [pc EXCEPT ![p] = "write"]
       ELSE /\ pc' = [pc EXCEPT ![p] = "load"]
            /\ UNCHANGED draft
    /\ UNCHANGED <<record, audit>>

\* The write is over, or given up.
End(p) ==
    /\ pc' = [pc EXCEPT ![p] = "idle"]
    /\ job' = [job EXCEPT ![p] = NoJob]
    /\ draft' = [draft EXCEPT ![p] = NoRecord]

\* What a job makes of the record it loaded.
NextRecord(j, r) ==
    CASE j.op = "end" -> EndedRecord(r, j.artifacts)
      [] j.op = "append" -> AppendedRecord(r, j.event, j.artifacts)
      [] j.op = "interruption" ->
            InterruptedRecord(r, j.event, j.event, j.checkpoint, j.artifacts)
      [] j.op = "artifacts" -> ArtifactsRecord(r, j.artifacts)

\* Without a record there is nothing to update.
LoadMissing(p) ==
    /\ pc[p] = "load"
    /\ record[job[p].session] = NoRecord
    /\ End(p)
    /\ UNCHANGED <<record, audit>>

\* Mutant: a second end_session ends the record again, but for the audit file only.
LoadEndedAgain(p) ==
    /\ pc[p] = "load"
    /\ job[p].op = "end"
    /\ record[job[p].session] # NoRecord
    /\ record[job[p].session].closed
    /\ draft' = [draft EXCEPT ![p] = EndedRecord(record[job[p].session], job[p].artifacts)]
    /\ pc' = [pc EXCEPT ![p] = "audit"]
    /\ UNCHANGED <<record, audit, job>>

\* persistEndedSession of a closed session only rewrites the audit file.
LoadEnded(p) ==
    /\ pc[p] = "load"
    /\ job[p].op = "end"
    /\ record[job[p].session] # NoRecord
    /\ record[job[p].session].closed
    /\ draft' = [draft EXCEPT ![p] = record[job[p].session]]
    /\ pc' = [pc EXCEPT ![p] = "audit"]
    /\ UNCHANGED <<record, audit, job>>

Load(p) ==
    /\ pc[p] = "load"
    /\ record[job[p].session] # NoRecord
    /\ ~(job[p].op = "end" /\ record[job[p].session].closed)
    /\ draft' = [draft EXCEPT ![p] = NextRecord(job[p], record[job[p].session])]
    /\ pc' = [pc EXCEPT ![p] = "write"]
    /\ UNCHANGED <<record, audit, job>>

\* writeSessionRecord: the rename replaces the whole record.
Write(p) ==
    /\ pc[p] = "write"
    /\ record' = [record EXCEPT ![job[p].session] = draft[p]]
    /\ pc' = [pc EXCEPT ![p] = "audit"]
    /\ UNCHANGED <<audit, job, draft>>

\* syncSessionAuditRecord.
Sync(p) ==
    /\ pc[p] = "audit"
    /\ audit' = [audit EXCEPT ![job[p].session] = draft[p]]
    /\ End(p)
    /\ UNCHANGED record

\* A call throws, an audit error is swallowed, or the process dies: either way the
\* write stops where it is.
Abandon(p) ==
    /\ pc[p] # "idle"
    /\ End(p)
    /\ UNCHANGED <<record, audit>>

Step(p) == LoadMissing(p) \/ LoadEnded(p) \/ Load(p) \/ Write(p) \/ Sync(p)

Next == \E p \in Proc : (\E j \in Jobs : Begin(p, j)) \/ Step(p) \/ Abandon(p)

Spec == Init /\ [][Next]_vars

-----------------------------------------------------------------------------
(* Properties *)

TimelineEvents == Event \cup {"session_started", "session_ended"}
Records == [device : Device, closed : BOOLEAN, timeline : SUBSET TimelineEvents,
            artifacts : SUBSET Artifact,
            interruptions : SUBSET Event, sessionInterruptions : SUBSET Event,
            checkpoint : Event \cup {NoCheckpoint},
            sessionCheckpoint : Event \cup {NoCheckpoint}]

ASSUME RecordAssumption == NoRecord \notin Records

\* Types of the variables.
TypeOK ==
    /\ record \in [Session -> Records \cup {NoRecord}]
    /\ audit \in [Session -> Records \cup {NoRecord}]
    /\ pc \in [Proc -> {"idle", "load", "write", "audit"}]
    /\ job \in [Proc -> Jobs \cup {NoJob}]
    /\ draft \in [Proc -> Records \cup {NoRecord}]

\* The record is the log it is meant to be: no event
\* is lost, closed stays closed, whatever write fails half way (session-record-store.ts:211-425).
Log == INSTANCE SessionLog WITH
    started <- [s \in Session |-> record[s] # NoRecord],
    closed <- [s \in Session |-> record[s] # NoRecord /\ record[s].closed],
    events <- [s \in Session |-> IF record[s] = NoRecord THEN {} ELSE record[s].timeline]

LogSpec == Log!Spec

\* The two copies of the interruptions and of the checkpoint agree in every record of an
\* open session: resume_interrupted_action reads the inner copy (interruption-tools.ts:595),
\* persistInterruptionEvent builds on the outer one.
CopiesAgree ==
    \A s \in Session :
        record[s] # NoRecord /\ ~record[s].closed =>
            /\ record[s].interruptions = record[s].sessionInterruptions
            /\ record[s].checkpoint = record[s].sessionCheckpoint

\* A write that gets to its audit file leaves it made from the record as it is on disk,
\* also for a second end_session, and whatever writes failed before.
AuditFollowsRecord ==
    [][\A p \in Proc : Sync(p) => audit'[job[p].session] = record'[job[p].session]]_vars
=============================================================================
