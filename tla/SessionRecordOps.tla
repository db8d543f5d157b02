--------------------------- MODULE SessionRecordOps ---------------------------
(***************************************************************************)
(* The contents of a session record (artifacts/sessions/<id>.json) and the *)
(* records that the writers of session-record-store.ts build from the one  *)
(* they have loaded.  A timeline, a list of artifacts and a list of        *)
(* interruptions are sets: no property here depends on their order.        *)
(***************************************************************************)
EXTENDS FiniteSets

CONSTANTS NoRecord,     \* no file
          NoCheckpoint  \* no interrupted action to resume

\* A new session.  The interruption list and the checkpoint exist twice, inside the
\* session and next to it.
StartedRecord(device) ==
    [device |-> device, closed |-> FALSE, timeline |-> {"session_started"}, artifacts |-> {},
     interruptions |-> {}, sessionInterruptions |-> {},
     checkpoint |-> NoCheckpoint, sessionCheckpoint |-> NoCheckpoint]

\* Closing keeps the session and drops what is next to it; the artifacts are those that
\* the caller passes.
EndedRecord(r, artifacts) ==
    [r EXCEPT !.closed = TRUE,
              !.timeline = @ \cup {"session_ended"},
              !.artifacts = artifacts,
              !.interruptions = {},
              !.checkpoint = NoCheckpoint]

\* Mutant: the record is rebuilt as an open one.
AppendedRecordReopened(r, event, artifacts) ==
    [r EXCEPT !.closed = FALSE, !.timeline = @ \cup {event}, !.artifacts = @ \cup artifacts]

\* Mutant: the event takes the place of the timeline.
AppendedRecordAlone(r, event, artifacts) ==
    [r EXCEPT !.timeline = {event}, !.artifacts = @ \cup artifacts]

\* appendSessionTimelineEvent and persistSessionState, whose state summary is left out.
AppendedRecord(r, event, artifacts) ==
    [r EXCEPT !.timeline = @ \cup {event}, !.artifacts = @ \cup artifacts]

\* Mutant: the inner checkpoint is only ever the new one.
InterruptedRecordNewOnly(r, event, interruption, newCheckpoint, artifacts) ==
    [r EXCEPT !.timeline = @ \cup {event},
              !.artifacts = @ \cup artifacts,
              !.interruptions = @ \cup {interruption},
              !.sessionInterruptions = r.interruptions \cup {interruption},
              !.checkpoint = IF newCheckpoint = NoCheckpoint THEN @ ELSE newCheckpoint,
              !.sessionCheckpoint = newCheckpoint]

\* persistInterruptionEvent builds both lists from the outer one, and both checkpoints
\* from the new one or else the outer one.
InterruptedRecord(r, event, interruption, newCheckpoint, artifacts) ==
    LET kept == IF newCheckpoint = NoCheckpoint THEN r.checkpoint ELSE newCheckpoint
    IN [r EXCEPT !.timeline = @ \cup {event},
                 !.artifacts = @ \cup artifacts,
                 !.interruptions = @ \cup {interruption},
                 !.sessionInterruptions = r.interruptions \cup {interruption},
                 !.checkpoint = kept,
                 !.sessionCheckpoint = kept]

\* persistSessionArtifacts.
ArtifactsRecord(r, artifacts) == [r EXCEPT !.artifacts = @ \cup artifacts]
=============================================================================
