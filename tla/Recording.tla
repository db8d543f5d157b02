----------------------------- MODULE Recording -----------------------------
(***************************************************************************)
(* One passive recording of an Android device: the two capture processes   *)
(* start_record_session leaves running, the files they and the server      *)
(* share, and the end_record_session and cancel_record_session calls       *)
(* (recording-runtime.ts, recording-store.ts).  No lease covers these      *)
(* tools: calls overlap, and every await is a step.  The server can die at *)
(* any step; the capture processes are detached and live on.               *)
(***************************************************************************)
EXTENDS RecordingMapper, Filters

CONSTANTS Inputs,      \* what the user may do, as sequences of lines
          Calls,       \* calls of end and cancel
          MaxCrashes,  \* bound: deaths of the server
          MaxLate      \* bound: lines captured after the first call

ASSUME RecordingAssumption ==
    /\ Inputs \subseteq Seq(Line)
    /\ {SwipeDistance, StrongDistance, MinSamples, MaxSwipeTime, DedupeWindow, TypeGap,
        MaxCrashes, MaxLate} \subseteq Nat

\* One keyboard types, and its keys are printed in the order of their times; the
\* lines of the other devices may come late.
ASSUME InputAssumption ==
    \A lines \in Inputs : \A i, j \in DOMAIN lines :
        i <= j /\ "none" \notin {lines[i].text, lines[j].text} => lines[i].at <= lines[j].at

VARIABLES capture, snapshot, \* the two processes
          input,             \* lines the user has still to produce
          file,              \* the events file: raw lines and stored events
          offset,            \* raw lines the capture process has written
          record,            \* the persisted record
          steps,             \* the steps file: <<>> if there is none, <<its steps>> otherwise
          flows,             \* exported flows, in order
          start,             \* where start_record_session is
          calls,             \* the end and cancel calls
          crashes,
          late,              \* history: lines captured after the first call
          clean              \* history: no calls overlapped, none was a dry run

vars == <<capture, snapshot, input, file, offset, record, steps, flows, start, calls,
          crashes, late, clean>>
processes == <<capture, snapshot>>
device    == <<input, offset, late>>

NoRecord == [status |-> "none", pid |-> FALSE, snap |-> FALSE, flow |-> 0]
NoSteps  == <<>>
Persisted == steps[1]
NewCall  == [at |-> "new", tool |-> "none", dry |-> FALSE, export |-> FALSE, seen |-> NoRecord,
             events |-> <<>>, mapped |-> <<>>, warned |-> FALSE, flow |-> 0, review |-> FALSE]

Raw(l)     == [kind |-> "raw", line |-> l, event |-> Event("text", NoPoint, NoPoint, l)]
Stored(e)  == [kind |-> "json", line |-> [e.line EXCEPT !.at = 0], event |-> e]
Torn(r)    == IF r.kind = "json" THEN [r EXCEPT !.kind = "torn"] ELSE r
LinesOf(f) == [k \in DOMAIN f |-> f[k].line]
Busy == {c \in Calls : calls[c].at \notin {"new", "done"}}

Init ==
    /\ capture = "none" /\ snapshot = "none" /\ input \in Inputs
    /\ file = <<>> /\ offset = 0 /\ record = NoRecord /\ steps = NoSteps /\ flows = <<>>
    /\ start = "new" /\ calls = [c \in Calls |-> NewCall]
    /\ crashes = 0 /\ late = 0 /\ clean = TRUE

----------------------------------------------------------------------------
\* start_record_session.  A dry run starts no process; the capture process
\* may fail to start, and the directory of the snapshots to be made.
StartCapture ==
    /\ start = "new"
    /\ \/ start' = "write" /\ UNCHANGED capture
       \/ start' = "snapshot" /\ capture' = "live"
       \/ start' = "failed" /\ UNCHANGED capture
    /\ UNCHANGED <<snapshot, device, file, record, steps, flows, calls, crashes, clean>>

StartSnapshot ==
    /\ start = "snapshot"
    /\ \/ start' = "write" /\ snapshot' \in {"none", "live"}
       \/ start' = "failed" /\ UNCHANGED snapshot
    /\ UNCHANGED <<capture, device, file, record, steps, flows, calls, crashes, clean>>

PersistStarted ==
    /\ start = "write"
    /\ \/ /\ start' = "done"
          /\ record' = [status |-> "running", pid |-> capture # "none",
                        snap |-> snapshot # "none", flow |-> 0]
       \/ start' = "failed" /\ UNCHANGED record
    /\ UNCHANGED <<processes, device, file, steps, flows, calls, crashes, clean>>

----------------------------------------------------------------------------
\* The capture process writes at its own offset: over the head of a stored
\* event, if the server has appended any since.
WriteAt(f, k, r) ==
    IF k > Len(f) THEN Append(f, r)
    ELSE SubSeq(f, 1, k - 1) \o <<r, Torn(f[k])>> \o SubSeq(f, k + 1, Len(f))

Capture ==
    /\ capture \in {"live", "stopping"} /\ input # <<>>
    /\ file' = WriteAt(file, offset + 1, Raw(Head(input)))
    /\ offset' = offset + 1 /\ input' = Tail(input)
    /\ \/ (\A c \in Calls : calls[c].at = "new") /\ UNCHANGED late
       \/ (\E c \in Calls : calls[c].at # "new") /\ late < MaxLate /\ late' = late + 1
    /\ UNCHANGED <<processes, record, steps, flows, start, calls, crashes, clean>>

CaptureDies ==
    /\ capture = "stopping" /\ capture' = "dead"
    /\ UNCHANGED <<snapshot, device, file, record, steps, flows, start, calls, crashes, clean>>

----------------------------------------------------------------------------
\* end_record_session and cancel_record_session read the record and signal
\* the processes it names; an end does not ask whether it is running before
\* it stops the snapshots, and neither asks before it goes on.  The capture
\* process may still write a line before it dies.
Signalled(p, asked, next) == IF asked /\ p = "live" THEN next ELSE p
Continue(c, at)  == calls' = [calls EXCEPT ![c].at = at]
Finish(c) == calls' = [calls EXCEPT ![c] = [@ EXCEPT
                 !.at = "done", !.tool = "none", !.export = FALSE, !.seen = NoRecord, !.mapped = <<>>]]
Called(c, at)    == calls[c].at = at

\* Mutant: an end leaves the snapshots running.
BeginEndCaptureOnly(c, dry, export) ==
    /\ Called(c, "new") /\ record # NoRecord
    /\ calls' = [calls EXCEPT ![c] = [NewCall EXCEPT
           !.at = "list", !.tool = "end", !.dry = dry, !.export = export]]
    /\ capture' = Signalled(capture, record.pid /\ record.status = "running" /\ ~dry, "stopping")
    /\ clean' = (clean /\ Busy = {} /\ ~dry)
    /\ UNCHANGED <<snapshot, device, file, record, steps, flows, start, crashes>>
BeginEnd(c, dry, export) ==
    /\ Called(c, "new") /\ record # NoRecord
    /\ calls' = [calls EXCEPT ![c] = [NewCall EXCEPT
           !.at = "list", !.tool = "end", !.dry = dry, !.export = export]]
    /\ capture' = Signalled(capture, record.pid /\ record.status = "running" /\ ~dry, "stopping")
    /\ snapshot' = Signalled(snapshot, record.snap /\ ~dry, "dead")
    /\ clean' = (clean /\ Busy = {} /\ ~dry)
    /\ UNCHANGED <<device, file, record, steps, flows, start, crashes>>

BeginCancel(c) ==
    /\ Called(c, "new") /\ record # NoRecord
    /\ calls' = [calls EXCEPT ![c] = [NewCall EXCEPT !.at = "load", !.tool = "cancel"]]
    /\ capture' = Signalled(capture, record.pid /\ record.status = "running", "stopping")
    /\ snapshot' = Signalled(snapshot, record.snap /\ record.status = "running", "dead")
    /\ clean' = (clean /\ Busy = {})
    /\ UNCHANGED <<device, file, record, steps, flows, start, crashes>>

\* The events stored so far; then a last snapshot, which may warn.
StoredEvents ==
    LET json == Picked(file, {k \in DOMAIN file : file[k].kind = "json"})
    IN [k \in DOMAIN json |-> json[k].event]
\* Mutant: an end does not look for stored events.
ListNoEvents(c) ==
    /\ Called(c, "list") /\ Continue(c, "parse")
    /\ UNCHANGED <<processes, device, file, record, steps, flows, start, crashes, clean>>
ListEvents(c) ==
    /\ Called(c, "list")
    /\ \E warned \in BOOLEAN :
         calls' = [calls EXCEPT ![c].events = StoredEvents, ![c].warned = warned,
                                ![c].at = IF StoredEvents = <<>> THEN "parse" ELSE "steps"]
    /\ UNCHANGED <<processes, device, file, record, steps, flows, start, crashes, clean>>

\* Without any, the raw file is parsed and its events appended to it.
ParseRaw(c) ==
    /\ Called(c, "parse")
    /\ LET events == ParseRawInputEvents(LinesOf(file))
       IN calls' = [calls EXCEPT ![c].events = events,
                                 ![c].at = IF events = <<>> THEN "steps" ELSE "append"]
    /\ UNCHANGED <<processes, device, file, record, steps, flows, start, crashes, clean>>

AppendEvents(c) ==
    /\ Called(c, "append") /\ Continue(c, "steps")
    /\ file' = file \o [k \in DOMAIN calls[c].events |-> Stored(calls[c].events[k])]
    /\ UNCHANGED <<processes, device, record, steps, flows, start, crashes, clean>>

\* The steps are persisted before the flow and the record.
PersistSteps(c) ==
    /\ Called(c, "steps")
    /\ LET mapped == MapRawEventsToRecordedSteps(calls[c].events)
       IN /\ steps' = <<mapped.steps>>
          /\ calls' = [calls EXCEPT
                ![c].mapped = mapped.steps, ![c].events = <<>>, ![c].warned = FALSE,
                ![c].review = \/ calls[c].warned \/ mapped.warnings > 0
                              \/ \E k \in DOMAIN mapped.steps : mapped.steps[k].conf = "low",
                ![c].at = IF calls[c].export THEN "flow" ELSE "load"]
    /\ UNCHANGED <<processes, device, file, record, flows, start, crashes, clean>>

\* Every export goes to a file of its own.
WriteFlow(c) ==
    /\ Called(c, "flow")
    /\ LET flow == RenderRecordedStepsAsFlow(calls[c].mapped)
       IN /\ flows' = Append(flows, flow.commands)
          /\ calls' = [calls EXCEPT ![c].at = "load", ![c].mapped = <<>>, ![c].flow = Len(flows) + 1,
                                    ![c].review = @ \/ flow.warnings > 0]
    /\ UNCHANGED <<processes, device, file, record, steps, start, crashes, clean>>

\* persistRecordSessionState: the record is read again and written with the
\* call's patch; a cancel keeps the flow it read.
LoadRecord(c) ==
    /\ Called(c, "load")
    /\ calls' = [calls EXCEPT ![c].at = "write", ![c].seen = record]
    /\ UNCHANGED <<processes, device, file, record, steps, flows, start, crashes, clean>>

\* Mutant: the processes stay in the record.
WriteKeepingPids(c) ==
    /\ Called(c, "write") /\ Finish(c)
    /\ record' = [calls[c].seen EXCEPT !.status = IF calls[c].tool = "end" THEN "ended" ELSE "cancelled"]
    /\ UNCHANGED <<processes, device, file, steps, flows, start, crashes, clean>>
WriteRecord(c) ==
    /\ Called(c, "write") /\ Finish(c)
    /\ record' = IF calls[c].tool = "end"
                 THEN [status |-> "ended", pid |-> FALSE, snap |-> FALSE, flow |-> calls[c].flow]
                 ELSE [calls[c].seen EXCEPT !.status = "cancelled", !.pid = FALSE, !.snap = FALSE]
    /\ UNCHANGED <<processes, device, file, steps, flows, start, crashes, clean>>

----------------------------------------------------------------------------
\* The server dies: its calls vanish, and the detached processes stay.
Crash ==
    /\ crashes < MaxCrashes /\ crashes' = crashes + 1
    /\ start' = IF start \in {"new", "done"} THEN start ELSE "failed"
    /\ calls' = [c \in Calls |-> IF calls[c].at \in {"new", "done"} THEN calls[c]
                                 ELSE [NewCall EXCEPT !.at = "done"]]
    /\ UNCHANGED <<processes, device, file, record, steps, flows, clean>>

Next ==
    \/ StartCapture \/ StartSnapshot \/ PersistStarted
    \/ Capture \/ CaptureDies \/ Crash
    \/ \E c \in Calls :
         \/ \E dry, export \in BOOLEAN : BeginEnd(c, dry, export)
         \/ BeginCancel(c) \/ ListEvents(c) \/ ParseRaw(c) \/ AppendEvents(c)
         \/ PersistSteps(c) \/ WriteFlow(c) \/ LoadRecord(c) \/ WriteRecord(c)

Spec == Init /\ [][Next]_vars

----------------------------------------------------------------------------
Calm == clean /\ late = 0
RawLines == LinesOf(Picked(file, {k \in DOMAIN file : file[k].kind = "raw"}))

\* A process that still captures is known to someone: to the start under way,
\* or to the record of a running recording.  The exceptions are a start that
\* failed or died half way, and an end made as a dry run.
NoStrayCapture ==
    (capture = "live" \/ snapshot = "live") =>
        \/ start # "done" \/ \E c \in Calls : calls[c].dry
        \/ /\ record.status = "running"
           /\ capture = "live" => record.pid
           /\ snapshot = "live" => record.snap

\* However often a recording is ended, and wherever the server died in an
\* earlier attempt, the persisted steps are those of the lines that were
\* captured, as long as the calls came one at a time.
RetriedEndSameSteps ==
    (Calm /\ steps # NoSteps) =>
        Persisted = MapRawEventsToRecordedSteps(ParseRawInputEvents(RawLines)).steps

\* No character the user typed is lost, doubled or moved; blanks may be.
Kept(s, T) == Flat([k \in DOMAIN s |-> IF s[k] \in T THEN <<s[k]>> ELSE <<>>])
TextOf(s) == [k \in DOMAIN s |-> s[k].text]
TextSurvives ==
    (Calm /\ steps # NoSteps) => Kept(Flat(TextOf(Persisted)), Chars) = Kept(TextOf(RawLines), Chars)

\* An exported flow that asks for no review has a gesture for every touch the
\* user completed and every character, and the user never pressed back.
Closes(lines, k) ==
    /\ lines[k].key \in {"release", "up"}
    /\ \E j \in 1 .. k-1 : /\ lines[j].key \in {"track", "down"}
                           /\ \A i \in j+1 .. k-1 : lines[i].key \notin {"release", "up"}
NothingDroppedSilently ==
    \A c \in Calls :
        (Calm /\ Called(c, "done") /\ calls[c].flow # 0 /\ ~calls[c].review) =>
            LET lines == RawLines
                flow  == flows[calls[c].flow]
                text  == Flat(TextOf(flow))
            IN /\ Cardinality({k \in DOMAIN flow : flow[k].act \in {"tap", "swipe"}})
                    = Cardinality({k \in DOMAIN lines : Closes(lines, k)})
               /\ Cardinality({k \in DOMAIN text : text[k] # "tab"})
                    = Cardinality({k \in DOMAIN lines : lines[k].text \in Chars \cup {"space"}})
               /\ \A k \in DOMAIN lines : lines[k].key # "back"

\* A recording that says it ended has its steps, names no process, and its
\* flow, if it names one, is the export of those steps.
EndedIsComplete ==
    record.status = "ended" =>
        /\ steps # NoSteps /\ ~record.pid /\ ~record.snap
        /\ (Calm /\ record.flow # 0 /\ Busy = {}) =>
              flows[record.flow] = RenderRecordedStepsAsFlow(Persisted).commands
=============================================================================
