----------------------------- MODULE DeviceScreen -----------------------------
(***************************************************************************)
(* A device whose screen moves on its own, and the one thing every UI tool *)
(* does to it first: capture the hierarchy it shows.  On Android that is   *)
(* two commands, a dump into a file of the device and a read of that file; *)
(* on iOS it is one (packages/adapter-maestro/src/ui-runtime.ts).          *)
(* One call of one tool runs at a time, under the device lease.            *)
(***************************************************************************)
EXTENDS UiModel, SequencesExt

CONSTANTS Screens,       \* names of the screens the device can show
          Content,       \* what each shows, [text, nodes]
          Cuts,          \* names of what is left of each when its dump is cut short
          Leftovers,     \* what an earlier dump can have left in the file
          Calls,         \* calls of the tools
          Timeout,       \* ticks after which a polling tool gives up
          StableTarget,  \* equal hashes in a row that count as stable
          MaxDrifts      \* bound: moves of the screen on its own

NoDump == "NoDump"

ASSUME DeviceAssumption ==
    /\ DOMAIN Cuts = Screens /\ NoDump \in Leftovers
    /\ DOMAIN Content = Screens \cup UNION {Cuts[s] : s \in Screens}
    /\ NoDump \notin DOMAIN Content
    /\ Timeout \in Nat \ {0} /\ StableTarget \in Nat \ {0} /\ MaxDrifts \in Nat
    /\ \A c \in Calls : /\ "tool" \in DOMAIN c /\ c.dry \in BOOLEAN
                        /\ c.platform \in {"android", "ios", "none"}
                        /\ c.tool = "back_selector" => c.platform # "android"
                        /\ c.query.limit \in Nat

\* The nodes of a screen are a list; where one has bounds, its place is in them.
ASSUME ContentAssumption ==
    \A s \in DOMAIN Content : LET nodes == Content[s].nodes IN
        /\ Len(nodes) \in Nat /\ DOMAIN nodes = 1..Len(nodes)
        /\ \A i \in DOMAIN nodes :
             /\ nodes[i].bonus \in Int /\ nodes[i].far \in Nat
             /\ IsFiniteSet(nodes[i].covers)
             /\ nodes[i].bounds => nodes[i].place \in nodes[i].covers

\* What a cut leaves is the first nodes.  The viewport is found from the nodes
\* there are, so the rank of a node may differ, but not what it is.
SameNode(m, n) ==
    /\ m.place = n.place /\ m.covers = n.covers /\ m.bounds = n.bounds /\ m.quality = n.quality
    /\ m.locator = n.locator /\ m.kind = n.kind
    /\ m.enabled = n.enabled /\ m.clickable = n.clickable
ASSUME CutAssumption ==
    \A s \in Screens : \A c \in Cuts[s] :
        \A i \in DOMAIN Content[c].nodes :
            i \in DOMAIN Content[s].nodes /\ SameNode(Content[c].nodes[i], Content[s].nodes[i])

VARIABLES call,  \* the call in progress
          pc,    \* its next await
          dev,   \* the device: [shown, file, focus, field, app, remote, drifts]
          cap,   \* the last capture: [status, shown]
          run,   \* the call's local variables
          now,   \* ticks since the call began to poll
          out,   \* what the tool answered, NoAnswer before
          obs    \* history: what the call really saw and did, as far as it is asked about

vars == <<call, pc, dev, cap, run, now, out, obs>>

NoAnswer == [status |-> "none", reason |-> "none"]
NoHash   == "NoHash"
\* What a capture of the debugger has heard; bound: two requests.
Requests == 1..2
Silence  == [logs |-> 0,
             requests |-> [r \in Requests |-> [known |-> FALSE, status |-> "none", lost |-> FALSE]]]
NoRef    == [place |-> 0, locator |-> NoLocator]

\* What the screens show to each query, and what it resolves to.
Queries  == {c.query : c \in Calls}
ContentOf(s) == IF s = NoDump THEN [text |-> NoDump, nodes |-> <<>>] ELSE Content[s]
Contents == DOMAIN Content \cup {NoDump}
Answers  == [s \in Contents |-> [q \in Queries |->
               QueryResult(ContentOf(s).nodes, q)]]
Resolved == [s \in Contents |-> [q \in Queries |->
               Resolution(Answers[s][q], q.field)]]
NodesNow(place) == NodesAt(Content[dev.shown].nodes, place)

Polling == call.tool \in {"wait_for_ui", "wait_for_ui_stable"} \/ run.polling

Init ==
    /\ call \in Calls /\ pc = "begin" /\ now = 0 /\ out = NoAnswer
    /\ \E s \in Screens, left \in Leftovers :
         /\ call.platform # "android" => left = NoDump
         /\ dev = [shown |-> s, file |-> left, focus |-> NoRef,
                   field |-> [of |-> NoRef, value |-> "other"],
                   app |-> "installed", remote |-> FALSE, drifts |-> 0]
    /\ cap = [status |-> "none", shown |-> NoDump]
    /\ run = [fails |-> 0, dumped |-> FALSE, wrote |-> FALSE, polling |-> FALSE,
              stable |-> 0, hash |-> NoHash, before |-> NoHash, after |-> NoHash,
              stage |-> "only", swipes |-> 0, final |-> FALSE, target |-> NoRef,
              kind |-> "plain", focus |-> "none", todo |-> <<>>, verdict |-> "success",
              got |-> <<>>, socket |-> call.target, heard |-> Silence]
    /\ obs = [shown |-> {dev.shown}, took |-> <<>>, stale |-> FALSE, cut |-> FALSE, moved |-> FALSE,
              hits |-> <<>>, sent |-> <<>>, shot |-> NoDump, saved |-> FALSE]

Finish(status, reason) ==
    /\ out' = [status |-> status, reason |-> reason]
    /\ pc' = "done"

\* The screen after something happened to it.  A screen that goes away takes
\* the keyboard focus with it.
Showing(d, shown) ==
    [d EXCEPT !.shown = shown, !.focus = IF shown = d.shown THEN @ ELSE NoRef]
Saw(o, shown) ==
    [o EXCEPT !.shown = IF call.tool = "wait_for_ui" THEN @ \cup {shown} ELSE @,
              !.moved = @ \/ shown # dev.shown]

\* A transition, a push, an animation: between any two steps of the tool.
Drift ==
    /\ pc \notin {"begin", "done"} /\ dev.drifts < MaxDrifts
    /\ \E s \in Screens \ {dev.shown} :
         /\ dev' = [Showing(dev, s) EXCEPT !.drifts = @ + 1]
         /\ obs' = Saw(obs, s)
    /\ UNCHANGED <<call, pc, cap, run, now, out>>

\* A capture that begins at the deadline ends after it.
Elapse ==
    now' \in IF ~Polling THEN {now} ELSE IF now < Timeout THEN {now, now + 1} ELSE {now + 1}

\* The captures wait_for_ui_stable judges by.
Recent(took, c) ==
    LET all == IF call.tool = "wait_for_ui_stable" THEN Append(took, c) ELSE <<>>
    IN  IF Len(all) > StableTarget + 1 THEN Tail(all) ELSE all
Captured(status, shown) ==
    /\ cap' = [status |-> status, shown |-> shown]
    /\ pc' = "looked"
    /\ Elapse

\* uiautomator dump: it can exit 0 without writing and be killed after it wrote.
DumpUi ==
    /\ pc = "look" /\ call.platform = "android"
    /\ \E dumped, wrote \in BOOLEAN :
         /\ run' = [run EXCEPT !.dumped = dumped, !.wrote = wrote]
         /\ dev' = [dev EXCEPT !.file = IF wrote THEN dev.shown ELSE @]
         /\ obs' = [obs EXCEPT !.moved = ~wrote /\ @]
    /\ pc' = "read"
    /\ UNCHANGED <<call, cap, now, out>>

\* Mutant: a snapshot that was not read passes for a screen without nodes.
ReadIgnored(readable, xml) == IF readable \/ run.dumped THEN "ok" ELSE "failed"

\* The read is tried whatever the dump said.  A dump that exited 0 makes it a
\* capture: one without nodes when the read fails, and of whatever was read when
\* it does not.  Only after a dump that failed must what was read start as XML.
ReadOutcome(readable, xml) ==
    CASE run.dumped -> IF readable THEN "ok" ELSE "unread"
      [] ~run.dumped /\ readable /\ xml -> "ok"
      [] OTHER -> "failed"

\* What a read that exits 0 returns: the dump the file holds, whole or cut
\* short, or nothing that has a node.
Readings == {dev.file, NoDump} \cup IF dev.file = NoDump THEN {} ELSE Cuts[dev.file]

ReadUi ==
    /\ pc = "read"
    /\ \E readable, xml \in BOOLEAN, read \in Readings :
         LET status == ReadOutcome(readable, xml)
             shown  == IF status = "ok" /\ readable THEN read ELSE NoDump
         IN  /\ ~readable => ~xml /\ read = NoDump
             /\ Captured(status, shown)
             /\ obs' = [obs EXCEPT !.took = Recent(@, [status |-> status, shown |-> shown]),
                                   !.cut = readable /\ (shown = NoDump \/ shown # dev.file),
                                   !.stale = @ \/ (shown # NoDump /\ ~run.wrote)]
    /\ UNCHANGED <<call, dev, run, out>>

\* captureIosUiSnapshot: axe or WDA; a backend without hierarchy capture, a
\* failing command and a bare application root are failures.  Output that is
\* empty or no JSON is a capture without nodes.
CaptureIos ==
    /\ pc = "look" /\ call.platform = "ios"
    /\ \E status \in {"ok", "failed"}, shown \in {dev.shown, NoDump} :
         /\ IF status = "ok" THEN call.backend \in {"axe", "wda"} ELSE shown = NoDump
         /\ Captured(status, shown)
         /\ obs' = [obs EXCEPT !.took = Recent(@, [status |-> status, shown |-> shown]),
                               !.cut = status = "ok" /\ shown = NoDump,
                               !.moved = status # "ok" /\ @]
    /\ UNCHANGED <<call, dev, run, out>>

Capture == DumpUi \/ ReadUi \/ CaptureIos
Look == pc' = "look"
================================================================================
