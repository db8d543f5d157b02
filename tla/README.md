# TLA+ models and proofs of mobile-e2e

mobile-e2e is a server of tools (over MCP) with which an agent drives mobile
devices: it opens a session on a device, taps and types, waits for the UI,
collects evidence, replays flows, explores an app and records what a person does.
An error is hard to see in a test where files are shared between tool calls and
processes (device leases, session records, session locks, recordings), and where a
long loop must agree with a device that moves on its own (the actions with their
guards and remediation, the tools that wait for a screen, tap on it or replay what was
done to it, the explorer with its stack of pages). This directory
models those parts in TLA+, checks them with TLC and proves their main properties
with TLAPS.

"The architecture document" below is
`docs/architecture/session-orchestration-architecture.zh-CN.md`; `doc:46` is its
line 46. Paths are relative to the repository.

## 1. Inventory

| component | code | state it keeps | operations |
|---|---|---|---|
| device lease | `packages/core/src/execution-coordinator.ts`, `device-lease-store.ts` | one JSON file per device, one lock directory per device | acquire, markBusy, markIdle, refreshHeartbeat, release, recoverStaleLeases |
| session record | `packages/core/src/session-record-store.ts` | one record and one audit file per session | start, end, append an event, append artifacts, record an interruption, close |
| session scheduler | `packages/core/src/session-scheduler.ts` | one lock directory per session | runExclusive |
| session tools | `mcp-server/src/tools/start-session.ts`, `end-session.ts`, evidence helpers | none of their own | start_session, end_session, evidence behind every other tool |
| tool server | `mcp-server/src/index.ts`, `server.ts`, `mcp-stdio-server.ts`, `stdio-server.ts` | registry of tools | withSessionExecution, choice of an implicit session, transports |
| interruption handling | `adapter-maestro/src/interruption-*.ts`, `core/src/policy-engine.ts` | interruptions and a checkpoint in the session record | detect, classify, match a rule, resolve, resume |
| action orchestrator | `adapter-maestro/src/action-orchestrator*.ts`, `session-state.ts` | one verdict per action, under construction | guard, execute, OCR fallback, judge, re-read, refresh, record |
| auto-remediation | `mcp-server/src/tools/perform-action-with-auto-remediation.ts` | events in the timeline | stop, or recover or replay once |
| action and failure records | `core/src/action-record-store.ts`, `core/src/failure-memory-store.ts` | a record per action, indexes of baselines and failures | remember, look up |
| replay and recovery | `adapter-maestro/src/recovery-tools.ts`, `replay-*.ts` | none of their own | recover to a known state, replay the last stable action, replay a chain of steps |
| recording | `core/src/recording-store.ts`, `adapter-maestro/src/recording-*.ts` | a record, an events file, a steps file, flows; two detached processes | start, end, cancel, export |
| explorer | `packages/explorer/src/*` | stack of frames, page registry, circuit breaker | explore, scroll, backtrack, give up |
| policy guard, governance | `mcp-server/src/policy-guard.ts`, `core/src/governance.ts` | none | decide whether a tool may run; redact |
| waiting for the UI | `adapter-maestro/src/ui-wait-tool.ts`, `ui-stability.ts`, `ui-runtime.ts` | deadline, failures in a row, hashes; the dump file on the device | wait_for_ui, wait_for_ui_stable |
| UI action tools | `adapter-maestro/src/ui-*.ts`, `element-screenshot.ts` | what was captured and resolved, until the tap | inspect, query, resolve, tap, type, scroll, back, crop |
| device adapters | `adapter-maestro/src/device-runtime*.ts`, `app-lifecycle-tools.ts` | files of the device and of the artifacts | launch, install, reset, terminate, screenshot, record |
| diagnostics, performance, debug | `diagnostics-tools.ts`, `performance-*.ts`, `js-debug.ts` | a capture under way: entries, socket, timer | logs, crashes, diagnostics, traces, debugger captures, evidence of all |
| flow runtime | `adapter-maestro/src/flow-*.ts`, `task-planner.ts` | directory of the runs of a flow; results of the steps | run_flow, validate_flow, complete_task |
| OCR, contracts, reports, CLI | the rest | external, or none | recognise, declare, format, parse |

`PROJECT.json` lists all 25 components with their sources, what is modelled of
each, and the hazards of the code line by line.

**How they interact.** A tool call enters the server. `start_session` and
`end_session` are handled directly: they call the lease functions and the record
store. Every other tool goes through `withSessionExecution`
(`mcp-server/src/index.ts:264-330`): it sweeps stale leases, writes a note into the
record of each session that lost one, reads the record of its own session and,
if that is open, runs its handler through `runExclusive`: announce the wait, take
the session lock, announce its end, mark the lease busy, renew it, run the
handler, mark the lease idle, give the session lock back. `acquireLease` looks
back into the record store: the lease of a session that is closed or has no
record may be taken. Sessions meet in files; nothing else is shared between them.

Inside a handler the device is the partner. `perform_action_with_evidence` looks at
the screen, asks the interruption guard (which may tap a dialog away), executes the
intent, looks again, judges what it saw, re-reads or refreshes while the screen is
unsettled, writes the baseline and the action record, asks the guard once more and
rewrites the record if that guard fails. With auto remediation the server then reads
the verdict, announces a remediation in the timeline and runs one recovery or one
replay, which is an action of its own. The explorer is a client of the same device:
it taps, takes a snapshot, compares it with the frame it planned for and goes back.
A recording leaves two detached shell processes on the machine, which write files
that the later `end_record_session` reads.

**What is hard.** The SDK server (`mcp-stdio-server.ts`) runs tool calls concurrently (every `await`
lets another one in), and other servers and the developer CLI work on the same
directories. Only `stdio-server.ts` is serial: it answers line by line. Locks
are directories, made by `mkdir` and removed by `rm` without an owner, so a crash
or an error leaves them behind; the wait for one is bounded. Records are loaded,
changed and replaced without a lock. Leases expire by the clock while their
session may still be at work. The screen moves between the look and the tap; a store
throws between two files that belong together; a back key lands on another page than
the parent of the frame. A tool captures a screen, resolves a selector and sends a tap in three
commands, any of which may fail, lie or be late. A replay carries out a list of steps whose
order another module decides. The recording tools take no lease and no lock, and the
processes they started outlive a server that dies.

**What makes each part correct.**

- lease: one owner per device (doc:46); no owner replaced without having been
  removed; a recovery never removes a lease that was renewed;
- record: an append-only log, closed once per start (doc:97, doc:190); its two
  copies of interruptions and checkpoint agree; its audit file follows it;
- scheduler: tools of one session exclude each other; its lock is always given
  back (doc:189); every call ends;
- tools: a task runs only on a device that its session owns (doc:96); two tasks
  never run on one device (doc:187);
- actions: what is recorded is what was reported; success rests on a settled screen;
  an action is repeated only for a cause and within a bound; nothing is sent to a
  screen that was seen to need a person; an announced remediation is closed; calls end;
- device tools: a wait succeeds on what was seen; a tap goes to where what was resolved still is;
  success means that what was sent, written or read back was; every call is answered;
- replays: each step is told of once, the plan is carried out in its order, nothing is after a
  stop, and a success has its steps behind it;
- recording: no capture process that nobody knows of; an end that is retried yields
  the same steps; nothing the user did is left out of the flow unseen;
- explorer: the stack is the path from the root; a tap goes to the page it was planned
  for; every tap is accounted for; no page is walked twice; the exploration ends.

## 2. Modules

| module | what it is |
|---|---|
| `DeviceOwnership` | abstract: devices with at most one owner |
| `DeviceLease` | the lease files, one step per file-system call |
| `DeviceLeaseProofs` | its inductive invariant and the refinement of `DeviceOwnership`, proved |
| `SessionLog` | abstract: logs that start, grow and are closed |
| `SessionRecordOps` | how each writer builds the next record from the one it loaded |
| `SessionRecord` | the record store with its audit files, one writer per session at a time |
| `SessionRecordProofs` | agreement of the copies and of the audit file, and the refinement of `SessionLog`, proved |
| `SessionOrchestration` | tool calls that compose `DeviceLease`, the record operations and the session lock |
| `SessionOrchestrationProofs` | mutual exclusion of the tools of a session, that `SessionOrchestration` implements `DeviceLease`, and what holds of one call at a time, proved |
| `ScreenState` | a raw screen, the summary made of it, and the interruption detected on it |
| `InterruptionRules` | which rule matches an interruption and what it decides |
| `ActionVerdict` | the verdict on an action: status, category, re-reads, settling, refresh |
| `BoundedReplay` | abstract: actions that are executed once and repeated for a cause |
| `ActionCall` | the five action tools of a session, every `await` a step |
| `ActionCallProofs` | an action is executed on a clear screen, a success stands, records, baseline and remediations agree with what was reported, and the refinement of `BoundedReplay`, proved |
| `Filters` | `Array.prototype.filter`, by the ranks of the positions that pass, and `flat` |
| `RecordingInput` | raw lines of `getevent` and the events parsed from them |
| `RecordingMapper` | events to steps, steps to the commands of a flow |
| `Recording` | capture processes, files, start, end and cancel |
| `RecordingProofs` | no capture process goes astray, ends that are retried agree, an ended recording is complete, the typed text survives, nothing is dropped without a warning, proved |
| `ExplorerScreen` | what a page shows: views, rules, context |
| `ExplorerFrames` | frames, stack, registry of pages, breaker, as operators |
| `ExplorerBacktrack` | where `navigateBack` can end and what it answers |
| `Exploration` | abstract: a report that only grows, pages walked once |
| `Explorer` | `explore()`: launch, the loop, taps, ways back, the end |
| `ExplorerProofs` | the safety properties of the explorer and the refinement of `Exploration`, proved |
| `UiModel` | matching, ordering and resolution of selectors; the hashes of a screen |
| `DeviceScreen` | a device that moves on its own, and the capture of its screen |
| `UiTools` | the tools that look, wait, scroll, tap and type, every `await` a step |
| `DeviceCommands` | the tools that are a plan of commands |
| `DebugTools` | captures of the JavaScript debugger, and the evidence made of five tools |
| `DeviceTools` | one call of any of these |
| `DeviceToolsProofs` | what a success of a UI or device tool is worth, proved |
| `Replays` | replay chains, flows, tasks and the validation of flows |
| `ReplaysProofs` | what these tools answer agrees with what they did, proved |
| `MC...` | small instances for TLC: symmetry sets, and the screens, pages and scripts of the larger ones |

`SessionOrchestration` holds `DeviceLease` as an instance (`Lease`), with `open`
replaced by "the session has a record that is not closed", and takes the actions
of that instance as its own; a tool starts a lease call with `Lease!Call` and
consumes its outcome with `Lease!Return`. `Lease!Spec`, the specification of
`DeviceLease`, is checked as a property of it, so that what is shown of leases in
isolation holds of leases as the tools use them.

**From code to model.**

- A `Proc` is one tool call under way (in `DeviceLease`, one lease call). Two of
  them are two requests of the SDK server, or requests of two processes on the same
  files. One `Proc` alone is the serial stdio server. A crash ends one `Proc`; the
  crash of a server with several calls is several such steps.
- Each file-system call is atomic and is one step; every `await` between two of
  them is a place where others may run. `pc` (lease calls) and `at` (tool calls)
  name the point a call has reached. A record is loaded in one step (`draft`) and
  written in a later one.
- A lock is a boolean per directory. `mkdir` that fails with EEXIST is a retry
  (`LockTaken`, `SessionLockTaken`); the limits 50 and 300 are `MaxAttempts` and
  `LockAttempts`, the five minutes of staleness `StaleAfter`.
- `Failures` says what may go wrong: `"io"`, a file-system call throws an error that
  the code does not expect; `"rm"`, the `rm` of a lock fails, which the code swallows;
  `"crash"`.
- A temporary file that is not renamed is invisible: `listLeases` skips it.
- The renewed heartbeat is read from the clock when the lease is loaded, as the code
  builds the new lease there. Heartbeats that do not parse are left out: no writer
  produces one.
- A timeline is a set of kinds of events, and `Noted` selects those a run
  distinguishes. Order and text of events are abstracted.
- A task writes evidence once. What else a handler does (device commands) is not
  visible to the files modelled here.
- `start_session` on an open session answers or refuses without a write, so it is
  not an action; neither is a tool call without any session. A tool that needs no
  session but is given one for its evidence is `BareToolCall`.
- The policy guard and the choice of an implicit session read only: any tool may be
  refused (`Resolve` may end the call) and any session may be chosen.
- The audit file is modelled in `SessionRecord` only: nothing reads it back.

*Actions.* `device` is the screen as it is, `call` the call under way with its program
counter `at` and what the code holds in local variables (`seen`, the verdict `v`), `outer`
the action under remediation while its recovery runs. A screen is a record of the
signals the code reads off it, not of its text; `Summary` follows
`buildStateSummaryFromSignals` branch by branch. What a look yields is one of `Sights`: the
screen; an empty one, when the capture failed or exited 0 without a node; what a cut left of it; any of
these without the log; or, on Android, the screen of the dump file (`dump`), which is that of an
earlier look. The code does not ask which of them it got, and neither does the model: every
handler goes on from what was `seen`. The last dump is written by any look, by the client's other
tools between two calls, and by what runs an intent. `clearAt` and `senseAt` are history: how often
the screen had moved when the guard, or the look before the action, saw the device itself.
A remediation may miss its audit record (`AuditFails`), of which the session's next write makes a
new one. `Drift` is the screen moving on its own,
`Fail` a process that dies or a store that throws. Calls of one session do not overlap:
`runExclusive` sees to that. Of the stores only what another call reads is kept: a
record per action with the time of its last write (`updatedAt`, a count of the writes: two
writes of a session are further apart than the millisecond the code's clock tells apart, as
a screen is captured in between), the baseline index, the checkpoint and the
`auto_remediation_*` events. `Work` is one action per `await`.

*Recording.* The events file is one sequence whose entries are raw lines and JSON lines,
since both the shell and the server write to it; the shell keeps its own offset, so a late
line overwrites the head of what the server appended (`WriteAt`, `Torn`). A line keeps its
key, time, one coordinate, its text (one of two characters, a space or a tab), and the selector
that the nearest snapshot offers there. The sort by timestamp is stable (`Insert`). Time and distance are in the units of the configuration. The swipe `duration` and the
weakness of a selector are data of the line (`target`).

*Explorer.* A round of the loop of `engine.ts` is split where it talks to the device:
`Loop`, `Realigned`, `Look`, `Plan`, tap, `Observe`. Frames, paths, cursors, scroll segments,
the registry with its three statuses, the breaker with its two counters, the spent action
budget and the rule registry are kept as in the code. `navigateBack` is a closed form: where
the ladder of inputs can end and what it answers, both per platform. A page is a record of
the attributes the rules and heuristics ask for.

*Device tools.* `dev` is the device: the screen shown, the dump `file` an earlier capture left,
the `focus` and its `field`, the application, a recording left on the device. `cap` is the last
capture, `run` the local variables of the call. A node of a screen is what matching tells
apart: how well it matches, the points its bounds cover and the one at their centre, its locator, its
kind. Nodes nest and overlap: a match that lies under one ranked higher is `Obscured` and loses
points, and `PointNode` chooses among the nodes over a point as `findNodeAtPoint` does. Which of them
takes a tap, and with it the focus, is the choice of the device (`Deliver`), as is which of them axe
describes. A read that exits 0 returns the file, what a cut left of it (`Cuts`, the first nodes), or
nothing with a node in it; an iOS capture is JSON, whole or without a node. `Drift` is the screen moving
between any two commands. On Android a capture is a dump and a read, of which either may fail
alone; on iOS it is one command. A tool of `DeviceCommands` is its plan: a sequence of commands,
each with what its failure does to the rest (`stop`, `partial`, `late`, `degrade`, `ignore`,
`cleanup`, `next`) and when a file is written; a command that cannot be started or is timed out
counts as failed. A capture of the debugger listens (`Hear`, events of the application) until it
has enough, its socket fails or its timer ends it. `obs` is history: what the call really saw,
sent, hit and saved.

*Replays.* `log` is the action records of the session, `dir` the directory `artifactRoot` that
every call of a flow writes its runs into and none empties. `call`, `pc` and `run` are the call,
`results` what its answer says of each step, `events` its part of the timeline, `did` history.
An action carried out by a step is one step of the model: its verdict and whether it
left a record are chosen, as `ActionCall` shows them to be possible. `Act` is any other
action of the client before and between the calls.

Operators marked "Mutant:" are no part of any specification. Each is the form that a
plausible bug would give to the definition after it; `PROJECT.json` pairs every
checked property with one that violates it, which shows that the property
depends on the code.

## 3. Runs

Bounds are constants of the configurations; a single attempt on a lock
(`MaxAttempts`, `LockAttempts` = 1) means that a call that finds it taken gives up,
which leaves more combinations of failures than a longer wait does.

| run | instance | checks | states |
|---|---|---|---|
| `lease_safety` | 2 sessions, 1 device, 2 calls, 2 attempts, clock 0..2, stale after 1, all failures | `LeaseLockMutex`, `RecoveryHitsOnlyStale`, `IndInv` (which includes the types), `OwnershipSpec` | 436 k |
| `session_record` | 1 session, 2 writers, 2 events, 1 artifact | `CopiesAgree`, `LogSpec`, `AuditFollowsRecord` | 538 k |
| `orchestration_sequential` | 2 sessions, 2 devices, 1 call at a time, all failures, no lease expires | `OpenSessionOwnsDevice`, `TaskHoldsLease`, `ClosedStaysClosed`, `EvidenceIsKept` | 515 k |
| `orchestration_failures` | 1 session, 1 device, 2 calls, clock 0..1, stale after 0, all failures, fairness | `OneTaskPerSession`, `LeaseSpec`, `CallsEnd` | 189 k |
| `explorer` | 5 pages, Android with retry-3 and iOS with handoff, 3 pages at most, threshold 2, 1 retry, 1 popup, fairness | `StackIsPath`, `ParentTitles`, `Limits`, `TapsAccountedFor`, `TapsOnFramePage`, `ReportRefined`, `EndsUnlessHandoff` | 547 k |
| `actions` | 7 screens, 3 intents, 3 results, 4 starts, 2 actions, 2 calls, 1 drift, 1 failure, 1 look that is not the screen (2 of these four together), fairness | `RecordMatchesReport`, `SuccessIsSettled`, `BaselineExplained`, `RemediationClosed`, `ActsOnClearScreen`, `RepeatsAreBounded`, `CallsEnd` | 893 k |
| `device_tools` | 6 screens and a cut of one, every tool on each platform it has, one refusal of each guard, a dump left behind or none, timeout 3, 2 equal hashes, 1 drift, fairness | `WaitMatchHeld`, `TapsAtResolved`, `TypedIsObserved`, `SuccessMeansExit`, `ArtifactSaved`, `CallEnds` | 2.2 M |
| `replays` | 2 calls of 29, up to 3 actions before and between them, 4 kinds of record, 2 screens, 2 runs of a flow | `ReplayAccounted` | 7.4 M |
| `recording` | 6 scripts of a user, 2 calls of end or cancel, 1 crash, 1 line captured after the first call | `NoStrayCapture`, `RetriedEndSameSteps`, `TextSurvives`, `NothingDroppedSilently`, `EndedIsComplete` | 2250 k |

*Why these bounds are enough to be interesting.* Leases of different devices share
nothing, so one device suffices for `lease_safety`; two calls are what it takes to
race, and the proofs below cover any number. The clock 0..2 with age 1 has a lease
younger than, exactly at, and beyond the limit of staleness. In
`orchestration_failures` a lease of age 1 is stale, so it may expire at any point of a call,
before the sweep or under the task. The sequential run has two sessions that want
the same or different devices, with each call failing at each step; since its clock
stands still it says nothing of idle time (see the deviations). Failures with two
calls are checked with one session to keep the state space small enough for liveness.

The application explored has a page with two scroll segments, a page that looks the same
under another layout, a form, a page of another application and an external link; three
pages of the limit are reached, exceeded and refused, and a rule of each source (built in,
legacy, project, override) applies. The seven screens of `actions` are one each for the
branches of the summary: plain, dialog, changed content, waiting for the network, offline,
error and a page that wants a person; the second action is a remediation's replay, the
client's next call or a resume; two of the four kinds of events (a second call, a move of the
screen, a failure, a look that is not the screen) meet. The page a replayed tap ended on is a risky
name (`RiskyPages`), so that an intent that is filled in with it is refused when it is replayed again. The six scripts of
`recording` are a double tap, text over a tab, a drag, a press that loses its place followed
by back, blanks with a pause, and a key of another device whose line comes late, so that the
sort of the mapper has something to do; two characters tell the order of what was typed. The user
may stop at any line, and both calls may be ends.

The screens of `device_tools` are a form whose field is the target, a page with another node in
its place, two matches of which a cut leaves one, a match below the fold, one without a locator whose
hint lies within it and is obscured by it, and one with a banner over its centre; all of them
lie in a root that covers every point. Three ticks are a
wait that sees one failed capture, the two that end it on Android, and the deadline; one drift
falls between any two commands of a call. Two requests heard, one or two asked for, reach the
limit of a debugger capture and replace a status by a later one. In `replays` stable and unstable
records make chains with a stable record at either end or none; the second call finds the runs
and the records of the first. `MaxLog` bounds the plain actions only: what the calls append is
bounded by their steps.

*What they show.* The lease protocol excludes and implements `DeviceOwnership` in the
presence of every failure. A single writer per session makes the record a log, with
failed writes anywhere. When calls do not overlap and sessions are not idle for five
minutes, an open session owns its device, tasks run under a lease, evidence is kept
and closed sessions stay closed, also after errors and crashes. With concurrent calls
only the exclusion of tasks of one session survives; what fails is below and among the
deviations.
The action tools agree with their records through guards, re-reads, remediation and
failures, execute an action once and repeat it only as `BoundedReplay` says, and always
answer; that an action is not sent to a dialog holds as far as the guard saw the screen. The device
tools answer what they saw, sent or read back, except where a dump from before, or a capture that
holds less than the screen, deceives them, and answer always. The replays tell of each step once, stop where they say
they stop, carry the steps out in the order of the plan, and call a task, a preview or a script
that wrote its runs a success only when each step was one. (Less holds of the others: one step
that succeeded makes a chain a success, whatever failed beside it, and a script that wrote no run
is judged by runs that earlier calls left.) A recording is consistent when its calls come one at a time, whatever crashes, and
its processes are accounted for even when calls overlap. The explorer keeps its stack a
path and its taps on the page they were planned for, although neither the back key nor the
screen obeys it, and ends, save where a person is asked for ever.

## 4. Findings

Three runs end in a violation of what the repository says of the program.

1. **Two tasks on one device** (`finding_two_tasks_on_device`). `start_session` takes
   the lease (`start-session.ts:49`) before it writes the record
   (`start-session.ts:117`). A second `start_session` in between finds an owner
   without a record, takes the lease away, and both sessions end up open, against
   doc:46 and doc:187.
2. **A moving screen is called stable** (`finding_stable_while_moving`). What
   `wait_for_ui_stable` hashes is the capture as JSON (`ui-tree-hash-stability.ts:43`): every
   Android dump, read or not, hashes to `parse_error`, and every iOS capture to the hash of no
   signature. The screen is declared stable after three captures whatever they show,
   against `ui-stability.ts:4`.
3. **A chain is replayed backwards** (`finding_chain_order`). `replay_checkpoint_chain` looks for
   the last stable record from the end of a list that begins with the latest
   (`replay-chain.ts:82`, `action-record-store.ts:180`). It anchors at the oldest stable
   record and replays what was done before it, latest first, against `replay-chain.ts:81`.

### Known deviations

Behaviours the models contain and that no run reports on its own:

- `end_session` appends `lease_released` after it has closed the record
  (`end-session.ts:23`), against doc:190; a test expects that event.
- `releaseLease` checks the owner and unlinks in two steps outside the lease lock
  (`execution-coordinator.ts:146-154`), so that it may unlink a lease that another
  session acquired in between, against doc:46. `AcquiredIsOwn` (in
  `IndInv`) allows for it.
- Evidence may be lost: the unlocked `queue_wait_started`
  (`session-scheduler.ts:57`) writes back a record from before another tool's write.
- A task longer than the limit of staleness loses its lease to any other call, since
  the heartbeat is renewed only at its start (`session-scheduler.ts:78`), against doc:134.
- A crash leaves lease and session lock directories behind, and nothing removes them
  (`execution-coordinator.ts:78`, `session-scheduler.ts:26`), against doc:50.
- A task runs without its lease: the sweep before every tool (`mcp-server/src/index.ts:304`)
  takes all stale leases, that of its own session included. After five idle minutes the next
  tool removes its own lease, `markBusy` answers `updated: false`, `runExclusive` ignores it
  (`session-scheduler.ts:71`), and the task runs on a device nobody owns, against doc:96.
- A closed session opens again: `queue_wait_started` is written before the session lock is
  taken (`session-scheduler.ts:57`) and `end_session` takes none; the append writes back a
  record from before the close, with `closed: false`, against doc:97.
- A session lock loses its holder: it is taken at `session-scheduler.ts:63`, the `try` begins
  at line 77; an error in between, or of `markIdle` in the `finally` block (line 89), leaves the
  lock for ever, against doc:189. `markBusy` and `markIdle` throw when the lease lock stays
  taken for 50 attempts, so this needs no file-system error.
- A session id that is started again on another device keeps the lease of the first one until
  it is stale (`execution-coordinator.ts:109`). The implicit session is picked from a listing
  of open records, one of which may be closed before the tool resolves it (`index.ts:278`; the
  model chooses any session, and no property is about the choice).
- `persistEndedSession` replaces the artifacts of the record by those that it was given
  (`session-record-store.ts:276`).

Explorer (`packages/explorer/src`):

- `maxDepth` is never enforced, though `types.ts:129` announces it; the handoff loop does
  not look at the total timeout (`engine.ts:937`, `types.ts:133`); `visited` may exceed
  `maxPages` by one.
- A root that was lost is popped although the log says that exploration continues
  (`engine.ts:466`); the breaker counts failed elements though its header says pages
  (`circuit-breaker.ts:4`).
- The skip of a page sets the cursor to the length of the elements (`engine.ts:1250`),
  which in a later, longer segment is a move backwards; a root that was reset keeps the
  scroll state of before; pages without a title never find a second segment.
- `isExternalApp` of a frame is wrong after a resume or a switch of application; external
  links inside the application are registered as expanded without being walked; a page
  once recorded as gated or external is never walked later.
- `navigateBack` may answer success after a tap on a coordinate or a relaunch without
  having reached the title of the parent; retry-3 taps again without a look at the page.
- The branch for stateful forms (`engine.ts:1146-1187`) cannot be reached, and a rule with
  action `defer-to-heuristic` gates the page.

Actions (`packages/adapter-maestro/src`):

- A failed capture is an empty summary (`session-state.ts:787-837`) whose status neither the guard
  nor the action looks at (`interruption-tools.ts:189-203`): the guard answers `not_needed`, or
  `resolved` after its tap (`interruption-tools.ts:490`), and the action runs on a dialog or on a page that asks for a
  person. So it does after a capture that was cut short or a dump that is old. `ActsOnClearScreen` speaks
  of the device only where a look showed it; `SuccessIsSettled` of the summary the verdict was made of.
- A replay fills a missing resource id in with the id of the page the action ended on
  (`recovery-tools.ts:345`), after the check for risk (`recovery-tools.ts:101-110`, 294): what it
  sends may name a page with a risky word. Once recorded, that intent is refused.

- The resume after the guard of an action replays it although it had already succeeded,
  and without the check for high risk, even when the action had been blocked for a person;
  `resumed` requires that the screen did not drift, so that a resumed action that navigates
  is reported as failed. A checkpoint is never cleared, so a client may resume any
  number of times; `RepeatsAreBounded` allows it once an interruption was cleared.
- The baseline index and the timeline keep the success of an action that its later guard
  failed (`action-orchestrator.ts:808`, `955`).
- The refresh does not ask again whether the page is terminal, and leaves the step state as
  it was (`action-orchestrator.ts:622-678`).
- `computeEvidenceConfidence` never answers `none`; the stops `already_attempted` and
  `low_target_quality` of auto remediation cannot be reached; the detector never
  pushes its key `interrupted`.
- `loading_indicator` and `network_instability` as blocking signals make the category
  `blocked`, so that the re-reads and the remediation by waiting apply only to waits
  seen in the log. `dialog_actions` counts as `dialog` for `system_alert`.
- `resolve_interruption` with an action id and no checkpoint stores a blank tap over an
  earlier checkpoint. The guards of `perform_action` pass no policy context, against
  `docs/architecture/04-runtime-architecture.md:255`.
- The remediation event says succeeded while the result says `recovered: false` when the
  relaunch failed. A remediation whose audit record cannot be written after the announcement, or is
  gone when a planned recovery is over, stays open in the timeline
  (`perform-action-with-auto-remediation.ts:390-396`, `546-561`). `RemediationClosed` states it as its
  exception: such a call leaves the announcement and nothing else.
- `explainLastFailure` speaks of the last failure of the session, not of this action.

Recording:

- A dry run of end persists `ended` and drops the process ids while the processes live
  on, and stores the events so far, after which later input is not parsed.
- A crash or an error between the start of the processes and the record leaks them
  (`recording-runtime.ts:212-259`). `NoStrayCapture` states both exceptions.
- End and cancel do not look at the status: a cancelled recording can be ended, an ended
  one cancelled. Overlapping ends append the events twice; an end that parses a file in
  which JSON lines already stand takes their raw text for input again; a cancel that races
  an end may lose the path of the flow.
- A capture process that outlives the signal writes over the stored events.
- `BTN_TOUCH DOWN` after the positions of the same report loses the place of the tap; the
  tap is low in confidence and exports to nothing. A space typed alone is dropped with a
  warning. The back key becomes a wait without a target, which exports to nothing.

Device tools:

- `get_crash_signals` for an iPhone names an artifact that nothing writes
  (`device-runtime-ios.ts:254-284`, `device-runtime.ts:964`); the script that records an iOS
  simulator always exits with 0. `ArtifactSaved` states both exceptions. A recording of an
  Android device that could not be pulled is removed all the same
  (`device-runtime.ts:741-744`); the trace of Perfetto is never removed from it.
- `uninstall_reinstall` whose install fails leaves the application off the device; `clear_data`
  on iOS uninstalls it.
- A dump that fails still reads the file of an earlier one (`ui-runtime.ts:461`): a wait may
  succeed on an old screen, a tap may go to where something was. Both properties name it.
- A dump and a read that exit 0 are a capture whatever they return (`ui-runtime.ts:463-472`), as is iOS
  output that is no JSON (`ui-model.ts:304-310`): until=gone then succeeds with the element on the screen,
  unique with two of them there. `WaitMatchHeld` names it.
- Nobody asks whether the centre of a node is covered by another (a child, a banner) that takes the tap: on Android
  nothing is verified, and axe may describe either. `TapsAtResolved` says where the tap goes, not what it meets.
- The text is typed although the tap that gives the focus failed, into whatever has it. A tap
  or a text that the local iOS runner did and reported as failed is repeated by Maestro.
- `capture_element_screenshot` takes the image and the bounds at two moments, and on a dry run
  crops the image an earlier call left.
- `collect_debug_evidence` may answer `partial` with the reason OK, when the diagnostics or the
  console succeeded and a later part failed (`diagnostics-tools.ts:550`). Its captures do not get
  the `metroBaseUrl` it was given (lines 465, 476), so that a target without a socket of its own
  is looked for at the default address. A malformed socket throws away all it has collected.
- The debugger captures do not listen for the close of a socket, and call the silence after it
  a success.

Replays:

- A replayed record without a resource id gets the screen it led to as its resource id
  (`replay-chain.ts:116`), as in `recovery-tools.ts:345`. A dry run of a chain compares the stable record with a screen of which
  nothing is known, and is refused for that. Dry runs persist action records.
- Commands of a flow without arguments (`- back`) are dropped by the parser, so that
  `remainingSteps` counts wrong numbers. The preview of a flow stops at its first step with a
  selector, since a dry tap is partial; an imported `inputText` has no selector and fails.
  Types that the plan does not know (swipe, back, clearState, assertNotVisible) are carried out
  as a dry `terminate_app` (`task-planner.ts:133`). A rejected preview says that it stopped at
  the first step listed, which may be one it skipped; `replay_completed` follows
  `replay_stopped` when the end is partial.
- `run_flow` counts every `run-*` of its directory (`flow-runtime.ts:75`): a shorter later call
  fails because of an old FAIL, and a script that writes nothing succeeds on old PASSes.
- `validate_flow` queries with `dryRun: true`, so that each interactive step with a selector
  fails (`flow-validation.ts:230`); steps taken from a session come newest first.
- The branch of `complete_task` for a partial timeout (`task-planner.ts:304`) is dead, and the
  last outcome that is no success overrides an earlier failure.

## 5. Fairness

*Explorer.* Weak fairness of `Engine` (the loop goes on while it can: every command to the
device returns, with an answer or an error) and of `TimePasses` (the total timeout, once
running, expires). No fairness is assumed of the screen, of popups, or of the way back
that a tap or a back takes.

*Actions.* Weak fairness of `Work`: every `await` of a handler returns or throws. `Drift`,
`Fail` and new calls of the client are not in it.

*Device tools.* Weak fairness of `Step`: every command, request and pause of a call ends, by
itself or by its timeout. `Drift` and `Hear` are not in it: the screen need not move, and an
application need not tell its debugger anything.

*Replays* states no liveness: a replay is a finite list of calls whose ends `CallsEnd` and
`CallEnds` show. *Recording* states none either: the capture processes run until a person ends them.

*Orchestration.* `FairSpec` adds weak fairness of `Step(p)` for each call: the event loop drives a call
that can go on, and handlers end. `Step` has no failing alternative: errors, crashes and
the clock are in `Next` only, so no call is rescued by one. Nothing is assumed of
locks: with fairness of each call alone, a lock may be found taken at every attempt.
That calls end all the same (`CallsEnd`) is due to the bounded waits.

## 6. Proofs

Assumptions are those of the constants: `LeaseAssumption`, which `SessionOrchestration` repeats as
`LeaseConstants` (positive `MaxAttempts`,
natural `StaleAfter` and `MaxTime`, `None` distinct from the data) and
`OrchestrationAssumption`. Number of sessions, devices and calls, bounds and failures are
arbitrary. `DeviceAssumption` and `ContentAssumption` say of the tools' instance that a call has a
tool, a platform and a limit, that the name `back_selector` stands for iOS, and that the centre of a node
with bounds lies within them; `CutAssumption`, that what is left of a dump that was cut is its first
nodes. (The viewport is found from the nodes there are, so the rank of a node may differ.) Nodes may
share points, centres and locators. Where alternatives of a CASE overlap, the first one counts, as in TLC;
the proofs hold whichever is taken.

**`DeviceLeaseProofs`.** `Invariance`: `Spec => []IndInv`. Mutual exclusion is not
inductive: it needs `LockHeld` (a call inside the lock has made the directory, and only
its own `rm` removes it), which needs `CallShape` (which operation and arguments
go with each program counter). That a recovery removes only stale leases needs, on top,
that heartbeats are not in the future and that a call about to write holds a copy at least
as recent as the file (`WriteIsRenewal`): this is where `releaseLease`, which takes no
lock, has to be seen to do no more than remove. The lemmas `TypeStep`, `ShapeStep`,
`LockStep` and `WriteStep` are the four layers; `TypeCorrect`, `LockIsExclusive`,
`RereadIsNeverForeign`, `RecoveryIsSafe` and `AcquireIsExclusive` are read off.
`Refinement`: under the invariant every step is a step of `DeviceOwnership` or a stutter
(`RemovalRevokes`, `PersistGrantsOrRenews`).

**`SessionOrchestrationProofs`.** `TasksExclude`: `Spec => []OneTaskPerSession`. The
invariant `ExclusionInv` adds that a call past the session lock has the lock directory
and that a call that is under way has a session. One lemma per shape of action
(`MoveOn`, `EndOn`, `CallLeaseOn`, ...) shows that all but `TakeSessionLock` and
`SessionUnlock` leave the exclusion alone.

In the second part of the module, `ToolsUseLeases`: `Spec => LeaseSpec`, the tools implement `DeviceLease`.
A lease operation is called by a tool for a session and a device, and both have to exist. The
device comes from a record that was read several steps before, so the invariant (`DeviceInv`)
follows it through the records on disk, those about to be written, and the calls; the sessions
that a recovery leaves a note for come from the leases, so the invariant of `DeviceLease` takes
part in the induction (`WholeInv`). A record that is written is a session opened, closed or left
as it was. `LeasesHold`: with the steps proved to be steps of `DeviceLease`, `IndInv` holds of the
lease files while sessions use them, and with it the exclusion under the lease lock and the safety
of recovery. `Proved` is the instance of `DeviceLeaseProofs` that the facts come from; `SameInv`
and `SameNext` say that it speaks of the same thing as `Lease`.

The third part is about one call at a time (`OneCall`: there is one process), with any number of
sessions and devices, any bounds and every failure: the properties of the sequential run.
`ClosedSessionsStay` and `EvidenceStays` need no more than that. A draft is written steps after its
record was loaded, so the invariant (`RecordsSound`) says that what is about to be written is the
record on disk, extended or closed (`DraftsExtend`), for the session of the call or for that of a
lease that was recovered. `OpenSessionsOwn` and `TasksHoldLeases` hold in every behaviour in which no
lease goes stale (`[]LeasesFresh`): a recovery takes a stale lease from its open session. (Without the
hypotheses TLC finds violations: of all four with two calls at once, of the latter two with a stale
lease. The clock of the run stops before a lease can be stale.) The lease and the record change
in different steps of different operations, so that an open session owns its device is not
inductive. `SerialInv` says, on top, which lease operation goes with each point of a tool
(`LeaseCallsFit`), what that operation has seen of the file and of the owner it is about to remove
(`LeaseCallsSpare`), and which points are reached only with the session closed and which only with
the lease held (`CallsInTurn`). `StepSpares` is the core: of the steps of a lease operation, those that
remove a file find it without an open owner, and a recovery finds nothing, since its clock is not
ahead (`AsOfPast`).

**`SessionRecordProofs`.** From `RecordAssumption` (`NoRecord` is no record). That a write
is a step of `SessionLog` is not inductive by itself: a draft is written one step after the
record was loaded. The invariant therefore says that with one writer per session the draft
was made from the record as it still is on disk (`DraftShape`), for each kind of writer,
and that a record on disk is one that the writers can produce. `CopiesAlwaysAgree`,
`AuditIsOfRecord` and `Refinement` (`Spec => LogSpec`) follow.

**`RecordingProofs`.** `NoProcessAstray`: `Spec => []NoStrayCapture`, for any number of
overlapping calls of end and cancel, any script of the user and any failure. The invariant
says that nothing is called before the start has written its record (`NothingEarly`), that
a live process is named by a running record unless a dry run has ended it (`Known`), and
that once a call that is no dry run is under way, what could be stopped was (`Stopped`);
`CallShape` is what the steps rely on of the records of the calls.

`RetriesEndAlike` and `EndsComplete` (`Spec => []RetriedEndSameSteps`, `Spec => []EndedIsComplete`)
hold for any scripts of the user, any number of calls and any thresholds of the parser and the mapper,
whose definitions stay unexpanded except where events are parsed of lines. The invariant
(`LedgerInv`) says, as long as the calls came one at a time and no line after the first of them (`Calm`):
the file is the raw lines, or those followed by the events parsed of them, and nothing else (`FileHolds`);
the steps on disk and every exported flow are those of these lines (`OutputsTrue`); and a call under
way carries the events or the steps of these lines, and has parsed only a file without events
(`CallsTrue`). It rests on what a file reads back as (`RawFileRead`, `FullFileRead`), where
`EventsListed`, that the parser returns a sequence of events, is an induction over the lines. It is carried out by
`NumbersFrom0`: a set of numbers with 0 and all successors misses none, since
what it misses up to `n` would have an injection into itself less `n`. Outside of calm,
`EndsMapped` keeps the part of `EndedIsComplete` that overlapping calls cannot break.

`TypedTextSurvives` and `NothingIsDropped` (`Spec => []TextSurvives`, `Spec => []NothingDroppedSilently`)
follow a line from the file to the flow, for any number of lines. On top of `LedgerInv`, `Reviewed` says
that in calm the captured lines and those to come are one of the inputs, and that a call that asks for no
review has met no warning of the mapper or of the export. What the steps keep of the lines is an
induction for each stage: over the lines (`ReadTo`: the parser has the text of the lines read, an event of
a gesture for each touch that is closed, and a back for each back key), over the events that are sorted
(`SortedTo`: the same events, in order of time, and the text in its order if the typed lines were in
order), over the events that are mapped (`MapTo`: the text of the steps is that of the events the mapper
is past, whose place a chunk of text moves on, `Past`; without a warning also the blanks and the gestures),
and over the steps that are exported (`Renders`: a step that exports to nothing is counted as a warning,
any other carries its gesture and its text on). `Kept` and `Of` pick what counts out of a sequence; that
they go through an append and a concatenation is proved once. `InputAssumption`, on which `TypedTextSurvives`
rests, is that the keys of one keyboard are printed in the order of their times; lines of other devices may
come late, and `NothingIsDropped` assumes no order at all.

**`ReplaysProofs`.** `ReplaysAreAccounted`: `Spec => []ReplayAccounted`, for any calls, records,
screens and bounds. From `ReplayAssumption`: outcomes, counts and flows are of their types.
The invariant (`ReplayInv`) keeps two ledgers. The one is of what is told: the steps that have a result followed by those still to do (`Told`)
are some of the plan, each once (`Listed`), and all of them in a chain and in a preview. Around it
each tool has its own part: a chain has a success only if something succeeded (`InChain`), a
preview goes on only while everything did (`InPreview`), a task has the verdict of its steps
(`InTask`), and the runs of a script are those whose results the directory holds (`InScript`). When
a step's result moves it from the one part of the ledger to the other, `ToldOnce` keeps the sum. The
other is of what is carried out (`Scheduled`, what was done followed by what is still to do): it is the
plan of a script, the beginning of the plan of a task or preview (`Begins`), and in a chain it falls
(`Downwards`), since the log is listed from its end and a window and a filter keep the order
(`PickedDown`). `DoneIs` reads the order of what was done off it. Which steps
a chain, a preview or a list of files selects are filters of lists: `InOrderLists` and `PickedSplit`
say that a filter takes each position once and that what passes and what does not are the whole.

**`DeviceToolsProofs`.** For any screens, selectors, timeout and number of moves of the device, and
whatever command fails. `WaitSucceedsOnSight`: `Spec => []WaitMatchHeld`. `WaitSees` follows a screen
from the device through the dump file into the capture: each step, the device may have moved on, and
the file may be an older one, which `obs.stale` records, or be read in part, which `obs.cut` does
(`Shows`). A match in what is left of a screen is a match on the screen (`ShownMatches`), which is all
that a condition met there bears out (`MetIsSeen`). `WaitRound` says that a wait takes part in
no step of another tool.

`SuccessIsEarned`: `Spec => []SuccessMeansExit`. That no failed command is behind a success is not
inductive: the success comes steps after the command. `Shape` says which tool can be where, so that
no tool's step is taken by another. The tools that look and act (`UiExits`) have every command good
but the last, when its fallback is about to repeat it (`Again`), and a text that goes into a field
without focus is answered as failed. The tools that run a plan of commands (`Commanding`) have every
command good, excused, or a verdict that is no longer success; for the reports of a physical device,
a failed `devicectl` is made up for by the way that is still to do. Both rest on what a plan is
made of (`PlanShape`, `AfterPlain`). The evidence bundle (`EvidenceInv`) collects what its parts ended
with: as long as each is known as a success, so is every command sent, and a part that failed is
among those the answer sums up (`Lost`). `ArtifactsAreWritten` adds that a plan of a tool that names an
artifact has a step that writes it, and that the step is still to come, has written, or has
spoiled the success (`PlanSaves`, `SavesStays`). `TypingIsReadBack` says of which node at the point the
value was read: one the device may name there, with the locator of the target.

`TapsAreOnTarget`: `Spec => []TapsAtResolved`. This one opens the contents of screens. The order of
matches is strict (`BeforeIsStrict`), also among those that obscure one another, since the second sort,
by the score alone, keeps the order of the first (`AheadIsStrict`), which ends with the place in the
document; so one match has none above it (`FirstOfMatches`, by the
least number of matches above), and what a query resolves to is a node of the capture with bounds
(`ResolvedIsNode`), hence one of the screen (`FoundIsNode`). `Aimed` carries that from the dump to the
capture to the tap: at each point what is shown is what was seen, or the screen has moved since or the
dump was stale; on iOS the confirmation makes up for a move. That a target is taken once, before the first tap, is in
`Seeking` and `TargetPlace`.

**`ActionCallProofs`.** `ExecutesOnClearScreen`: `Spec => ActsOnClearScreen`, for any screens, rules,
intents and failures and any number of calls. The guard, its close, the look before the action and
the execution are separate steps, and each look may show less than the screen, or an older one; the
invariant (`SeenAt`) says that at each of them the screen is still clear unless it moved on its own
since the guard really saw it (`clearAt` is the count of moves at that look, or `Never`), and that no summary that was
acted on asks for a person. `SuccessStands`: `Spec => []SuccessIsSettled`. `VerdictOf` says what is true of a verdict
at each point of a call: no handoff is in it until the first read, a read that is in order goes
through `Settle` into one that is settled, and the late look keeps a success only without a handoff.
It holds whatever the budget of re-reads is.

In the second part of the module, the other safety properties of the run `actions`, for any screens, rules,
intents, failures and calls. `Kept` is the invariant of the first part with the books of the
actions (`Books`): what was not issued has left nothing, a record has the intent its action was
issued with, a report is what the record says, the later action has the later record (`InOrder`),
and a checkpoint points at an action an interruption was cleared for. None of it is inductive
without the place in the call: until it is executed an action is not done and has no record, until
it is judged no record, and from there to its close a record but no report (`Early`, `Middle`,
`Late` and `ActionBook`); and a remediation is open only while the call that opened it, or the
replay or recovery it runs as a call of its own, is under way (`RemedyBook`, `Open`), or when that call
missed its audit record, which is why the outer call takes part in every step (`OuterInv`). `ReportsAreRecorded`, `BaselineIsExplained` and
`RemediationsClose` are read off. `ReplaysAreBounded` (`Spec => RepeatsAreBounded`) maps every step
to one of `BoundedReplay` or a stutter: `IssueRefines`, `ClearRefines`, `ExecuteRefines`,
`TapRefines`, `ResumeRefines` and `RecordRefines`. The step that needs most is a replay, where the
record with the latest write that the code sorts for has to be that of the highest action among
the successes (`LatestIsLastStable`), although a guard or a remediation may have lowered records in
between; the replayed intent is that of this action, filled in with the page it ended on (`Landed`),
which only its first record sets.

**`ExplorerProofs`.** Six theorems, for any pages, moves, rules, limits and popups, one for each
safety property of the run `explorer`. What a page contains and what is decided of it stay
unexpanded: a screen is only known to be one of the pages, which takes an induction over the ladder
of `navigateBack` (`WanderShown`, from the least-number principle `LeastNat`), and the frame that a
page resumes only to be on the stack (`AncestorOnStack`). `Chained` is the invariant of the stack: it
says of neighbouring frames what `StackIsPath` and `ParentTitles` say, and of each frame that its
segments are counted by its index and are no more than the limit. `ChainFront`, `ChainTop`,
`ChainPush`, `ChainResume` and `ChainReconcile` are what the code does to a stack; that a round has a
frame to work on (`StackOf`) has to be shown along, since every one of them looks at the top. For
`LimitsHold` the number of pages reported is bounded by the place in the round (`Reported`): the
limit itself is only looked at on the way in, and a round reports up to two pages. `ReportIsRefined`:
`RegistryStep` says which steps add to the registry and that an entry walked into is the first of
its page; `ReportGrows` turns that into a step of `Exploration`.

**Only model-checked:** `CallsEnd` and `EndsUnlessHandoff` (liveness is out of the prover's
reach).
`RereadIsNeverForeign` and `AcquireIsExclusive` are theorems whose formulas the runs check as conjuncts of `IndInv`.

## 7. Not modelled

- *OCR providers, image comparison*: external programs and arithmetic; what they can answer is
  an input of `ActionCall`.
- *Device adapters*: the words of the commands, the probes that choose an iOS backend, the
  harness configuration; what a runner's script does on the device. The file system of the
  server does not fail in `DeviceTools`: a failed write throws out of the call. Geometry is the points a
  node covers, and whether it is in view, out of it, or barely visible; areas are numbers of points.
- *Doctor, analysis of traces, network probe, wording of the diagnosis, reports, CLI*: read and
  format. *Governance* beyond the question of high risk redacts; *contracts* are types.
- *Policy guard*: a table from tools to scopes, looked up without state.
- *Network probe, evidence bundle* of an action: they add to the answer and change neither
  verdict nor record. *Failure memory*: read for suggestions only.
- *iOS recording*: another parser and a reject of empty physical-device recordings; the
  life of its processes and files is that of Android. *Viewport scaling* multiplies
  coordinates; *status* reads; the replay dry run validates and touches nothing.
- *State graph and transition log* of the explorer: written, never read by the run.
- *Flows* are lists of kinds of commands: the YAML parser is modelled by which commands it
  keeps, supports and gives a selector.

## 8. What is left

1. *Implicit session*: the choice from a listing that goes stale, composed with
   `SessionOrchestration`.
2. *Stores*: read-modify-write of the failure and baseline indexes by overlapping sessions.
3. *Bounded reads* of ANR traces (`diagnostics-pull.ts`): budgets and batches, behind one command
   of `get_crash_signals` whose failure is ignored.
