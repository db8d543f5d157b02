-------------------------------- MODULE Explorer --------------------------------
(***************************************************************************)
(* The depth-first exploration engine (packages/explorer/src/engine.ts):   *)
(* explore() drives a device it does not control, keeps a stack of frames  *)
(* for the pages on the way down, and tries before every tap to bring the  *)
(* device and the top frame together again.                                *)
(*                                                                         *)
(* pc follows the function: "launch" before the loop, "loop" at its head,  *)
(* "realigned" after the one attempt to recover the page of the frame,     *)
(* "look" where a fresh frame is expanded, "plan" where the next element   *)
(* or the way back is chosen, "tap" and "observe" around one tap, "done".  *)
(* The device answers every input with any page that Moves allows, and a   *)
(* popup may change the page between two steps.                            *)
(***************************************************************************)
EXTENDS ExplorerFrames, ExplorerBacktrack

CONSTANTS
    Configs,              \* the configurations: platform, strategy, rules
    ExternalLinks,        \* labels the prioritizer flags as external links
    Budgeted,             \* labels of editor entries and side effects
    Unsafe,               \* labels of navigation controls and side effects
    MaxPages, MaxSegments, Threshold, MaxRetries, ExternalLinkMaxDepth,
    MaxPopups             \* bound: how often a popup changes the page

ASSUME EngineAssumption ==
    /\ \A n \in {MaxPages, MaxSegments, Threshold, MaxRetries,
                 ExternalLinkMaxDepth, MaxPopups} : n \in Nat
    /\ MaxPages > 0 /\ Threshold > 0
    /\ \A c \in Configs : /\ c.platform \in {"android", "ios"}
                          /\ c.strategy \in {"retry-3", "skip", "handoff"}

VARIABLES
    config,     \* the configuration of this run, its rules already built
    pc,
    screen,     \* what the device shows
    stack,      \* the frames, the root first
    visited,    \* the entries of the page registry, in order
    breaker,    \* the circuit breaker
    target,     \* targetAppId: the app of the first snapshot
    currentApp, \* currentAppId
    spent,      \* actionSuccessBudget: the keys that had their one success
    pick,       \* the label being tapped and the retries so far
    recovered,  \* what navigateBack answered to the last realignment
    inFlight,   \* actionSent - transitionCommitted - transitionRejected
    expired,    \* hasTimedOut
    popups,     \* how many popups there were
    outcome     \* what the exploration ended with

vars == <<config, pc, screen, stack, visited, breaker, target, currentApp,
          spent, pick, recovered, inFlight, expired, popups, outcome>>

NoPick == [label |-> "none", retries |-> 0]

Head0     == stack[Len(stack)]       \* the frame the loop peeks at
Android   == config.platform = "android"
Launched(s) == {s} \cup {Top(p) : p \in LaunchPages}

NextStep(f) == IF Fresh(f) THEN "look" ELSE "plan"

WithTop(f) == [stack EXCEPT ![Len(stack)] = f]
Popped     == Front(stack)

Decision(p, depth, path) == PageDecision(config.rules, p, config.platform, depth, path)

Explore(s, depth, path) == Explorable(config.rules, s, config.platform, depth, path)

SafeIn(elements) == {e \in ToSet(elements) : e \notin Unsafe}

(* shouldGateExternalAppFrame                                              *)
BeyondBoundary(f) == /\ f.external /\ f.depth > ExternalLinkMaxDepth
                     /\ SafeIn(f.elements) = {}

(* Editor entries and side effects succeed once per page (the default of   *)
(* maxActionSuccessesPerContext).                                          *)
BudgetKey(f, label) == <<f.app, f.id, label>>
HasBudget(f, label) == label \in Budgeted => BudgetKey(f, label) \notin spent

\* Mutant: one page too many.
RunningOneMore == /\ stack # <<>> /\ Len(visited) <= MaxPages
                  /\ ~expired /\ ~CircuitOpen(breaker, Threshold)

Running == /\ stack # <<>> /\ Len(visited) < MaxPages
           /\ ~expired /\ ~CircuitOpen(breaker, Threshold)

End(result) == pc' = "done" /\ outcome' = result

-------------------------------------------------------------------------------
(* Ways back.  Each is the set of what the stack, the screen and the app   *)
(* may be afterwards.                                                      *)

After(re, s, app) ==
    [stack |-> re.stack, screen |-> s, resumed |-> re.resumed,
     app |-> IF re.resumed > 0 THEN App(s.page) ELSE app]

(* captureAndReconcileVisiblePage                                          *)
Captured(stk, s, app) == After(Reconcile(stk, s.page, target, TRUE), s, app)

Uncaptured(stk, s, app) == After([stack |-> stk, resumed |-> 0], s, app)

(* navigateBack, then a reconciliation for the verdicts the caller names.  *)
BackTo(stk, s, parentTitle, app, captureOn) ==
    {IF o.ok \in captureOn THEN Captured(stk, o.screen, app)
                           ELSE Uncaptured(stk, o.screen, app) :
         o \in NavigateBack(config.platform, s, parentTitle)}

IfRecovered == IF Android THEN {TRUE} ELSE {}
Always      == BOOLEAN
Never       == {}

(* returnToTargetAppFromForeignPage: Android first tries a back and keeps  *)
(* it when a frame was resumed (in the target app, if that is required);   *)
(* otherwise the target app is launched.                                   *)
ReturnToTarget(stk, s, app, requireTarget) ==
    LET backs == IF Android THEN BackTo(stk, s, NoTitle, app, Always)
                            ELSE {Uncaptured(stk, s, app)}
        kept  == {b \in backs : /\ Android /\ b.resumed > 0
                                /\ requireTarget => b.app = target}
    IN kept \cup UNION {{Captured(b.stack, t, target) : t \in Launched(b.screen)} :
                            b \in backs \ kept}

(* A launch that throws while leaving a foreign frame falls back to a      *)
(* plain navigateBack to the parent.                                       *)
LaunchThrows(stk, s, parentTitle, app) ==
    UNION {BackTo(b.stack, b.screen, parentTitle, b.app, Never) :
               b \in IF Android THEN {x \in BackTo(stk, s, NoTitle, app, Always) :
                                          x.resumed = 0}
                     ELSE {Uncaptured(stk, s, app)}}

GoTo(way) == /\ stack' = way.stack /\ screen' = way.screen
             /\ currentApp' = way.app

Stay == UNCHANGED <<stack, screen, currentApp>>

-------------------------------------------------------------------------------
Init ==
    /\ config \in {[platform |-> c.platform, strategy |-> c.strategy,
                    rules |-> BuildRegistry(c)] : c \in Configs}
    /\ pc = "launch" /\ screen \in {Top(p) : p \in LaunchPages}
    /\ stack = <<>> /\ visited = <<>> /\ breaker = ClosedBreaker
    /\ target = TargetApp /\ currentApp = TargetApp
    /\ spent = {} /\ pick = NoPick /\ recovered = FALSE /\ inFlight = 0
    /\ expired = FALSE /\ popups = 0 /\ outcome = "none"

(* launch_app or the wait after it fails.                                  *)
LaunchFails ==
    /\ pc = "launch" /\ End("aborted")
    /\ UNCHANGED <<config, screen, stack, visited, breaker, target, currentApp,
                   spent, pick, recovered, inFlight, expired, popups>>

RootFrame(s) ==
    LET p == s.page
        f == [Frame(p, 0, <<>>, NoTitle, FALSE) EXCEPT
                 !.elements = Explore(s, 0, <<>>), !.app = App(screen.page)]
    IN WithScroll(f, p, Explore(s, 0, <<>>))

(* The first snapshot gives the target its identity.  A form is cancelled  *)
(* first, and the page that shows then, if it is another one, is the root; *)
(* a gated root is reported as not expanded but explored all the same.     *)
Start ==
    /\ pc = "launch" /\ pc' = "loop"
    /\ \E s \in IF Decision(screen.page, 0, <<>>) = "cancel-first"
                THEN AfterInput(screen) ELSE {screen} :
          LET gated == s.page = screen.page /\ Decision(s.page, 0, <<>>) # "dfs"
          IN /\ screen' = s
             /\ stack' = <<RootFrame(s)>>
             /\ visited' = <<Entry(s.page, <<>>,
                    IF gated THEN "reached-not-expanded" ELSE "expanded", TRUE)>>
    /\ target' = App(screen.page) /\ currentApp' = App(screen.page)
    /\ UNCHANGED <<config, breaker, spent, pick, recovered, inFlight, expired,
                   popups, outcome>>

(* The loop ends: nothing left, a limit reached or the breaker open.       *)
Finish ==
    /\ pc = "loop" /\ ~Running
    /\ End(IF CircuitOpen(breaker, Threshold) THEN "aborted" ELSE "completed")
    /\ UNCHANGED <<config, screen, stack, visited, breaker, target, currentApp,
                   spent, pick, recovered, inFlight, expired, popups>>

Aligned ==
    /\ pc = "loop" /\ Running
    /\ IsOnExpectedPage(screen, Head0.id, Head0.title)
    /\ pc' = NextStep(Head0)
    /\ UNCHANGED <<config, screen, stack, visited, breaker, target, currentApp,
                   spent, pick, recovered, inFlight, expired, popups, outcome>>

(* Another page shows, or the inspection failed: one bounded recovery.     *)
(* On Android the stack follows the page it lands on; a frame below the    *)
(* top that is found there takes over at once.                             *)
Realign ==
    /\ pc = "loop" /\ Running
    /\ \E o \in NavigateBack(config.platform, screen, Head0.parentTitle) :
          LET way == IF Android /\ (o.ok \/ Head0.external)
                     THEN Captured(stack, o.screen, currentApp)
                     ELSE Uncaptured(stack, o.screen, currentApp)
              elsewhere == way.resumed \notin {0, Len(stack)}
          IN /\ GoTo(way)
             /\ recovered' = (o.ok /\ ~elsewhere)
             /\ pc' = IF elsewhere THEN "loop" ELSE "realigned"
    /\ UNCHANGED <<config, visited, breaker, target, spent, pick, inFlight,
                   expired, popups, outcome>>

\* Mutant: a back that says it succeeded is believed.
RecoveredUnchecked ==
    /\ pc = "realigned" /\ recovered
    /\ pc' = NextStep(Head0) /\ recovered' = FALSE
    /\ UNCHANGED <<config, screen, stack, visited, breaker, target, currentApp,
                   spent, pick, inFlight, expired, popups, outcome>>

Recovered ==
    /\ pc = "realigned" /\ recovered
    /\ IsOnExpectedPage(screen, Head0.id, Head0.title)
    /\ pc' = NextStep(Head0) /\ recovered' = FALSE
    /\ UNCHANGED <<config, screen, stack, visited, breaker, target, currentApp,
                   spent, pick, inFlight, expired, popups, outcome>>

(* Recovery failed on the root, all of whose queued elements were taken.   *)
HomeExhausted ==
    /\ pc = "realigned" /\ Head0.depth = 0
    /\ Head0.cursor >= Len(Head0.elements)
    /\ End("completed") /\ recovered' = FALSE
    /\ UNCHANGED <<config, screen, stack, visited, breaker, target, currentApp,
                   spent, pick, inFlight, expired, popups>>

(* Recovery failed below the root: the frame is dropped, with a failure    *)
(* record unless every frame was exhausted.                                *)
DropFrame ==
    /\ pc = "realigned" /\ Head0.depth > 0
    /\ stack' = Popped /\ pc' = "loop" /\ recovered' = FALSE
    /\ UNCHANGED <<config, screen, visited, breaker, target, currentApp, spent,
                   pick, inFlight, expired, popups, outcome>>

(* Recovery failed on the root: the app is launched once more.  Unless     *)
(* that throws or shows another page the exploration is said to continue,  *)
(* but the root is popped like any other mismatched frame.                 *)
RestartHome ==
    /\ pc = "realigned" /\ Head0.depth = 0
    /\ Head0.cursor < Len(Head0.elements)
    /\ recovered' = FALSE
    /\ \E s \in Launched(screen) :
          /\ screen' = s
          /\ \/ /\ IsOnExpectedPage(s, Head0.id, Head0.title)
                /\ stack' = Popped /\ pc' = "loop" /\ UNCHANGED outcome
             \/ End("aborted") /\ UNCHANGED stack
    /\ UNCHANGED <<config, visited, breaker, target, currentApp, spent, pick,
                   inFlight, expired, popups>>

-------------------------------------------------------------------------------
(* Step 1: a fresh frame looks at the page that shows.                     *)

LookAt == pc = "look" /\ pc' = "loop"

(* The page was visited before: by this path, or by another one, which is  *)
(* then recorded as an alias.                                              *)
Revisit ==
    /\ LookAt /\ Visited(visited, screen.page)
    /\ visited' = IF VisitedByPath(visited, screen.page, Head0.path) THEN visited
                  ELSE Append(visited, Entry(screen.page, Head0.path, "alias", FALSE))
    /\ IF Head0.depth = 0
       THEN stack' = Popped /\ UNCHANGED <<screen, currentApp>>
       ELSE \E way \in BackTo(Popped, screen, Head0.parentTitle, currentApp, IfRecovered) :
               GoTo([way EXCEPT !.app = IF Head0.external THEN target ELSE @])
    /\ UNCHANGED <<config, breaker, target, spent, pick, recovered, inFlight,
                   expired, popups, outcome>>

LookGated ==
    /\ LookAt /\ ~Visited(visited, screen.page)
    /\ Decision(screen.page, Head0.depth, Head0.path) # "dfs"
    /\ visited' = Append(visited, Entry(screen.page, Head0.path,
                                        "reached-not-expanded", FALSE))
    /\ breaker' = PageSuccess(breaker)
    /\ IF Head0.depth = 0
       THEN stack' = Popped /\ UNCHANGED <<screen, currentApp>>
       ELSE \E way \in BackTo(Popped, screen, Head0.parentTitle, currentApp, Never) :
               GoTo([way EXCEPT !.app = IF Head0.external THEN target ELSE @])
    /\ UNCHANGED <<config, target, spent, pick, recovered, inFlight, expired,
                   popups, outcome>>

(* The frame that expands the page on the screen: its elements are queued  *)
(* (one representative where a sampling rule applies) and its scroll state *)
(* starts.                                                                 *)
Expanded ==
    LET f    == Head0
        p    == screen.page
        all  == SelectSeq(Explore(screen, f.depth, f.path),
                          LAMBDA e : e \notin PageInfo[p].leaves)
        safe == SelectSeq(all, LAMBDA e : e \notin Unsafe)
        some == IF Sampled(config.rules, p, config.platform, f.depth, f.path)
                   /\ safe # <<>>
                THEN SubSeq(safe, 1, 1) ELSE all
    IN WithScroll([f EXCEPT !.id = p, !.title = Title(p), !.elements = some],
                  p, Explore(screen, f.depth, f.path))

CanExpand == /\ ~Visited(visited, screen.page)
             /\ Decision(screen.page, Head0.depth, Head0.path) = "dfs"

Registered(status, walked) ==
    Append(visited, Entry(screen.page, Head0.path, status, walked))

Expand ==
    /\ pc = "look" /\ pc' = "plan" /\ CanExpand /\ ~BeyondBoundary(Expanded)
    /\ visited' = Registered("expanded", TRUE)
    /\ breaker' = PageSuccess(breaker)
    /\ stack' = WithTop(Expanded)
    /\ UNCHANGED <<config, screen, target, currentApp, spent, pick, recovered,
                   inFlight, expired, popups, outcome>>

(* A page of a foreign app beyond the allowed depth is recorded and left:  *)
(* back to the frame below while that one is within the limit, else to the *)
(* target app.                                                             *)
StopAtBoundary ==
    /\ LookAt /\ CanExpand /\ BeyondBoundary(Expanded)
    /\ visited' = MarkNotExpanded(Registered("expanded", FALSE), screen.page)
    /\ breaker' = PageSuccess(breaker)
    /\ \E way \in IF BeyondBoundary(stack[Len(stack) - 1])
                  THEN ReturnToTarget(Popped, screen, currentApp, TRUE)
                  ELSE BackTo(Popped, screen, Head0.parentTitle, currentApp, Always) :
          GoTo(way)
    /\ UNCHANGED <<config, target, spent, pick, recovered, inFlight, expired,
                   popups, outcome>>

-------------------------------------------------------------------------------
(* Step 2: the next element, the next segment or the way back.             *)

(* discoverNextSegment: one scroll; a page of the same fingerprint with    *)
(* elements not seen before adds a segment.                                *)
NextSegment ==
    /\ pc = "plan" /\ pc' = "loop" /\ Exhausted(Head0)
    /\ Head0.scroll.segments # <<>> /\ Head0.scroll.index < MaxSegments
    /\ LET s     == Scrolled(screen)
           new   == SelectSeq(Explore(s, Head0.depth, Head0.path),
                              LAMBDA e : e \notin SeenKeys(Head0))
       IN /\ Title(s.page) # NoTitle /\ Head0.scroll.mark = Fingerprint(s.page)
          /\ new # <<>>
          /\ screen' = s
          /\ stack' = WithTop([Head0 EXCEPT
                !.cursor = 0,
                !.scroll = WithSegment(@, new)])
    /\ UNCHANGED <<config, visited, breaker, target, currentApp, spent, pick,
                   recovered, inFlight, expired, popups, outcome>>

(* Nothing left on the page (or the scroll or its inspection failed).      *)
PopFrame ==
    /\ pc = "plan" /\ pc' = "loop" /\ Exhausted(Head0)
    /\ \E s \in {screen} \cup
                (IF Head0.scroll.segments # <<>> THEN {Scrolled(screen)} ELSE {}) :
         IF Head0.external
         THEN \E way \in ReturnToTarget(Popped, s, currentApp, FALSE) \cup
                         LaunchThrows(Popped, s, Head0.parentTitle, currentApp) :
                 GoTo(way)
         ELSE IF Head0.depth > 0
         THEN \E way \in BackTo(Popped, s, Head0.parentTitle, currentApp, IfRecovered) :
                 GoTo(way)
         ELSE stack' = Popped /\ screen' = s /\ UNCHANGED currentApp
    /\ UNCHANGED <<config, visited, breaker, target, spent, pick, recovered,
                   inFlight, expired, popups, outcome>>

(* The elements of the segment still to tap: known no-ops and actions      *)
(* whose budget is spent are skipped.                                      *)
Usable == {i \in (Head0.cursor + 1) .. Len(Segment(Head0)) :
              /\ Segment(Head0)[i] \notin Head0.noOps
              /\ HasBudget(Head0, Segment(Head0)[i])}

SkipRest ==
    /\ pc = "plan" /\ pc' = "loop" /\ ~Exhausted(Head0) /\ Usable = {}
    /\ stack' = WithTop([Head0 EXCEPT !.cursor = Len(Segment(Head0))])
    /\ UNCHANGED <<config, screen, visited, breaker, target, currentApp, spent,
                   pick, recovered, inFlight, expired, popups, outcome>>

(* restoreSegment scrolls once per earlier segment from wherever the page  *)
(* is; the segment is back when its first element shows.                   *)
ScrolledBy(s, n) ==
    [s EXCEPT !.view = IF @ + n < Len(Views(s.page)) THEN @ + n
                       ELSE Len(Views(s.page))]

SegmentShows(s) == Segment(Head0)[1] \in ToSet(Views(s.page)[s.view])

Scrolls == Head0.scroll.index - 1

RestoreFails ==
    /\ pc = "plan" /\ pc' = "loop" /\ ~Exhausted(Head0) /\ Usable # {}
    /\ Head0.scroll.index > 1
    /\ \E n \in 0 .. Scrolls : screen' = ScrolledBy(screen, n)
    /\ stack' = WithTop([Head0 EXCEPT
                    !.cursor = Len(Segment(Head0))])
    /\ UNCHANGED <<config, visited, breaker, target, currentApp, spent, pick,
                   recovered, inFlight, expired, popups, outcome>>

(* The cursor advances before the tap, whatever comes of it.               *)
Tap ==
    /\ pc = "plan" /\ pc' = "tap" /\ ~Exhausted(Head0) /\ Usable # {}
    /\ LET i == CHOOSE x \in Usable : \A y \in Usable : x <= y
       IN /\ pick' = [label |-> Segment(Head0)[i], retries |-> 0]
          /\ stack' = WithTop([Head0 EXCEPT !.cursor = i])
    /\ IF Head0.scroll.index <= 1 THEN UNCHANGED screen
       ELSE \E s \in {screen, ScrolledBy(screen, Scrolls)} :
               SegmentShows(s) /\ screen' = s
    /\ inFlight' = inFlight + 1
    /\ UNCHANGED <<config, visited, breaker, target, currentApp, spent,
                   recovered, expired, popups, outcome>>

TapSucceeds ==
    /\ pc = "tap" /\ pc' = "observe" /\ screen' \in AfterInput(screen)
    /\ spent' = IF pick.label \in Budgeted
                THEN spent \cup {BudgetKey(Head0, pick.label)} ELSE spent
    /\ UNCHANGED <<config, stack, visited, breaker, target, currentApp, pick,
                   recovered, inFlight, expired, popups, outcome>>

\* Mutant: the retries are not counted.
TapFailsUncounted ==
    /\ pc = "tap" /\ screen' \in AfterInput(screen)
    /\ IF config.strategy \in {"retry-3", "handoff"} THEN UNCHANGED <<pc, inFlight, pick>>
       ELSE /\ pc' = "loop" /\ pick' = NoPick
            /\ inFlight' = inFlight - 1
    /\ UNCHANGED <<config, stack, visited, breaker, target, currentApp, spent,
                   recovered, expired, popups, outcome>>

(* handleFailure: retry-3 taps again up to three times, handoff asks a     *)
(* human and taps again for as long as it fails.                           *)
TapFails ==
    /\ pc = "tap" /\ screen' \in AfterInput(screen)
    /\ CASE config.strategy = "retry-3" /\ pick.retries < MaxRetries ->
              /\ pick' = [pick EXCEPT !.retries = @ + 1]
              /\ UNCHANGED <<pc, inFlight>>
         [] config.strategy = "handoff" -> UNCHANGED <<pc, inFlight, pick>>
         [] OTHER -> /\ pc' = "loop" /\ pick' = NoPick
                     /\ inFlight' = inFlight - 1
    /\ UNCHANGED <<config, stack, visited, breaker, target, currentApp, spent,
                   recovered, expired, popups, outcome>>

-------------------------------------------------------------------------------
(* After a tap that succeeded: what came of it.                            *)

\* Mutant: the outcome of the tap is not counted.
ObservedUncounted == pc = "observe" /\ pc' = "loop" /\ pick' = NoPick /\ UNCHANGED inFlight

Observed == pc = "observe" /\ pc' = "loop" /\ pick' = NoPick /\ inFlight' = inFlight - 1

TapPath == Append(Head0.path, pick.label)

(* An external link is recorded and never walked into: when the app        *)
(* changed, the target app is launched and the stack reconciled.           *)
OpenExternalLink ==
    /\ Observed /\ pick.label \in ExternalLinks
    /\ visited' = Append(visited, Entry(screen.page, TapPath,
          IF App(screen.page) # target THEN "reached-not-expanded" ELSE "expanded",
          FALSE))
    /\ IF App(screen.page) # currentApp
       THEN \E s \in Launched(screen) :
               /\ screen' = s /\ currentApp' = target
               /\ stack' = Reconcile(stack, s.page, target, TRUE).stack
       ELSE Stay
    /\ UNCHANGED <<config, breaker, target, spent, recovered, expired, popups,
                   outcome>>

Observation == Decision(screen.page, Head0.depth + 1, TapPath)

\* Mutant: the way back is that of the page below.
BackTitleOfParent == Head0.parentTitle

BackTitle == IF Head0.title # NoTitle THEN Head0.title ELSE Head0.parentTitle

(* A gated page is recorded and left; a form is cancelled first, and when  *)
(* that shows a page of the stack its frame resumes (the root is not reset *)
(* here).                                                                  *)
HitGated ==
    /\ Observed /\ pick.label \notin ExternalLinks /\ Observation # "dfs"
    /\ visited' = Append(visited, Entry(screen.page, TapPath,
                                        "reached-not-expanded", FALSE))
    /\ \/ \E way \in BackTo(stack, screen, BackTitle, currentApp, Never) : GoTo(way)
       \/ /\ Observation = "cancel-first"
          /\ \E s \in AfterInput(screen) :
               LET re == Reconcile(stack, s.page, target, FALSE)
               IN IF re.resumed > 0 THEN GoTo(After(re, s, currentApp))
                  ELSE \E way \in BackTo(stack, s, BackTitle, currentApp, Never) : GoTo(way)
    /\ UNCHANGED <<config, breaker, target, spent, recovered, expired, popups,
                   outcome>>

(* validateNavigation *)
SamePage == /\ screen.page = Head0.id
            /\ Title(screen.page) = NoTitle \/ Head0.title = NoTitle
               \/ Title(screen.page) = Head0.title
SelfLoop == /\ Title(screen.page) # NoTitle /\ Title(screen.page) = Head0.title
            /\ pick.label \in PageInfo[screen.page].titleLabels
Navigated == ~SamePage /\ ~SelfLoop /\ ~PageInfo[screen.page].alert

Judging == Observed /\ pick.label \notin ExternalLinks /\ Observation = "dfs"

(* No navigation: a page failure.  From the threshold on the rest of the   *)
(* page is skipped, by the length of its first segment unless the cursor   *)
(* is at the end of a scrolled one.                                        *)
NoNavigation ==
    /\ Judging /\ ~Navigated
    /\ breaker' = PageFailure(breaker)
    /\ LET f    == Head0
           skip == IF ~SkipPage(breaker', Threshold) THEN f.cursor
                   ELSE IF f.scroll.segments # <<>> /\ Exhausted(f)
                        THEN Len(Segment(f)) ELSE Len(f.elements)
       IN stack' = WithTop([f EXCEPT
             !.cursor = skip,
             !.noOps = IF SamePage \/ SelfLoop THEN @ \cup {pick.label} ELSE @])
    /\ UNCHANGED <<config, screen, visited, target, currentApp, spent,
                   recovered, expired, popups, outcome>>

Foreign == App(screen.page) # currentApp \/ App(screen.page) # target

(* The text changed but the page is the frame's own: the frame follows.    *)
Drift ==
    /\ Judging /\ Navigated
    /\ AncestorIndex(stack, screen.page) = Len(stack)
    /\ stack' = WithTop([Head0 EXCEPT !.id = screen.page])
    /\ currentApp' = App(screen.page)
    /\ UNCHANGED <<config, screen, visited, breaker, target, spent, recovered,
                   expired, popups, outcome>>

(* The tap led to a page further down the stack.                           *)
ReturnToAncestor ==
    /\ Judging /\ Navigated
    /\ LET i == AncestorIndex(stack, screen.page)
       IN /\ 0 < i /\ i < Len(stack)
          /\ stack' = ResumeAt(stack, i, screen.page)
    /\ breaker' = ClosedBreaker /\ currentApp' = App(screen.page)
    /\ UNCHANGED <<config, screen, visited, target, spent, recovered, expired,
                   popups, outcome>>

Descend ==
    /\ Judging /\ Navigated
    /\ AncestorIndex(stack, screen.page) = 0
    /\ stack' = Append(stack, Frame(screen.page, Head0.depth + 1, TapPath,
                                    BackTitle, Foreign))
    /\ breaker' = ClosedBreaker /\ currentApp' = App(screen.page)
    /\ UNCHANGED <<config, screen, visited, target, spent, recovered, expired,
                   popups, outcome>>

-------------------------------------------------------------------------------
(* A tool call throws (a snapshot cannot be taken): explore() rejects.     *)
ToolThrows ==
    /\ pc \in {"launch", "loop", "look", "plan", "observe"} /\ End("threw")
    /\ UNCHANGED <<config, screen, stack, visited, breaker, target, currentApp,
                   spent, pick, recovered, inFlight, expired, popups>>

(* The environment: a popup or an app of its own accord changes the page.  *)
Popup ==
    /\ pc \notin {"launch", "done"} /\ popups < MaxPopups
    /\ popups' = popups + 1
    /\ screen' \in AfterInput(screen) \ {screen}
    /\ UNCHANGED <<config, pc, stack, visited, breaker, target, currentApp,
                   spent, pick, recovered, inFlight, expired, outcome>>

TimePasses ==
    /\ pc \notin {"launch", "done"} /\ ~expired /\ expired' = TRUE
    /\ UNCHANGED <<config, pc, screen, stack, visited, breaker, target,
                   currentApp, spent, pick, recovered, inFlight, popups, outcome>>

Engine ==
    \/ LaunchFails \/ Start \/ Finish \/ Aligned \/ Realign \/ Recovered
    \/ HomeExhausted \/ DropFrame \/ RestartHome \/ Revisit \/ LookGated
    \/ Expand \/ StopAtBoundary \/ NextSegment \/ PopFrame \/ SkipRest
    \/ RestoreFails \/ Tap \/ TapSucceeds \/ TapFails \/ OpenExternalLink
    \/ HitGated \/ NoNavigation \/ Drift \/ ReturnToAncestor \/ Descend

Next == Engine \/ ToolThrows \/ Popup \/ TimePasses

(* explore() goes on as long as its calls return, and the clock advances.  *)
Fairness == WF_vars(Engine) /\ WF_vars(TimePasses)

Spec == Init /\ [][Next]_vars /\ Fairness

-------------------------------------------------------------------------------
(* Properties.                                                             *)

(* The stack is the path of taps from the root: the root has depth 0, and  *)
(* every frame extends the path of the one below it by one label, whatever *)
(* frames were resumed, reset, dropped or refreshed in between.            *)
StackIsPath ==
    \A i \in DOMAIN stack :
        /\ stack[i].depth = i - 1 /\ Len(stack[i].path) = i - 1
        /\ i > 1 => Front(stack[i].path) = stack[i - 1].path

(* What a frame asks navigateBack to reach is the frame below it, by its   *)
(* title, or by the title that one goes back to when it has none.          *)
ParentTitles ==
    \A i \in 2 .. Len(stack) :
        stack[i].parentTitle = IF stack[i - 1].title # NoTitle
                               THEN stack[i - 1].title
                               ELSE stack[i - 1].parentTitle

(* The limits that are looked at once per round hold at all times, the one *)
(* on pages up to the second page a round may record.                      *)
Limits ==
    /\ Len(visited) <= MaxPages + 1
    /\ breaker.page <= breaker.total /\ breaker.total <= 2 * Threshold
    /\ \A i \in DOMAIN stack :
          Len(stack[i].scroll.segments) <= IF MaxSegments > 1 THEN MaxSegments ELSE 1

(* Every tap sent has been committed or rejected when the next round       *)
(* starts, and when the exploration ends other than by an exception.       *)
TapsAccountedFor ==
    pc \notin {"tap", "observe"} /\ outcome # "threw" => inFlight = 0

(* A tap is decided only while the device shows the page of the frame the  *)
(* element was queued from, unless a popup came in between.                *)
TapsOnFramePage ==
    [][pc = "plan" /\ pc' = "tap" /\ popups = 0 =>
          IsOnExpectedPage(screen', Head0.id, Head0.title)]_vars

(* The exploration is an Exploration: the report only grows, and a page is *)
(* walked into only if nothing about it was reported before.               *)
Report == INSTANCE Exploration WITH
    report <- [i \in DOMAIN visited |-> visited[i].page],
    walked <- {visited[i].page : i \in {j \in DOMAIN visited : visited[j].walked}},
    over   <- pc = "done"

ReportRefined == Report!Spec

(* The exploration ends: within its time, unless it asks a human for every *)
(* tap that fails, which no limit bounds.                                  *)
EndsUnlessHandoff == config.strategy # "handoff" => <>(pc = "done")
===============================================================================
