----------------------------- MODULE ExplorerFrames -----------------------------
(***************************************************************************)
(* The explorer's own state and the helpers that change it                 *)
(* (packages/explorer/src: types.ts Frame, frame-reconciler.ts,            *)
(* scroll-segment.ts, page-registry.ts, circuit-breaker.ts).               *)
(*                                                                         *)
(* The stack of frames holds the root first.  A frame remembers the page   *)
(* it stands for (id is the screenId, which also determines the layout;    *)
(* the title is kept apart because a drift of the text leaves it), the     *)
(* path of labels that led to it, the elements queued from it and the      *)
(* cursor: how many elements of the current segment were taken.            *)
(***************************************************************************)
EXTENDS ExplorerScreen

NoScroll == [index |-> 0, segments |-> <<>>, mark |-> <<NoTitle, NoTitle>>]

(* computePageFingerprint (its page type is left out).  The fingerprint    *)
(* taken after a scroll never equals that of a page without a title.       *)
Fingerprint(p) == <<App(p), Title(p)>>

ScrollOf(p, segment) ==
    [index |-> 1, segments |-> <<segment>>, mark |-> Fingerprint(p)]

Frame(p, depth, path, parentTitle, external) ==
    [id |-> p, title |-> Title(p), depth |-> depth, path |-> path,
     cursor |-> 0, elements |-> <<>>, parentTitle |-> parentTitle,
     app |-> App(p), external |-> external, noOps |-> {},
     scroll |-> NoScroll]

WithSegment(sc, segment) ==
    [sc EXCEPT !.index = @ + 1, !.segments = Append(@, segment)]

(* getCurrentSegmentElements                                               *)
Segment(f) == IF f.scroll.segments = <<>> THEN f.elements
              ELSE f.scroll.segments[f.scroll.index]

SeenKeys(f) == UNION {ToSet(f.scroll.segments[i]) : i \in DOMAIN f.scroll.segments}

(* A frame whose current segment is used up.                               *)
Exhausted(f) == f.cursor >= Len(Segment(f))

(* A frame that has not been expanded yet, or whose root was reset.        *)
Fresh(f) == f.cursor = 0 /\ f.elements = <<>>

(* initScrollState: a page that scrolls starts with the queued elements as *)
(* its first segment; any other page leaves the scroll state as it is.     *)
WithScroll(f, p, visible) ==
    IF Len(Views(p)) = 1 THEN f
    ELSE [f EXCEPT !.scroll =
             ScrollOf(p, IF f.elements # <<>> THEN f.elements ELSE visible)]

-------------------------------------------------------------------------------
(* findAncestorFrameIndex: the topmost frame of the same text and app,     *)
(* unless the titles disagree; failing that the topmost of the same title. *)
SameScreen(f, p) ==
    /\ f.id = p /\ f.app = App(p)
    /\ f.title = NoTitle \/ Title(p) = NoTitle \/ f.title = Title(p)

SameTitle(f, p) == Title(p) # NoTitle /\ f.title = Title(p) /\ f.app = App(p)

Topmost(S) == CHOOSE i \in S : \A j \in S : j <= i

AncestorIndex(stk, p) ==
    LET byScreen == {i \in DOMAIN stk : SameScreen(stk[i], p)}
        byTitle  == {i \in DOMAIN stk : SameTitle(stk[i], p)}
    IN IF byScreen # {} THEN Topmost(byScreen)
       ELSE IF byTitle # {} THEN Topmost(byTitle) ELSE 0

Refreshed(f, p) ==
    [f EXCEPT !.id = p, !.title = Title(p), !.app = App(p), !.external = FALSE]

\* Mutant: the frame of the page just left is kept in place of the one resumed.
ResumeAtKeepingTop(stk, i, p) ==
    Append(SubSeq(stk, 1, i - 1), Refreshed(stk[Len(stk)], p))

(* The frames down to i, the top one refreshed from the page on screen.    *)
ResumeAt(stk, i, p) == [SubSeq(stk, 1, i) EXCEPT ![i] = Refreshed(@, p)]

(* The root starts over on the page: what it queued is dropped, but its    *)
(* scroll state and its no-op labels are kept.                             *)
RootReset(stk, p) ==
    <<[Refreshed(stk[1], p) EXCEPT !.depth = 0, !.path = <<>>,
                                   !.cursor = 0, !.elements = <<>>]>>

(* reconcileStackToSnapshot: resumed is the index of the frame the page on *)
(* screen was matched with, or 0.                                          *)
Reconcile(stk, p, targetId, allowRootReset) ==
    LET i == AncestorIndex(stk, p)
    IN IF stk = <<>> THEN [stack |-> stk, resumed |-> 0]
       ELSE IF i > 0 THEN [stack |-> ResumeAt(stk, i, p), resumed |-> i]
       ELSE IF App(p) = targetId /\ allowRootReset
            THEN [stack |-> RootReset(stk, p), resumed |-> 1]
       ELSE [stack |-> stk, resumed |-> 0]

-------------------------------------------------------------------------------
(* The registry of visited pages.  An entry is the page, the path that led *)
(* there and the status the report shows; an alias records a further path  *)
(* to a page already visited.  walked tells the entries of the pages whose *)
(* elements were queued, which the registry itself does not keep.          *)
Entry(p, path, status, walked) ==
    [page |-> p, path |-> path, status |-> status, walked |-> walked]

\* Mutant: only the pages that were walked into count.
VisitedWalked(entries, p) ==
    \E i \in DOMAIN entries : entries[i].page = p /\ entries[i].walked

(* dedup: the text hash decides, whatever path led to the page.            *)
Visited(entries, p) == \E i \in DOMAIN entries : entries[i].page = p

VisitedByPath(entries, p, path) ==
    \E i \in DOMAIN entries : entries[i].page = p /\ entries[i].path = path

(* updatePageMetadata: the last entry of the page takes the status.        *)
MarkNotExpanded(entries, p) ==
    LET last == Topmost({i \in DOMAIN entries :
                            /\ entries[i].page = p
                            /\ entries[i].status # "alias"})
    IN [entries EXCEPT ![last].status = "reached-not-expanded"]

-------------------------------------------------------------------------------
(* The circuit breaker.                                                    *)
ClosedBreaker == [page |-> 0, total |-> 0]

PageSuccess(b) == [b EXCEPT !.page = 0]

PageFailure(b) == [page |-> b.page + 1, total |-> b.total + 1]

SkipPage(b, threshold)    == b.page >= threshold

CircuitOpen(b, threshold) == b.total >= 2 * threshold
===============================================================================
