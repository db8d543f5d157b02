-------------------------------- MODULE UiModel --------------------------------
(***************************************************************************)
(* What the UI tools make of the nodes of a captured screen:               *)
(* packages/adapter-maestro/src/ui-model.ts.  The content of a screen is   *)
(*   [text, nodes], the visible text it shows and its nodes in document    *)
(* order.  A node carries what the tools tell apart:                       *)
(*   covers    the points of the screen within its bounds, and             *)
(*   place     the one at their centre, where it is tapped                 *)
(*   far       the distance of that point to the centre of the viewport    *)
(*   quality   how its value matches the selector of the call              *)
(*   view      the part of it that is in the viewport: "in", at least a    *)
(*             quarter, "edge", less, "out", nothing                       *)
(*   bonus     the points for depth, text and distance to the centre       *)
(*   locator   what identifies it natively on iOS, or NoLocator            *)
(*   kind      "plain", a text "field", or a "secret" one that hides its   *)
(*             value                                                       *)
(* Nodes nest and overlap as they will.  A query names one selector field. *)
(***************************************************************************)
EXTENDS Integers, Sequences, FiniteSets

NoLocator == "NoLocator"
NoNode == "NoNode"

Strong == {"resourceId", "contentDesc", "text"}

Matching(node) == node.quality # "none"
OffScreen(node) == node.bounds /\ node.view = "out"
BarelyVisible(node) == node.bounds /\ node.view \in {"edge", "out"}

\* classifyStringMatch, with the weights a resource id has of its own.
MatchScore(quality, field) ==
    IF field = "resourceId"
    THEN CASE quality = "exact" -> 10 [] quality = "prefix" -> 8 [] OTHER -> 6
    ELSE CASE quality = "exact" -> 6 [] quality = "prefix" -> 4 [] OTHER -> 2

\* The score of a node before matches are compared with each other ...
NodeScore(node, field) ==
    LET Points(test, n) == IF test THEN n ELSE 0
    IN  MatchScore(node.quality, field) + node.bonus
        - Points(~node.enabled, 3) - Points(~node.bounds, 2)
        - Points(OffScreen(node), 2) + Points(node.bounds /\ ~OffScreen(node), 2)
        + Points(node.clickable, 1)

\* The first sort, which is stable: equal matches stay in document order.
FirstKey(nodes, i, field) ==
    LET Flag(test) == IF test THEN 1 ELSE 0
        node == nodes[i]
    IN  <<NodeScore(node, field), Flag(node.enabled), Flag(~OffScreen(node)),
          Flag(node.clickable), -node.far, -i>>
Ahead(a, b) == \E k \in 1..6 : a[k] > b[k] /\ \A l \in 1..(k - 1) : a[l] = b[l]

Matches(nodes) == {i \in DOMAIN nodes : Matching(nodes[i])}

\* annotateOverlap: a match that lies, to four fifths, under one ranked higher;
\* the ratio is rounded to two digits.
Obscured(nodes, i, field) ==
    /\ nodes[i].bounds
    /\ \E j \in Matches(nodes) :
         /\ nodes[j].bounds
         /\ Ahead(FirstKey(nodes, j, field), FirstKey(nodes, i, field))
         /\ 200 * Cardinality(nodes[i].covers \cap nodes[j].covers)
              >= 159 * Cardinality(nodes[i].covers)

\* ... and after: a match that is obscured, or hardly visible, loses points.
FinalScore(nodes, i, field) ==
    NodeScore(nodes[i], field)
    - CASE Obscured(nodes, i, field) -> IF nodes[i].clickable THEN 1 ELSE 2
        [] ~Obscured(nodes, i, field) /\ BarelyVisible(nodes[i]) -> 1
        [] OTHER -> 0

\* The second sort, by the final score alone, keeps the first where it ties.
Before(nodes, i, j, field) ==
    \/ FinalScore(nodes, i, field) > FinalScore(nodes, j, field)
    \/ /\ FinalScore(nodes, i, field) = FinalScore(nodes, j, field)
       /\ Ahead(FirstKey(nodes, i, field), FirstKey(nodes, j, field))

\* queryUiNodes: every match counts, at most `limit' of them are listed, each
\* with its score.
Above(nodes, i, field) == {j \in Matches(nodes) : Before(nodes, j, i, field)}
Ranked(nodes, field) ==
    [k \in 1..Cardinality(Matches(nodes)) |->
        LET i == CHOOSE i \in Matches(nodes) : Cardinality(Above(nodes, i, field)) = k - 1
        IN  [node |-> nodes[i], score |-> FinalScore(nodes, i, field)]]
QueryResult(nodes, query) ==
    LET ranked == Ranked(nodes, query.field)
    IN  [total |-> Cardinality(Matches(nodes)),
         matches |-> IF query.limit = 0 \/ query.limit >= Len(ranked)
                     THEN ranked ELSE SubSeq(ranked, 1, query.limit)]

EmptyResult == [total |-> 0, matches |-> <<>>]

\* selectDominantCandidate: the first of several matches is taken only when it
\* is exact, visible, enabled and clearly ahead of a second that is not its peer.
\* Both matched the same field, so an exact second is always a peer.
Dominates(matches, field) ==
    /\ Len(matches) > 1
    /\ matches[1].node.bounds /\ matches[1].node.enabled /\ ~BarelyVisible(matches[1].node)
    /\ field \in Strong
    /\ matches[1].node.quality = "exact"
    /\ matches[1].score - matches[2].score >= 3
    /\ matches[2].node.quality # "exact"

\* buildUiTargetResolution: [status, node], with no node unless it is resolved.
Resolution(result, field) ==
    LET As(status) == [status |-> status, node |-> NoNode]
        first == result.matches[1].node
        All(P(_)) == \A i \in DOMAIN result.matches : P(result.matches[i].node)
        Disabled(node) == ~node.enabled
        several == IF All(OffScreen) THEN As("off_screen")
                   ELSE IF Dominates(result.matches, field)
                   THEN [status |-> "resolved", node |-> first]
                   ELSE IF All(Disabled) THEN As("disabled_match") ELSE As("ambiguous")
        single == IF BarelyVisible(first) THEN As("off_screen")
                  ELSE IF ~first.enabled THEN As("disabled_match")
                  ELSE IF ~first.bounds THEN As("missing_bounds")
                  ELSE [status |-> "resolved", node |-> first]
    IN  CASE result.total = 0 -> As("no_match")
          [] result.total > 1 -> several
          [] OTHER -> single

ReasonOf(status) ==
    CASE status = "resolved" -> "ok"
      [] status \in {"no_match", "off_screen"} -> "no_match"
      [] status = "ambiguous" -> "ambiguous_match"
      [] status = "missing_bounds" -> "missing_bounds"
      [] status = "disabled_match" -> "action_focus_failed"

\* isWaitConditionMet.
WaitConditionMet(result, until) ==
    CASE until = "gone" -> result.total = 0
      [] until = "unique" -> result.total = 1
      [] OTHER -> result.total > 0 /\ ~BarelyVisible(result.matches[1].node)

\* The hash wait_for_ui_stable takes of a capture.  It parses the raw capture as
\* JSON and collects the `text' of its nodes.  An Android dump is XML; the nodes
\* of an iOS capture have AXLabel, title and AXValue and no `text'.  An iOS
\* capture without nodes is an empty list, or no JSON.
StabilityHashes(platform, content) ==
    CASE platform = "android" -> {"parse_error"}
      [] platform # "android" /\ content.nodes = <<>> -> {"parse_error", "no_signatures"}
      [] OTHER -> {"no_signatures"}

\* The hash of a screen summary, taken from the parsed nodes.
TreeHash(content) == content.text

\* The nodes whose bounds contain a point, and findNodeAtPoint among them: the
\* smallest, the first of equals; without one the first node of all stands in.
At(nodes, point) == {i \in DOMAIN nodes : nodes[i].bounds /\ point \in nodes[i].covers}
NodesAt(nodes, point) == {nodes[i] : i \in At(nodes, point)}
PointNode(nodes, point) ==
    LET Area(i) == Cardinality(nodes[i].covers)
        Smallest(i) == \A j \in At(nodes, point) :
                          Area(i) < Area(j) \/ (Area(i) = Area(j) /\ i <= j)
    IN  IF At(nodes, point) = {} THEN nodes[1]
        ELSE nodes[CHOOSE i \in At(nodes, point) : Smallest(i)]
================================================================================
