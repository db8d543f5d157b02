---------------------------- MODULE ExplorerScreen ----------------------------
(***************************************************************************)
(* What the explorer sees of the device: a page of some app, scrolled to   *)
(* one of its viewports, and how it decides whether to walk into a page    *)
(* (packages/explorer/src: snapshot.ts, scroll-segment.ts,                 *)
(* page-context-router.ts, page-context-heuristic.ts, rules/).             *)
(*                                                                         *)
(* A page stands for one visible text: its screenId is the hash of that    *)
(* text, so two snapshots have the same screenId exactly when they show    *)
(* the same page.  Labels, titles and apps are model values, and a text    *)
(* pattern of a rule is the set of the values it matches.                  *)
(***************************************************************************)
EXTENDS Naturals, Sequences, FiniteSets, SequencesExt

CONSTANTS
    Pages,      \* the pages the device can show
    PageInfo,   \* page -> what a snapshot of the page says (see SnapshotType)
    Moves,      \* page -> the pages one tap, back or popup may lead to
    TargetApp,  \* config.appId
    LaunchPages,\* the pages launchApp may bring to the front
    Labels,     \* element labels
    NoTitle     \* the title of an untitled page

Title(p)  == PageInfo[p].title
Layout(p) == PageInfo[p].layout      \* hashUiStructure of the UI tree
App(p)    == PageInfo[p].app
Views(p)  == PageInfo[p].views       \* the labels each viewport shows

Titles == {Title(p) : p \in Pages} \cup {NoTitle}
Apps   == {App(p) : p \in Pages}

ContextTypes == {"normal_page", "form_editor", "popup_surface",
                 "permission_surface", "system_alert_surface",
                 "system_overlay", "action_sheet_surface", "app_dialog",
                 "app_modal", "keyboard_surface", "unknown"}

ASSUME ScreenAssumption ==
    /\ IsFiniteSet(Pages)
    /\ Moves \in [Pages -> SUBSET Pages]
    /\ LaunchPages \subseteq Pages
    /\ \A p \in Pages : Views(p) \in Seq(Seq(Labels)) /\ Views(p) # <<>>

Screens == UNION {[page : {p}, view : 1 .. Len(Views(p))] : p \in Pages}

Top(p) == [page |-> p, view |-> 1]

(* Any input sent to the device: it is lost, or the app shows some page.   *)
AfterInput(s) == {s} \cup {Top(p) : p \in Moves[s.page]}

(* scrollOnly: the next viewport, or the bottom.                           *)
Scrolled(s) ==
    [s EXCEPT !.view = IF @ < Len(Views(s.page)) THEN @ + 1 ELSE @]

-------------------------------------------------------------------------------
(* Rules.  An absent criterion is the full set (or the widest bound).      *)

PageActions    == {"skip-page", "gate-page", "defer-to-heuristic"}
ElementActions == {"skip-element", "defer-action"}

MatchesRule(rule, input) ==
    /\ IsPrefix(rule.pathPrefix, input.path)
    /\ input.platform \in rule.platforms
    /\ rule.minDepth <= input.depth /\ input.depth <= rule.maxDepth
    /\ Title(input.page) \in rule.titles
    /\ PageInfo[input.page].context \in rule.contexts
    /\ input.label \in rule.labels

(* evaluatePageRules, evaluateElementRules, evaluateSamplingRules: the      *)
(* engine asks only whether some enabled rule of the kind matches, which    *)
(* does not depend on the order by priority.                                *)
RuleMatched(rules, actions, input) ==
    \E i \in DOMAIN rules : /\ rules[i].enabled
                            /\ rules[i].action \in actions
                            /\ MatchesRule(rules[i], input)

(* upsertRule: a rule replaces the one of the same id in place.            *)
UpsertRule(rules, rule) ==
    LET same == {i \in DOMAIN rules : rules[i].id = rule.id}
    IN IF same = {} THEN Append(rules, rule)
       ELSE [rules EXCEPT ![CHOOSE i \in same : \A j \in same : i <= j] = rule]

UpsertAll(rules, more) == FoldLeft(UpsertRule, rules, more)

(* A project rule whose id was already seen among the project rules is     *)
(* dropped with a diagnostic.                                              *)
FirstOfEachId(rules) ==
    LET first(i) == \A j \in 1 .. (i - 1) : rules[j].id # rules[i].id
    IN FoldLeft(LAMBDA acc, i : IF first(i) THEN Append(acc, rules[i]) ELSE acc,
                <<>>, [i \in DOMAIN rules |-> i])

ApplyOverride(rules, override) ==
    LET same == {i \in DOMAIN rules : rules[i].id = override.id}
    IN IF same = {} THEN rules
       ELSE [rules EXCEPT ![CHOOSE i \in same : \A j \in same : i <= j] =
               [@ EXCEPT !.enabled = override.enabled]]

BuildRegistry(cfg) ==
    LET builtIn  == IF cfg.includeBuiltIns THEN cfg.builtIns ELSE <<>>
        project  == UpsertAll(UpsertAll(builtIn, cfg.legacy),
                              FirstOfEachId(cfg.project))
        adjusted == FoldLeft(ApplyOverride, project, cfg.overrides)
    IN SelectSeq(adjusted, LAMBDA r : r.id \notin cfg.disabledIds)

-------------------------------------------------------------------------------
(* The page decision: rules, then low-value pages, then the router on what *)
(* the harness detected, then the UI-tree heuristics.                      *)

LowValue(p, platform, depth) ==
    /\ platform = "android"
    /\ \/ PageInfo[p].lowValue = "title"
       \/ PageInfo[p].lowValue = "resource" /\ depth >= 2
       \/ PageInfo[p].lowValue = "few-elements" /\ depth >= 3

RouteOf(p) ==
    LET c == PageInfo[p].context
    IN CASE PageInfo[p].blockedOwner                        -> "gated"
         [] ~PageInfo[p].trusted /\ ~PageInfo[p].blockedOwner -> "defer"
         [] OTHER ->
              IF c \in {"normal_page", "keyboard_surface"} THEN "dfs"
              ELSE IF c = "form_editor" THEN "cancel-first"
              ELSE IF c = "unknown" THEN "defer" ELSE "gated"

HeuristicOf(p) ==
    IF PageInfo[p].authSurface \/ PageInfo[p].alert \/ PageInfo[p].nickname
    THEN "gated" ELSE "dfs"

PageDecision(rules, p, platform, depth, path) ==
    LET input == [page |-> p, path |-> path, depth |-> depth,
                  platform |-> platform, label |-> "none"]
    IN IF RuleMatched(rules, PageActions, input) THEN "gated"
       ELSE IF LowValue(p, platform, depth) THEN "gated"
       ELSE IF RouteOf(p) = "defer" THEN HeuristicOf(p) ELSE RouteOf(p)

(* The elements a frame queues from one viewport: those no element rule    *)
(* skips or defers.                                                        *)
Explorable(rules, s, platform, depth, path) ==
    SelectSeq(Views(s.page)[s.view],
              LAMBDA e : ~RuleMatched(rules, ElementActions,
                            [page |-> s.page, path |-> path, depth |-> depth,
                             platform |-> platform, label |-> e]))

Sampled(rules, p, platform, depth, path) ==
    RuleMatched(rules, {"sample-children"},
                [page |-> p, path |-> path, depth |-> depth,
                 platform |-> platform, label |-> "none"])
===============================================================================
