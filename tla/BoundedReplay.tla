---------------------------- MODULE BoundedReplay ----------------------------
(***************************************************************************)
(* What the action tools promise about repetition.  An action is executed  *)
(* once, under the intent it was issued with; the OCR fallback may tap for *)
(* it at most twice more; it is executed again only once an interruption   *)
(* was cleared for it; and a replay is a new action whose intent is that   *)
(* of the latest action recorded as a success, unless that one is risky,   *)
(* with the page that action ended on for a target it does not name.       *)
(* An outcome, once recorded, is only ever lowered to a failure.           *)
(***************************************************************************)
EXTENDS Naturals, FiniteSets

CONSTANTS Ids, Intents, Risky, NoIntent, Blank,
          FilledIn(_, _)   \* an intent with a page for a missing target

VARIABLES issued,     \* intent each action was issued with, or NoIntent
          last,       \* the last execution: [action, intent, why]
          taps,       \* OCR taps made for each action
          done,       \* the actions that were executed once
          cleared,    \* the actions an interruption was cleared for
          outcome,    \* recorded outcome of each action, or "none"
          landed      \* the page each recorded action ended on

Successes == {a \in Ids : outcome[a] = "success"}
LatestSuccess == CHOOSE a \in Successes : \A b \in Successes : b <= a

Issue(a, i) ==
    /\ issued[a] = NoIntent
    /\ issued' = [issued EXCEPT ![a] = i]
    /\ UNCHANGED <<last, taps, done, cleared, outcome, landed>>

\* why = "act" for a client's own action, "replay" for a replayed one.
Execute(a, why) ==
    /\ issued[a] # NoIntent /\ a \notin done /\ outcome[a] = "none"
    /\ why = "replay" =>
         /\ Successes # {}
         /\ issued[a] = FilledIn(issued[LatestSuccess], landed[LatestSuccess])
         /\ issued[LatestSuccess] \notin Risky
    /\ done' = done \cup {a}
    /\ last' = [action |-> a, intent |-> issued[a], why |-> why]
    /\ UNCHANGED <<issued, taps, cleared, outcome, landed>>

OcrTap(a) ==
    /\ a \in done /\ taps[a] < 2 /\ outcome[a] = "none"
    /\ taps' = [taps EXCEPT ![a] = @ + 1]
    /\ last' = [action |-> a, intent |-> issued[a], why |-> "ocr"]
    /\ UNCHANGED <<issued, done, cleared, outcome, landed>>

Clear(a) ==
    /\ issued[a] # NoIntent
    /\ cleared' = cleared \cup {a}
    /\ UNCHANGED <<issued, last, taps, done, outcome, landed>>

Repeat(a, i) ==
    /\ a \in cleared /\ i \in {issued[a], Blank}
    /\ last' = [action |-> a, intent |-> i, why |-> "resume"]
    /\ UNCHANGED <<issued, taps, done, cleared, outcome, landed>>

\* Only the first record says where the action ended.
Record(a, o) ==
    /\ issued[a] # NoIntent
    /\ outcome[a] = "none" \/ o = "failed"
    /\ outcome' = [outcome EXCEPT ![a] = o]
    /\ landed' = [landed EXCEPT ![a] = IF outcome[a] = "none" THEN landed'[a] ELSE @]
    /\ UNCHANGED <<issued, last, taps, done, cleared>>

Next == \E a \in Ids :
    \/ \E i \in Intents : Issue(a, i)
    \/ \E why \in {"act", "replay"} : Execute(a, why)
    \/ OcrTap(a) \/ Clear(a)
    \/ \E i \in Intents \cup {Blank} : Repeat(a, i)
    \/ \E o \in {"success", "partial", "failed"} : Record(a, o)

Init ==
    /\ \A a \in Ids : outcome[a] # "none" => issued[a] # NoIntent
    /\ taps = [a \in Ids |-> 0] /\ cleared = {}

vars == <<issued, last, taps, done, cleared, outcome, landed>>
Spec == Init /\ [][Next]_vars
=============================================================================
