-------------------------- MODULE InterruptionRules --------------------------
(***************************************************************************)
(* The interruption policy: which rule answers a detected interruption,    *)
(* what the rule allows, and the two profile gates of the                  *)
(* resolve_interruption tool (policy-engine.ts, interruption-resolver.ts,  *)
(* governance.ts).  A rule is reduced to what its decision depends on:     *)
(*   type, signature (the signal keys it requires), priority, auto, slot   *)
(*   ("unset" when it names none), target (it names something to tap) and  *)
(*   maxAttempts.                                                          *)
(***************************************************************************)
EXTENDS ScreenState

CONSTANT Rules       \* the rules of the platform's file, a sequence

Slots == {"primary", "secondary", "cancel", "destructive", "unset"}
Rule  == [type: {"permission_prompt", "action_sheet", "system_alert", "overlay"},
          signature: SUBSET {"permission_prompt", "dialog_actions", "container_role"},
          priority: 1..3, auto: BOOLEAN, slot: Slots, target: BOOLEAN,
          maxAttempts: 0..4]

ASSUME RulesAssumption == Rules \in Seq(Rule)

\* The first rule in a stable sort by descending priority that fits.
SignalMatchesRule(s, rule) == rule.signature \subseteq SignalKeys(s)
Fits(s, i) == Rules[i].type = ClassifyInterruption(s) /\ SignalMatchesRule(s, Rules[i])
Precedes(i, j) ==
    \/ Rules[i].priority > Rules[j].priority
    \/ Rules[i].priority = Rules[j].priority /\ i <= j
MatchedRule(s) ==
    {i \in DOMAIN Rules :
       Fits(s, i) /\ \A j \in DOMAIN Rules : Fits(s, j) => Precedes(i, j)}

\* decideInterruptionResolution: no rule fails, a rule that is not automatic
\* denies, a slot the surface does not offer fails.
Decision(s) ==
    IF MatchedRule(s) = {} THEN "failed"
    ELSE LET rule == Rules[CHOOSE i \in MatchedRule(s) : TRUE]
         IN IF ~rule.auto THEN "denied"
            ELSE IF rule.slot # "unset" /\ rule.slot \notin ButtonSlots(ClassifyInterruption(s))
                 THEN "failed"
            ELSE "resolved"

\* The gates of a session's profile; the guards of an action pass no profile.
IsHighRiskRule(rule) == rule.slot = "destructive"
ProfileDenies(profile, s) ==
    /\ profile # "unchecked" /\ MatchedRule(s) # {}
    /\ LET rule == Rules[CHOOSE i \in MatchedRule(s) : TRUE]
       IN \/ IsHighRiskRule(rule) /\ profile # "high_risk"
          \/ Decision(s) = "resolved" /\ profile = "no_tap"

\* The decision after the gates and the number of taps it is worth: a rule
\* that names nothing to tap fails, and the attempts are clamped to 1..3.
Verdict(profile, s) == IF ProfileDenies(profile, s) THEN "denied" ELSE Decision(s)
TapBudget(s) ==
    LET rule == Rules[CHOOSE i \in MatchedRule(s) : TRUE]
    IN IF ~rule.target THEN 0
       ELSE IF rule.maxAttempts > 3 THEN 3
       ELSE IF rule.maxAttempts < 1 THEN 1 ELSE rule.maxAttempts
=============================================================================
