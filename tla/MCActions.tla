----------------------------- MODULE MCActions -----------------------------
EXTENDS ActionCall
Plain == [page |-> "home", content |-> "a", blocking |-> {}, hints |-> {}, log |-> {},
          crash |-> FALSE, challenge |-> FALSE, role |-> "none", clickable |-> TRUE]
Prompt   == [Plain EXCEPT !.blocking = {"permission_prompt"}]
Typed    == [Plain EXCEPT !.content = "b"]
Slow     == [Plain EXCEPT !.log = {"network"}, !.clickable = FALSE]
Offline  == [Plain EXCEPT !.log = {"offline"}]
Broken   == [Plain EXCEPT !.blocking = {"error_state"}]
Otp      == [Plain EXCEPT !.page = "next", !.challenge = TRUE]
MCScreens == {Plain, Prompt, Typed, Slow, Offline, Broken, Otp}
Tap  == [kind |-> "tap", risky |-> FALSE, text |-> TRUE, target |-> "none"]
Pay  == [kind |-> "tap", risky |-> TRUE, text |-> TRUE, target |-> "none"]
Wait == [kind |-> "wait", risky |-> FALSE, text |-> TRUE, target |-> "own"]
MCIntents == {Tap, Pay, Wait}
Ok       == [status |-> "success", reason |-> "ok", target |-> "resolved"]
Unproved == [status |-> "partial", reason |-> "ok", target |-> "resolved"]
Broke    == [status |-> "failed", reason |-> "adapter_error", target |-> "none"]
Start == [open |-> TRUE, audit |-> TRUE, profile |-> "standard", earlier |-> Tap,
          landed |-> "home"]
MCStarts == {Start, [Start EXCEPT !.earlier = Pay, !.profile = "no_tap"],
             [Start EXCEPT !.earlier = NoIntent],
             [Start EXCEPT !.open = FALSE, !.audit = FALSE]}
MCResults == {Ok, Unproved, Broke}
MCRules == << [type |-> "permission_prompt", signature |-> {"permission_prompt"}, priority |-> 2,
               auto |-> TRUE, slot |-> "primary", target |-> TRUE, maxAttempts |-> 2] >>
=============================================================================
