------------------------------ MODULE MCExplorer ------------------------------
EXTENDS Explorer

MCPages == {"home", "drifted", "detail", "form", "web"}

MCLabels == {"a", "b", "c", "x", "link", "back", "none"}

Plain == [title |-> "Detail", layout |-> "l2", app |-> "target",
          context |-> "normal_page", trusted |-> TRUE, blockedOwner |-> FALSE,
          lowValue |-> "never", authSurface |-> FALSE, alert |-> FALSE,
          nickname |-> FALSE, leaves |-> {}, titleLabels |-> {},
          views |-> <<<<"x">>>>]

MCPageInfo ==
    [p \in MCPages |->
        CASE p = "home"    -> [Plain EXCEPT !.title = "Home", !.layout = "l1",
                                  !.views = <<<<"a">>, <<"b", "link", "c">>>>]
          [] p = "drifted" -> [Plain EXCEPT !.title = "Home", !.layout = "l3",
                                  !.alert = TRUE, !.views = <<<<"a">>>>]
          [] p = "detail"  -> Plain
          [] p = "form"    -> [Plain EXCEPT !.title = "Form", !.layout = "l4",
                                  !.context = "form_editor"]
          [] p = "web"     -> [Plain EXCEPT !.title = "NoTitle", !.layout = "l5",
                                  !.app = "browser", !.context = "unknown",
                                  !.views = <<<<"back">>>>]]

MCMoves ==
    [p \in MCPages |->
        CASE p = "home"    -> {"drifted", "detail", "form", "web"}
          [] p = "drifted" -> {"home"}
          [] p = "detail"  -> {"home", "web"}
          [] p = "form"    -> {"home"}
          [] p = "web"     -> {"home"}]

Rule(id, action, labels, titles) ==
    [id |-> id, action |-> action, enabled |-> TRUE, pathPrefix |-> <<>>,
     platforms |-> {"android", "ios"}, minDepth |-> 0, maxDepth |-> 9,
     titles |-> titles, contexts |-> ContextTypes, labels |-> labels]

MCConfig(platform, strategy) ==
    [platform |-> platform, strategy |-> strategy, includeBuiltIns |-> TRUE,
     builtIns |-> <<Rule("nav", "defer-action", {"back"}, {"Home", "Detail", "Form"})>>,
     legacy |-> <<Rule("one", "sample-children", MCLabels, {"Detail"})>>,
     project |-> <<Rule("skip", "skip-page", MCLabels, {"Form"}),
                   Rule("skip", "skip-page", MCLabels, {"Detail"})>>,
     overrides |-> <<[id |-> "skip", enabled |-> FALSE]>>,
     disabledIds |-> {"one"}]

MCConfigs == {MCConfig("android", "retry-3"), MCConfig("ios", "handoff")}
===============================================================================
