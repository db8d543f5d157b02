----------------------------- MODULE MCDeviceTools -----------------------------
(***************************************************************************)
(* An instance of DeviceTools: six screens around one selector, every      *)
(* tool on both platforms, and one refusal per guard.                      *)
(***************************************************************************)
EXTENDS DeviceTools

\* A node that covers some points, the first of which is its centre.
Node(covers, quality, locator, kind) ==
    [place |-> covers[1], covers |-> Range(covers), far |-> 0,
     quality |-> quality, view |-> "in", bonus |-> 0, locator |-> locator,
     enabled |-> TRUE, clickable |-> TRUE, bounds |-> TRUE, kind |-> kind]
Root == [Node(<<3, 1, 2>>, "none", "app", "plain") EXCEPT !.clickable = FALSE]
Screen(text, nodes) == [text |-> text, nodes |-> <<Root>> \o nodes]

\* A form whose field is the target; a page without it that has something else
\* in its place; two matches, and what is left of them when the dump is cut; a
\* match below the fold; one without a locator, whose hint lies within it; and
\* one with a banner over its centre.
MCContent ==
    [form  |-> Screen("form", <<Node(<<1>>, "exact", "field", "field"),
                                Node(<<2>>, "none", "label", "plain")>>),
     home  |-> Screen("home", <<Node(<<1, 2>>, "none", "tile", "plain")>>),
     twins |-> Screen("twins", <<Node(<<1>>, "exact", "pin", "secret"),
                                 Node(<<2>>, "exact", "tab", "plain")>>),
     twin  |-> Screen("twin", <<Node(<<1>>, "exact", "pin", "secret")>>),
     below |-> Screen("below", <<[Node(<<2>>, "exact", "row", "plain") EXCEPT !.view = "out"]>>),
     near  |-> Screen("near", <<Node(<<2, 1>>, "exact", NoLocator, "field"),
                                Node(<<1>>, "prefix", "hint", "plain")>>),
     sheet |-> Screen("sheet", <<Node(<<1, 2>>, "exact", "pay", "plain"),
                                 Node(<<1>>, "none", "banner", "plain")>>)]
MCScreens == DOMAIN MCContent \ {"twin"}
MCCuts == [s \in MCScreens |-> IF s = "twins" THEN {"twin"} ELSE {}]
MCLeftovers == {NoDump, "form"}

Base == [tool |-> "wait_for_ui", platform |-> "android", dry |-> FALSE, selector |-> TRUE,
         query |-> [field |-> "text", limit |-> 0], until |-> "visible", maxSwipes |-> 1,
         device |-> "simulator", runner |-> "maestro_cli", backend |-> "axe", place |-> 1,
         gesture |-> TRUE, count |-> 2, system |-> FALSE, edge |-> TRUE, wait |-> TRUE,
         profile |-> "native", url |-> TRUE, artifact |-> TRUE, appId |-> TRUE,
         strategy |-> "clear_data", js |-> TRUE, target |-> "none",
         bundle |-> FALSE, failuresOnly |-> TRUE, most |-> 2]
Android(tool) == [Base EXCEPT !.tool = tool]
Ios(tool) == [Base EXCEPT !.tool = tool, !.platform = "ios"]
Both(tools) == UNION {{Android(t), Ios(t)} : t \in tools}
Phone(tool) == [Ios(tool) EXCEPT !.device = "physical", !.backend = "wda"]
Runner(tool) == [Phone(tool) EXCEPT !.runner = "local_manual_runner"]

Waits == UNION {{[c EXCEPT !.until = u] : u \in {"visible", "gone", "unique"}} :
                  c \in Both({"wait_for_ui"})}
Looks == Both({"inspect_ui", "query_ui", "resolve_ui_target", "wait_for_ui_stable",
               "capture_element_screenshot"})
Acts  == Both({"tap", "type_text", "tap_element", "type_into_element"})
         \cup {Ios("back_selector"), Runner("tap"), Phone("type_text"),
               Runner("type_into_element"), Phone("tap_element"),
               Android("scroll_and_resolve_ui_target"), Android("scroll_and_tap_element")}
Backs == Both({"navigate_back"})
         \cup {[c EXCEPT !.wait = FALSE] : c \in Both({"navigate_back"}) \cup {Ios("back_selector")}}
Plans == Both((CommandTools \ {"measure_android_performance", "measure_ios_performance"})
              \cup {"scroll_only"})
         \cup {Android("measure_android_performance"), Ios("measure_ios_performance"),
               Phone("get_crash_signals")}
         \cup {[c EXCEPT !.strategy = "uninstall_reinstall"] : c \in Both({"reset_app_state"})}
         \cup {[Ios("reset_app_state") EXCEPT !.strategy = "keychain_reset"]}
\* The debugger, alone and behind the evidence of each platform.
Debug(tool) == [Base EXCEPT !.tool = tool, !.target = "given"]
Debugging ==
    {Debug(t) : t \in DebuggerTools}
    \cup {[Debug("capture_js_network_events") EXCEPT !.failuresOnly = FALSE],
          [Debug("collect_debug_evidence") EXCEPT !.target = "none", !.appId = FALSE],
          [Debug("collect_debug_evidence") EXCEPT !.js = FALSE, !.bundle = TRUE, !.appId = FALSE],
          [Debug("collect_debug_evidence") EXCEPT !.target = "malformed", !.appId = FALSE]}
    \cup {[c EXCEPT !.platform = "ios", !.device = d, !.bundle = TRUE, !.most = 1]
             : c \in {Debug("collect_debug_evidence")}, d \in {"simulator", "physical"}}
\* One refusal of each guard, and previews.
Refused ==
    {[Debug(t) EXCEPT !.target = "none"] : t \in Captures}
    \cup {[Debug(t) EXCEPT !.target = "malformed"] : t \in Captures}
    \cup {[Debug("collect_debug_evidence") EXCEPT !.platform = "none"]}
    \cup {[Android("wait_for_ui") EXCEPT !.selector = FALSE], [Ios("query_ui") EXCEPT !.backend = "simctl"],
     [Ios("tap") EXCEPT !.backend = "simctl"], [Ios("scroll_only") EXCEPT !.backend = "simctl"],
     [Android("inspect_ui") EXCEPT !.platform = "none"], Ios("scroll_and_tap_element"),
     [Ios("navigate_back") EXCEPT !.system = TRUE], [Ios("navigate_back") EXCEPT !.edge = FALSE],
     [Ios("navigate_back") EXCEPT !.backend = "simctl"], [Ios("scroll_only") EXCEPT !.device = "none"],
     [Android("launch_app") EXCEPT !.profile = "phase1", !.url = FALSE],
     [Android("install_app") EXCEPT !.artifact = FALSE],
     [Android("reset_app_state") EXCEPT !.appId = FALSE],
     [Android("reset_app_state") EXCEPT !.strategy = "keychain_reset"]}
Dry == {[c EXCEPT !.dry = TRUE] : c \in {Debug(t) : t \in DebuggerTools} \cup
         Both({"wait_for_ui", "inspect_ui", "query_ui", "tap", "type_text", "launch_app",
               "navigate_back", "scroll_only", "capture_element_screenshot"})
         \cup {Android("scroll_and_tap_element")}}
MCCalls == Waits \cup Looks \cup Acts \cup Backs \cup Plans \cup Debugging \cup Refused \cup Dry

\* The instance of the finding: two screens.
StableCalls == Both({"wait_for_ui_stable"})
MCFewContent == [s \in {"form", "home"} |-> MCContent[s]]
MCFewScreens == DOMAIN MCFewContent
MCFewCuts == [s \in MCFewScreens |-> {}]
================================================================================
