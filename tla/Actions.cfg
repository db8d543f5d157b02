CONSTANTS
    Pages = {"home", "next"}
    Contents = {"a", "b"}
    Rules <- MCRules
    Screens <- MCScreens
    Intents <- MCIntents
    RiskyPages = {"home"}
    ExecResults <- MCResults
    Starts <- MCStarts
    MaxActions = 2
    MaxCalls = 2
    MaxDrifts = 1
    MaxFailures = 1
    MaxMisreads = 1
    MaxEvents = 2
SPECIFICATION Spec
INVARIANTS
    RecordMatchesReport
    SuccessIsSettled
    BaselineExplained
    RemediationClosed
PROPERTIES
    ActsOnClearScreen
    CallsEnd
    RepeatsAreBounded
CHECK_DEADLOCK FALSE
