CONSTANTS
    Screens <- MCScreens
    Content <- MCContent
    Cuts <- MCCuts
    Leftovers <- MCLeftovers
    Calls <- MCCalls
    Timeout = 3
    StableTarget = 2
    MaxDrifts = 1
SPECIFICATION Spec
INVARIANTS
    WaitMatchHeld
    TapsAtResolved
    TypedIsObserved
    SuccessMeansExit
    ArtifactSaved
PROPERTIES
    CallEnds
CHECK_DEADLOCK FALSE
