CONSTANTS
    Screens <- MCFewScreens
    Content <- MCFewContent
    Cuts <- MCFewCuts
    Leftovers <- MCLeftovers
    Calls <- StableCalls
    Timeout = 3
    StableTarget = 2
    MaxDrifts = 1
SPECIFICATION Spec
INVARIANTS
    StableMeansUnchanged
CHECK_DEADLOCK FALSE
