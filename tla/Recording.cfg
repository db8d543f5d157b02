CONSTANTS
    SwipeDistance = 3
    StrongDistance = 20
    MinSamples = 2
    MaxSwipeTime = 4
    DedupeWindow = 3
    TypeGap = 3
    Inputs <- MCInputs
    Calls = {c1, c2}
    MaxCrashes = 1
    MaxLate = 1
SYMMETRY Symmetry
SPECIFICATION Spec
INVARIANTS
    NoStrayCapture
    RetriedEndSameSteps
    TextSurvives
    NothingDroppedSilently
    EndedIsComplete
CHECK_DEADLOCK FALSE
