CONSTANTS
    Pages <- MCPages
    PageInfo <- MCPageInfo
    Moves <- MCMoves
    TargetApp = "target"
    LaunchPages = {"home"}
    Labels <- MCLabels
    NoTitle = "NoTitle"
    Configs <- MCConfigs
    ExternalLinks = {"link"}
    Budgeted = {"c"}
    Unsafe = {"back"}
    MaxPages = 3
    MaxSegments = 10
    Threshold = 2
    MaxRetries = 1
    ExternalLinkMaxDepth = 1
    MaxPopups = 1
SPECIFICATION Spec
INVARIANTS
    StackIsPath
    ParentTitles
    Limits
    TapsAccountedFor
PROPERTIES
    TapsOnFramePage
    ReportRefined
    EndsUnlessHandoff
CHECK_DEADLOCK FALSE
