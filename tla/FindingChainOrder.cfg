CONSTANTS
    Calls <- MCChains
    Records <- MCRecords
    Posts <- MCPosts
    MaxLog = 3
    MaxCalls = 1
    MaxRuns = 2
SPECIFICATION Spec
INVARIANTS
    ChainGoesForward
CHECK_DEADLOCK FALSE
