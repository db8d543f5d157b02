CONSTANTS
    Calls <- MCCalls
    Records <- MCRecords
    Posts <- MCPosts
    MaxLog = 3
    MaxCalls = 2
    MaxRuns = 2
SPECIFICATION Spec
INVARIANTS
    ReplayAccounted
CHECK_DEADLOCK FALSE
