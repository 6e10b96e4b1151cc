SPECIFICATION MCSpec
CONSTANTS
    None = None
    Posts <- MCPosts
    Portions = 2
    MaxQty = 2
    MaxCalls = 2
    MaxPresses = 2
    MaxEvents = 0
INVARIANTS
    ToldIsCommitted
CHECK_DEADLOCK FALSE
