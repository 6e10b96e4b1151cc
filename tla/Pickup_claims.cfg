SPECIFICATION MCSpec
CONSTANTS
    None = None
    Posts <- MCPosts
    Portions = 2
    MaxQty = 2
    MaxCalls = 2
    MaxPresses = 3
    MaxEvents = 1
INVARIANTS
    TypeOK
    RowsAreTrue
    AskedOnce
PROPERTIES
    NothingStaysBusy
CHECK_DEADLOCK FALSE
