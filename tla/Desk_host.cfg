SPECIFICATION FairSpec
CONSTANTS
    None = None
    Posts <- MCOnePost
    Portions = 1
    MaxCalls = 2
    MaxPresses = 3
    MaxEvents = 2
INVARIANTS
    TypeOK
    DeskIsTrue
    ManageIsTrue
PROPERTIES
    NothingStaysBusy
CHECK_DEADLOCK FALSE
