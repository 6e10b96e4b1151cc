SPECIFICATION FairSpec
CONSTANTS
    PostCount = 3
    Portions = 2
    Posted <- MCPosted
    Fitting <- MCFitting
    PageSize = 1
    MaxCalls = 2
    MaxPresses = 2
    MaxChanges = 1
    MaxLosses = 1
INVARIANTS
    TypeOK
    NoDuplicates
    CardsAreTrue
    NothingMissing
PROPERTIES
    SpinnersStop
    ExpiredLeave
    OfflineEnds
CHECK_DEADLOCK FALSE
