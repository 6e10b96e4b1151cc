SPECIFICATION FairSpec
CONSTANTS
    MaxPhotos = 2
    MaxWork = 2
INVARIANTS
    TypeOK
    ClearIsClean
PROPERTIES
    NothingStaysBusy
