SPECIFICATION FairSpec
CONSTANTS
    ann = ann
    abe = abe
    None = None
    Accounts <- MCAccounts
    AppleIds <- MCAppleIds
    Retries = 1
    MaxCalls = 2
    MaxPresses = 3
INVARIANTS
    TypeOK
    AccountIsOwn
    SilentPhone
    InOwnHalf
PROPERTIES
    EntersAccepted
    AlwaysSettles
CHECK_DEADLOCK FALSE
