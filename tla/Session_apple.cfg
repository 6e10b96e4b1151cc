SPECIFICATION Spec
CONSTANTS
    ann = ann
    abe = abe
    None = None
    Accounts <- MCAccounts
    AppleIds <- MCAppleIds
    Retries = 1
    MaxCalls = 2
    MaxPresses = 3
INVARIANTS
    AppleCodeArrives
CHECK_DEADLOCK FALSE
