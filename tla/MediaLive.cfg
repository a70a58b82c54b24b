SPECIFICATION FairSpec
CONSTANTS
    Verifiers = {v1}
    Owners = {}
    Sweepers = {s1}
    Approvers = {}
    KeyOf <- MCSharedKey
    NoToken = NoToken
    Legacy = FALSE
    AccountsChange = TRUE
    MaxFaults = 0
    MaxCrashes = 1
INVARIANTS
    ClosedRetainsNothing
PROPERTIES
    SourceSettled
    KeepsPromise
    LivesAsUpload
CHECK_DEADLOCK FALSE
