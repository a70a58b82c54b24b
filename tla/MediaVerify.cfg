SPECIFICATION Spec
CONSTANTS
    Verifiers = {v1, v2}
    Owners = {}
    Sweepers = {s1}
    Approvers = {}
    KeyOf <- MCOwnKey
    NoToken = NoToken
    Legacy = FALSE
    AccountsChange = FALSE
    MaxFaults = 1
    MaxCrashes = 0
SYMMETRY MCSymmetry
INVARIANTS
    KeptObjectsPresent
    DeletedIsEmpty
    SourceWatched
PROPERTIES
    ClaimTakenOverDuly
CHECK_DEADLOCK FALSE
