SPECIFICATION Spec
CONSTANTS
    Verifiers = {}
    Owners = {o1}
    Sweepers = {}
    Approvers = {a1, a2}
    KeyOf <- MCSharedKey
    NoToken = NoToken
    Legacy = TRUE
    AccountsChange = TRUE
    MaxFaults = 1
    MaxCrashes = 1
SYMMETRY MCSymmetry
INVARIANTS
    PublishedIsServable
CHECK_DEADLOCK FALSE
