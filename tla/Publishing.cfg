SPECIFICATION Spec
CONSTANTS
    Calls = {c1, c2}
    Accounts = {ann, bob}
    Subs = {s1, s2}
    Legacy = {}
    Proposals <- MCNames
    Near <- MCNear
    Keys = {k}
    Ops = {"edit", "finalize", "approve"}
    Retried = {"approve"}
    Standings = {}
    DraftsAge = FALSE
    MaxEdits = 1
    None = None
SYMMETRY MCSymmetry
INVARIANTS
    PlacesApart
    PendingApart
    KeyUsedOnce
CHECK_DEADLOCK FALSE
