SPECIFICATION Spec
CONSTANTS
    Calls = {c1, c2}
    Accounts = {ann, bob}
    Subs = {s1}
    Legacy = {s1}
    Proposals <- MCSpots
    Near <- MCNear
    Keys = {k}
    Ops = {"edit", "finalize", "withdraw", "approve", "reject", "delete"}
    Retried = {"edit"}
    Standings = {"user"}
    DraftsAge = TRUE
    MaxEdits = 1
    None = None
SYMMETRY MCSymmetry
INVARIANTS
    OnePlaceEach
    EventsTellHistory
PROPERTIES
    DecidedByModerator
    ServedAtOnce
CHECK_DEADLOCK FALSE
