SPECIFICATION Spec
CONSTANTS
    Calls = {c1, c2}
    Accounts = {ann}
    Subs = {s1}
    Legacy = {}
    Proposals <- MCSpots
    Near <- MCNear
    Keys = {}
    Ops = {"edit", "finalize"}
    Retried = {}
    Standings = {}
    DraftsAge = FALSE
    MaxEdits = 1
    None = None
SYMMETRY MCSymmetry
INVARIANT OwnSubmissionFound
CHECK_DEADLOCK FALSE
