SPECIFICATION Spec
CONSTANTS
    Calls = {c1, c2, c3}
    Requests = {r1, r2, r3}
    Tags <- MCTags
    Displays <- MCDisplays
    Canonical <- MCCanonical
    Inputs <- MCInputs
    MaxTags = 2
    Legacy <- MCLegacy
    None = None
    new = new
    New = New
    other = other
    old = old
SYMMETRY MCSymmetry
INVARIANTS
    TagsResolve
    PublicWasReviewed
    ApprovalsNeverDeadlock
PROPERTIES
    ListsAreWhole
CHECK_DEADLOCK FALSE
