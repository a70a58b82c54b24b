SPECIFICATION FairSpec
CONSTANTS
    Calls = {c1, c2}
    Staff = {ann}
    Requests = {new, old}
    New = new
    Legacy = {old}
    Illustrated = {}
    Renditions = {m1, m2}
    RequestOf <- MCRequestOf
    Keys = {k}
    None = None
INVARIANTS
    PublicationWhole
    RevokedOnce
PROPERTIES
    TakesEffectAtOnce
    RevokedIsErased
    EveryCallAnswered
CHECK_DEADLOCK FALSE
