SPECIFICATION FairSpec
CONSTANTS
    Calls = {a, b}
    Credentials = {k1, k2, k3}
    None = None
PROPERTIES
    AnsweredAtOnce
    EveryCallAnswered
CHECK_DEADLOCK FALSE
