SPECIFICATION FairSpec
CONSTANTS
    Intents = {u1, u2, u3}
    Digests = {x, y}
    MaxMedia = 2
    MaxRunning = 1
    None = None
INVARIANTS
    WithinLimit
    ImagesApart
PROPERTIES
    UploadsLiveAlike
    ReviewedAsSubmitted
    PendingIsReadyAgain
CHECK_DEADLOCK FALSE
