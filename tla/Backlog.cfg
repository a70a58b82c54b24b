SPECIFICATION FairSpec
CONSTANTS
    Requests = {1, 2, 3}
    Created <- MCCreated
    Uploads = {broken, sound}
    RequestOf <- MCRequestOf
    Broken = {broken}
    Batch = 2
    PageSize = 1
    MaxActivity = 3
INVARIANTS
    PassComplete
PROPERTIES
    IdleExpires
    GivenUpIsDeleted
CHECK_DEADLOCK FALSE
