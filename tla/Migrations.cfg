SPECIFICATION Spec
CONSTANTS
    Requests = {r1, r2}
    Tags = {t1, t2}
SYMMETRY Symmetry
INVARIANTS
    RowsFit
PROPERTIES
    EvidenceKept
    SubmissionsKept
    TagsNotPublished
CHECK_DEADLOCK FALSE
