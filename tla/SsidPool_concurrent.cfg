SPECIFICATION Spec
CONSTANTS
    Procs = {p1, p2}
    Tags = {a, b}
    NoTag = NoTag
    MAX_BUCKETS = 2
    VALID_TIME = 1
    MaxTime = 3
SYMMETRY Symmetry
INVARIANTS
    ServedOnlyIssued
    IdleTimeout
    LogoutIsFinal
