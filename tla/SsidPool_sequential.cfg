SPECIFICATION Spec
CONSTANTS
    Procs = {p1}
    Tags = {a, b, c}
    NoTag = NoTag
    MAX_BUCKETS = 2
    VALID_TIME = 1
    MaxTime = 3
PROPERTY
    ImplementsTable
