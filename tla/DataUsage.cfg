SPECIFICATION UsageSpec
CONSTANTS
    s1 = s1
    s2 = s2
    Scripts = {s1, s2}
    MaxCount = 1
    MaxTotal = 2
    MaxConn = 2
    MaxOffs = 1
SYMMETRY ScriptSymmetry
CHECK_DEADLOCK FALSE
INVARIANTS
    TotalIsSum
    NoOvercount
