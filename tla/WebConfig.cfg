SPECIFICATION WebSpec
CONSTANTS
    CgiProcs = {p1, p2}
    Values = {a, b}
    Initial = Initial
    Blank = Blank
    Accept = Accept
    MaxPowerCuts = 2
SYMMETRY Symmetry
INVARIANTS
    WholeUnlessTorn
    SettledApplies
