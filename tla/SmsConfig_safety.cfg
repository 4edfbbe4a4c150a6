SPECIFICATION Spec
CONSTANTS
    c1 = c1
    c2 = c2
    o1 = o1
    NoMsg = NoMsg
    Msgs <- ThreeMsgs
    Config <- TwoConfigs
    MaxNoise = 1
    MaxQueue = 1
SYMMETRY ConfigSymmetry
INVARIANTS
    NoConfigLost
    AppliedOnce
    RestartsWithSettings
