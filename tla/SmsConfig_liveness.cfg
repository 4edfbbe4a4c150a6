SPECIFICATION FairSpec
CONSTANTS
    c1 = c1
    c2 = c2
    o1 = o1
    NoMsg = NoMsg
    Msgs <- TwoMsgs
    Config <- OneConfig
    MaxNoise = 0
    MaxQueue = 1
PROPERTIES
    ConfigHandled
    SlotFreed
