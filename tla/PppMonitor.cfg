SPECIFICATION MonFairSpec
CONSTANTS
    MAX_RETRY = 3
    RSSI_MAX_RETRY = 3
    MaxFresh = 2
INVARIANTS
    DialBudget
    RedialFindsFreeLine
    AtMostOneLateDial
PROPERTIES
    RejectIsFinal
    SettledLinkStaysUp
