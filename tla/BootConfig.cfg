SPECIFICATION BootFairSpec
CONSTANTS
    Files = {rc_sysinit, initQos}
    BootFile = rc_sysinit
    QosFile = initQos
    Resets = {button, web}
    MaxOffs = 3
INVARIANTS
    BootFindsTree
    ResetRestores
PROPERTIES
    SavedFilesStay
    ResetEnds
CHECK_DEADLOCK FALSE
