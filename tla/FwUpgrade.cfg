SPECIFICATION FairSpec
CONSTANTS
    p1 = p1
    p2 = p2
    kernel = kernel
    ramdisk = ramdisk
    loader = loader
    other = other
    Pages = {p1, p2}
    Images = {kernel, ramdisk, loader, other}
    Valid = {kernel, ramdisk, loader}
    Part <- MCPart
    Parts = {"mtdblock2", "mtdblock5"}
    N = 2
    None = None
    Zero = Zero
    Old = Old
    Bad = Bad
    MaxUploads = 2
    MaxBad = 1
    MaxCuts = 1
CHECK_DEADLOCK FALSE
INVARIANTS
    DoneIsInstalled
    RefusedStaysOut
    PartitionsAreWhole
PROPERTY
    UpgradeEnds
