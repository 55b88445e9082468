SPECIFICATION FairSpec
CONSTANTS
    NoCopy = NoCopy
    c1 = c1
    c2 = c2
    Copy = {c1, c2}
    Parts = 2
    MaxWrites = 1
    MaxBoots = 2
    MaxLosses = 1
    MaxDrops = 1
    MaxFailures = 1
    MaxFrames = 2
    MaxReports = 1
INVARIANTS
    TypeOK
    AppliedIsMaterialized
    AckAnswersAClaim
PROPERTIES
    HomeConverges
CHECK_DEADLOCK FALSE
