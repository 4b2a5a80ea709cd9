CONSTANTS
    NumVersions = 3
    MaxBehind = 1
    RtpMod = 16
    FirstRtp = 9
    TicksPerField = 3
    InfoChanges = {2}
    MaxLoss = 1
    MaxFields = 3
SPECIFICATION FairSpec
INVARIANTS NewsNotLost
PROPERTIES FramesMatched ReportsAreAtomic LastNewsPrinted
