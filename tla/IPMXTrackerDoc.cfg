CONSTANTS
    NumVersions = 3
    MaxBehind = 1
    RtpMod = 16
    FirstRtp = 9
    TicksPerField = 3
    InfoChanges = {2}
    MaxLoss = 0
    MaxFields = 2
SPECIFICATION Spec
CHECK_DEADLOCK FALSE
INVARIANTS ReportsConsumed
