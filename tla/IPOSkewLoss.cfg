CONSTANTS
    NumPaths = 2
    SeqMod = 56
    BufElements = 7
    MaxChunk = 8
    MaxPathDiff = 3
    RestartThreshold = 30
    Skew = 1
    PathDelays <- ConstantSkew
    PollGap = 1
    PollTicks = 0
    FirstId = 53
    RestartSeqs = {}
    RestartSilence = 30
    MaxStart = 1
    MaxTime = 14
    MaxPause = 0
    MaxSent = 12
    MaxLoss = 2
    MaxBad = 1
SPECIFICATION Spec
CHECK_DEADLOCK FALSE
INVARIANTS PayloadIntact TypeOK Provisioned AttributionExact
PROPERTIES LostIsReal
