CONSTANTS
    NumPaths = 2
    SeqMod = 64
    BufElements = 16
    MaxChunk = 8
    MaxPathDiff = 6
    RestartThreshold = 30
    Skew = 1
    PathDelays <- LateSecondPath
    PollGap = 1
    PollTicks = 1
    FirstId = 61
    RestartSeqs = {}
    RestartSilence = 30
    MaxStart = 0
    MaxTime = 15
    MaxPause = 0
    MaxSent = 7
    MaxLoss = 1
    MaxBad = 0
SPECIFICATION Spec
CHECK_DEADLOCK FALSE
INVARIANTS NoneExceedMd
PROPERTIES InOrder
