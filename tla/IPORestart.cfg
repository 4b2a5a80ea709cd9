CONSTANTS
    NumPaths = 2
    SeqMod = 32
    BufElements = 8
    MaxChunk = 8
    MaxPathDiff = 3
    RestartThreshold = 4
    Skew = 1
    PathDelays <- ConstantSkew
    PollGap = 1
    PollTicks = 0
    FirstId = 29
    RestartSeqs = {5,20}
    RestartSilence = 9
    MaxStart = 1
    MaxTime = 20
    MaxPause = 10
    MaxSent = 4
    MaxLoss = 1
    MaxBad = 0
SPECIFICATION Spec
CHECK_DEADLOCK FALSE
INVARIANTS EmptyUnlessRunning LossAccounting
