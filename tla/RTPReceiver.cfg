CONSTANTS
    NumStreams = 2
    FlowCounts = {1, 2, 3}
    SeqRange = 3
    FrameLen = 3
    FirstIds = {7}
    MaxSent = 5
    MaxChunk = 2
    MaxNetFaults = 1
    MaxFailures = 1
    MaxReports = 1
SPECIFICATION FairSpec
CHECK_DEADLOCK FALSE
INVARIANTS CleanReturn DropsExplained EveryPacketAccounted FramesInOrder EndsForCause
PROPERTIES StopsOnSignal
