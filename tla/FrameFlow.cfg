CONSTANTS
    NumFrames = 3
    FileFrames = 3
    FrameChunks = {2, 3}
    ChunksInFrame = 2
    QueueSizes = {0, 1}
SPECIFICATION FairSpec
CHECK_DEADLOCK FALSE
INVARIANTS TypeOK FrameConservation
PROPERTIES InFileOrder AcceptedReachTheWriter ProducerStops
