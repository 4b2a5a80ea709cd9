\* Up to two threads, three streams and five flows; the hardware queue is shorter
\* than the streams' queues together, so that both kinds of full queue occur.
SPECIFICATION FairSpec
CONSTANTS
    MaxThreads = 2
    MaxStreams = 3
    MaxFlows = 5
    NumChunks = 2
    QueueLength = 2
    HwDepth = 3
    MaxRounds = 3
    MaxFailures = 2
INVARIANTS TypeOK FlowsInRotation StreamsInStep EndsForCause
PROPERTIES StopsOnSignal EveryStreamServed
CHECK_DEADLOCK FALSE
