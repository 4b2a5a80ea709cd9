CONSTANTS
    NumStreams = 2
    ChunksInField = 2
    FieldsInMemBlock = 2
    Sleeps = TRUE
    HwDepth = 3
    Faults = {}
    MaxFields = 3
SPECIFICATION FairSpec
CHECK_DEADLOCK FALSE
INVARIANTS TypeOK NeverSelfInflicted FieldsInFlight OneReportPerField SleepDelaysNoReport ReportChunksSuffice
PROPERTIES AllFieldsSent
