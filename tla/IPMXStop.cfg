CONSTANTS
    NumStreams = 2
    ChunksInField = 2
    FieldsInMemBlock = 1
    Sleeps = TRUE
    HwDepth = 3
    Faults = {"create", "poll", "report", "report_mark", "report_commit", "media_commit", "cancel", "destroy", "signal"}
    MaxFields = 1
SPECIFICATION FairSpec
INVARIANTS PendingCoversReports StopEndsAtFailure
CHECK_DEADLOCK FALSE
PROPERTIES StopsOnSignal
