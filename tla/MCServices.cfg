CONSTANTS
    Size = 4
    InitSync = TRUE
    MaxChunk = 4
    MaxTotal = 9
    Conns <- TwoConns
    MaxChanges = 2
    Overtaking = TRUE
    Users <- TwoUsers
    PartSize = 2
    MaxParts = 2
    FlushErrors = 1
    MaxFileSize = 6
    Generations = 2
    FileFaults = 2
    QItems <- TwoSessions
    QCap = 3
    Calls <- ThreeCalls
    StreamCalls <- OneStream
    RespChSize = 1
    CtxDoneChSize = 1
    InputChSize = 1
    Responses = 3
SPECIFICATION ServicesSpec
CHECK_DEADLOCK FALSE
INVARIANTS TypeOK HoldsNewestBytes NoStrandedWriter CirBufInv OneEntry ReadsBack NeverBlocks NoSendOnClosed ReadsInOrder DiskHoldsSaved
PROPERTIES SyncWriteKeepsHead ImplementsRetainedWindow ReconcilerSettles NoOvertaking HeldComesOut CallsEnd
