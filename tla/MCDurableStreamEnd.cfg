CONSTANTS
    ReadWindow = 2
    AckThreshold = 1
    RingSize = 3
    CwndSize = 3
    Chunk = 2
    MaxTotal = 2
    MaxStreams = 3
    EndKinds = {"eof"}
    OldLoopDrains = TRUE
SPECIFICATION FairSpec
CHECK_DEADLOCK FALSE
PROPERTIES EndArrives
