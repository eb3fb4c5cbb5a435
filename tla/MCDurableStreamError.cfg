CONSTANTS
    ReadWindow = 2
    AckThreshold = 1
    RingSize = 3
    CwndSize = 3
    Chunk = 2
    MaxTotal = 4
    MaxStreams = 1
    EndKinds = {"error"}
    OldLoopDrains = TRUE
SPECIFICATION Spec
CHECK_DEADLOCK FALSE
INVARIANTS DoneIsComplete
