CONSTANTS
    ReadWindow = 2
    AckThreshold = 1
    RingSize = 3
    CwndSize = 3
    Chunk = 2
    MaxTotal = 4
    MaxStreams = 2
    EndKinds = {"eof"}
    OldLoopDrains = FALSE
SPECIFICATION Spec
CHECK_DEADLOCK FALSE
PROPERTIES AppendsInSequence
