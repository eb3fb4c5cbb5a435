CONSTANTS
    ReadWindow = 2
    AckThreshold = 1
    RingSize = 3
    CwndSize = 3
    Chunk = 2
    MaxTotal = 4
    MaxStreams = 3
    EndKinds = {"eof"}
    OldLoopDrains = TRUE
SPECIFICATION FairSpec
CHECK_DEADLOCK FALSE
INVARIANTS TypeOK ReaderWithinWindow DroppedIsAccounted
PROPERTIES InSequenceUntilLate OutputArrives
