CONSTANTS
    Size = 2
    InitSync = TRUE
    MaxChunk = 2
    MaxTotal = 4
    CwndSize = 2
    MaxRwnd = 2
    MaxStreams = 2
SPECIFICATION SMSpec
INVARIANTS
    SMTypeOK
    ModeFollowsClient
    UnackedStillHeld
    NoLostWakeup
    PacketCarriesItsSeq
    TerminalIsLast
    SMInv
PROPERTIES
    PacketsContiguous
    OnlyAckedBytesLeave
