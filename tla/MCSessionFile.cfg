SPECIFICATION FairSpec
CONSTANTS
    NumStreams = 2
    MaxPacketlistSize = 1
    MaxFramelistSize = 1
    MaxPackets = 2
    Live = FALSE
    CodecDelay = 1
    EnableCache = FALSE
    Jumps = FALSE
    Commands = {}
    MaxCommands = 0
INVARIANTS TypeOK NothingLost FinishAfterAll
PROPERTY AllShown
CHECK_DEADLOCK FALSE
