SPECIFICATION Spec
CONSTANTS
    NumStreams = 1
    MaxPacketlistSize = 2
    MaxFramelistSize = 1
    MaxPackets = 2
    Live = FALSE
    CodecDelay = 1
    EnableCache = TRUE
    Jumps = TRUE
    Commands = {"pause", "resume", "toggle", "seek", "stop"}
    MaxCommands = 2
INVARIANTS NothingLost StopLeavesNothing
CHECK_DEADLOCK FALSE
