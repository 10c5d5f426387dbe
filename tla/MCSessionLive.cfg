SPECIFICATION FairSpec
CONSTANTS
    NumStreams = 1
    MaxPacketlistSize = 1
    MaxFramelistSize = 1
    MaxPackets = 3
    Live = TRUE
    CodecDelay = 1
    EnableCache = FALSE
    Jumps = FALSE
    Commands = {"pause", "resume", "stop"}
    MaxCommands = 2
PROPERTIES StopCompletes ResumeReachesDemuxer
CHECK_DEADLOCK FALSE
