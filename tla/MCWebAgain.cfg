SPECIFICATION FairSpec
CONSTANTS
    video = video
    Streams = {video}
    VideoStream = video
    Sources = {"file"}
    PacketQueueSize = 2
    CodecDelay = 0
    MaxPackets = 3
    Commands = {"stop"}
    MaxCommands = 1
    MaxPlays = 2
PROPERTY PacketsConsumed
CHECK_DEADLOCK FALSE
