SPECIFICATION FairSpec
CONSTANTS
    video = video
    audio = audio
    Streams = {video, audio}
    VideoStream = video
    Sources = {"file", "rtsp"}
    PacketQueueSize = 2
    CodecDelay = 1
    MaxPackets = 4
    Commands = {"pause", "resume", "stop", "seek"}
    MaxCommands = 2
    MaxPlays = 1
INVARIANTS TypeOK InOrderNothingLost StoppedIsEmpty OneRequestAtATime SeekIsCarriedOut
PROPERTIES AllShown PacketsConsumed
CHECK_DEADLOCK FALSE
