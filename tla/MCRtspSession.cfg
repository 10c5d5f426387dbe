SPECIFICATION FairSpec
CONSTANTS
    Tracks = 2
    HasCredentials = TRUE
    MaxPlays = 1
    MaxCommands = 3
INVARIANTS AnswersMatch NothingMissed TimeoutMeansSilence QuietAfterStop
PROPERTIES HandshakeEnds SilenceIsNoticed
CHECK_DEADLOCK FALSE
