SPECIFICATION FairSpec
CONSTANTS
    Files = {"first", "second"}
    NoFile = "none"
    NumStreams = 2
    MaxCommands = 5
INVARIANTS PlaysWhatWasAsked LeaksBoundedByFailures FinishIsTheEnd StopHolds
PROPERTY PlayIsAnswered
CHECK_DEADLOCK FALSE
