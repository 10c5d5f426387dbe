SPECIFICATION FairSpec
CONSTANTS
    o1 = o1
    o2 = o2
    i1 = i1
    i2 = i2
    i3 = i3
    Owners = {o1, o2}
    Instances = {i1, i2, i3}
INVARIANTS StoppedIsQuiet RestartIsNotLost RunningIsTruthful
PROPERTY RestartRuns
CHECK_DEADLOCK FALSE
