SPECIFICATION FairSpec
CONSTANTS
    Segments = 5
    Capacity = 2
INVARIANTS InOrder EndIsLast
PROPERTIES AllBuffered EndComes
CHECK_DEADLOCK FALSE
