SPECIFICATION Spec
CONSTANTS
    p1 = p1
    p2 = p2
    c1 = c1
    c2 = c2
    f1 = f1
    f2 = f2
    Producers = {p1, p2}
    Consumers = {c1, c2}
    Forcers = {f1, f2}
    Capacity = 2
    MaxPushes = 4
    MaxForced = 2
INVARIANTS FifoNoLoss OneReleasePerForcewake NoLostWakeup
PROPERTY ImplementsFifo
SYMMETRY Swaps
