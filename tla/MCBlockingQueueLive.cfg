SPECIFICATION FairSpec
CONSTANTS
    p1 = p1
    c1 = c1
    f1 = f1
    f2 = f2
    Producers = {p1}
    Consumers = {c1}
    Forcers = {f1, f2}
    Capacity = 1
    MaxPushes = 3
    MaxForced = 2
PROPERTIES EveryValueDelivered ForcewakeReleases
