SPECIFICATION Spec
CONSTANTS
    o1 = o1
    i1 = i1
    i2 = i2
    Owners = {o1}
    Instances = {i1, i2}
INVARIANT StartStarts
CHECK_DEADLOCK FALSE
