SPECIFICATION Spec
CONSTANTS
    k1 = k1
    k2 = k2
    w1 = w1
    w2 = w2
    r1 = r1
    r2 = r2
    Folder = folder
    Keys = {k1}
    Workers = {w1}
    Runs = {r1}
    Faults = {"storage"}
    MaxFaults = 1
CHECK_DEADLOCK FALSE
INVARIANTS
    DoneIsSwept
