SPECIFICATION Spec
CONSTANTS
    s1 = s1
    e1 = e1
    l1 = l1
    l2 = l2
    Sessions = {s1}
    Events = {e1}
    Workers = {l1, l2}
    MaxAttempts = 2
    MaxKeys = 2
    HeartbeatLapses = FALSE
    LostAcks = FALSE
    NoClaim = NoClaim
SYMMETRY WorkerSymmetry
INVARIANTS
    DoneDocumentIsCurrent
CHECK_DEADLOCK FALSE
