SPECIFICATION FairSpec
CONSTANTS
    s1 = s1
    e1 = e1
    l1 = l1
    l2 = l2
    Sessions = {s1}
    Events = {}
    Workers = {l1, l2}
    MaxAttempts = 2
    MaxKeys = 2
    HeartbeatLapses = TRUE
    LostAcks = TRUE
    NoClaim = NoClaim
INVARIANTS
    DoneCoversPayload
PROPERTIES
    Drains
CHECK_DEADLOCK FALSE
