SPECIFICATION FairSpec
CONSTANTS
    a = a
    b = b
    x = x
    y = y
    w1 = w1
    w2 = w2
    Contents = {a}
    Deleted = Deleted
    Chunks = {x}
    ChunksOf <- MCChunksOf
    Workers = {w1, w2}
    Relay = Relay
    Reconciler = Reconciler
    NoRow = NoRow
    EmbedFails = TRUE
    MaxRows = 7
    MaxChanges = 2
    MaxFaults = 1
INVARIANTS
    NothingStaleServed
    FreshPlanIsServed
    DeleteSticks
PROPERTIES
    Converges
CHECK_DEADLOCK FALSE
