SPECIFICATION Spec
CONSTANTS
    q1 = q1
    q2 = q2
    Requests = {q1, q2}
    Batches <- RivalBatches
    MaxLegacy = 2
    NoStream = NoStream
    NoSnap = NoSnap
    NoRequest = NoRequest
    NoBatch = NoBatch
    EmptyHash = EmptyHash
INVARIANTS
    ReceiptChain
    
CHECK_DEADLOCK FALSE
