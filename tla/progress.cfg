SPECIFICATION ProgressSpec
CONSTANTS
    Parts = {"slack", "walks", "polling", "inferred"}
    a = a
    b = b
    u = u
    v = v
    NoCursor = NoCursor
    Channels = {a, b}
    FirstChannels = {a}
    Runners = {u, v}
    Interrupts = {"release", "die", "fail", "lapse", "skip"}
    MaxInterrupts = 2
    MaxFull = 1
    AwkwardJoins = FALSE
    EarlyProgress = TRUE
    SwSources = {"notion", "linear", "granola"}
    SwPages <- MCPages
    SwNotesMax = 3
    SwPageSize = 2
    SwBatch = 2
    SwFaults = 2
    SwStops = 1
    PlKinds <- MCKinds
    PlCap <- MCCap
    PlLimit = 2
    PlItemsMax <- MCItems
    PlFaults = 1
    PlCrashes = 1
    IeDocs = {"r", "g"}
    IeSessionOf <- MCSessionOf
    IeGitHub = {"g"}
    IeRationales = {"r"}
    IeWorkers = {i1}
    IeAttempts = 2
    IeBudget = 2
    IeWrites = 3
    IeFaults = 1

    
    
PROPERTIES
    
    
    EveryAnchorSettles
CHECK_DEADLOCK FALSE
