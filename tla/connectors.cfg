SPECIFICATION Spec
CONSTANTS
    Parts = {"events", "names", "devices", "walk", "tokens"}
    GwRepos <- MCRepos
    GwPages <- MCGwPages
    GwReplies <- MCReplies
    GwSlots = 2
    GwQueueMax = 2
    GwStops = 1
    GwFaults = 1
    SeSources = {"slack", "linear", "notion", "sentry"}
    SeCrew <- MCSeCrew
    SeChanges = 3
    SePolls = 1
    SeFaults = 1
    SnProcs = {1, 2}
    SnCrew <- MCSnCrew
    SnIds = {1, 2}
    SnNamed = {1}
    SnHotMax = 1
    SnColdMax = 1
    SnSets = 3
    SnFaults = 1
    TkCustomers = {"a", "b"}
    TkSources = {"rotating", "sentry"}
    TkFirst <- MCFirst
    TkGens <- MCGens
    TkProbes = 1
    TkFaults = 1
    DvSources = {"claude_code", "codex", "pi"}
    DvPairings = 3
INVARIANTS
    DrainedObjectIsCurrent
    
    RevokedDeviceIsRefused
    
PROPERTIES
    FlushKeepsNewest
CHECK_DEADLOCK FALSE
