SPECIFICATION Spec
CONSTANTS
    Parts = {"versions", "graph", "clusters", "inferred"}
    VrWriters = {w1, w2, w3}
    VrBodies = {"a", "b"}
    VrKinds = {"plain", "session", "unit"}
    VrBorn <- MCBorn
    VrRetries = 2
    VrPasses = 3
    GsIds = {"x", "y"}
    GsInputs <- MCInputs
    GsPassers = {p1}
    GsWorkers = {k1, k2}
    GsAttempts = 2
    GsDeferrals = 0
    GsBatch = 1
    GsFaults = 1
    EcIds = {"a", "b", "c"}
    EcDocs = {"a"}
    EcSpecs <- MCSpecs
    EcPassers = {e1}
    EcCallers = {c1, c2}
    EcTurns = 4
    IeDocs = {"s", "t"}
    IeSessionOf <- MCSessionOf
    IeGitHub = {}
    IeRationales = {}
    IeWorkers = {i1, i2}
    IeAttempts = 2
    IeBudget = 2
    IeWrites = 3
    IeFaults = 1
INVARIANTS
    OneLiveVersion
    DegreeIsExact
    
    RoutingEndsAtNode
    ErasedSessionStaysOut

    
CHECK_DEADLOCK FALSE
