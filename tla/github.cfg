SPECIFICATION Spec
CONSTANTS
  Parts = {"events", "codegraph", "control", "purge"}
  GePayloads <- MCPayloads
  GeObjects <- MCObjects
  GeMaxRows = 3
  CgPaths = {"A", "B"}
  CgFiles = {"f", "g"}
  CgTrees <- MCTrees
  CgMaxPaths = 1
  CgLoops = 2
  CgEvents = 2
  CgFaults = 1
  GcRepos = {"r", "s"}
  GcLiveRepos = {"r"}
  GcWorkers = {"w1", "w2"}
  GcMaxQueue = 2
  GcMaxHistory = 1
  GcMaxAttempts = 1
  GcEvents = 1
  SpRuns = {1}
  SpRunners = {"x", "y"}
  SpMaxRounds = 2
  SpEvents = 2
INVARIANTS
    DocumentFollowsProviderTime
    IndexFollowsPushes
    LiveLaneFollowsScope
    CompletedBackfillIsIndexed
    
CHECK_DEADLOCK FALSE
