SPECIFICATION Spec
CONSTANTS
  d1 = d1
  d2 = d2
  d3 = d3
  r1 = r1
  r2 = r2
  Pools <- MCPools
  Picks <- MCPicks
  Pins <- MCPins
  Replies <- MCReplies
  HasFallback = TRUE
  ToolBudget = 2
  ExtensionGrant = 1
  MaxExtensions = 1
  SoftTurnCap = 1
  ContextRoom = 1
  ResponseDocs = 2
  TopK = 2
  HardCap = 3
  PageTenants = {"t1", "t2"}
  MaxRanked = 5
  PageTopK = 2
  MaxPageItems = 2
  PageTtl = 1
  MaxDays = 2
  MaxSearches = 2
  MaxChunks = 2
  MaxDeltas = 1
  Readers <- MCReaders
  Bodies <- MCBodies
  Texts <- MCTexts
  StepLimit = 2
  PageBytes = 2
  LineLimit = 2
  CacheBytes = 6
  CacheEntries = 1
INVARIANTS
  DeliveredIsVerified
  EveryCallAnswered
  
  
  
  ViewIsHonest
CHECK_DEADLOCK FALSE
