SPECIFICATION FairSpec
CONSTANTS
  Files <- MCFiles
  Neighbors <- MCNeighbors
  Classes = {}
  IndexChunk = 2
  SymbolChunk = 2
  BeforeLocation = 1
  BeforeSweep = 1
  MaxWatched = 2
  MaxLocated = 1
  Capacity = 1
  MaxEdits = 1
  MaxSaves = 2
  MaxModels = 0
  MaxRequests = 0
  MaxFailures = 0
  MaxMissed = 1
INVARIANTS QueuesAgree
PROPERTIES IndexConverges EngineStops
