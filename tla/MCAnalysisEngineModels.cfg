SPECIFICATION FairSpec
CONSTANTS
  Files <- MCOneFile
  Neighbors <- MCNeighbors
  Classes = {"C"}
  IndexChunk = 1
  SymbolChunk = 2
  BeforeLocation = 1
  BeforeSweep = 1
  MaxWatched = 2
  MaxLocated = 1
  Capacity = 1
  MaxEdits = 2
  MaxSaves = 0
  MaxModels = 1
  MaxRequests = 1
  MaxFailures = 1
  MaxMissed = 1
INVARIANTS MarkersExact OneModel
PROPERTIES Released DocumentAnalyzed KeepsResults
