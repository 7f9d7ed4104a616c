SPECIFICATION FairSpec
CONSTANTS
  Workers <- MCWorkers
  Asked <- MCAsked
  Numbers <- MCNumbers
  Classpaths <- MCClasspaths
  MaxAnalyses = 1
  MaxFaults = 1
INVARIANTS HandlesKept OneChild UsableUnlessMarked
PROPERTIES Returns
