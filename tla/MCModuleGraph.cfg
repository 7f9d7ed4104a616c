CONSTANTS
  Ids <- MCIds
  MaxDeps = 3
SPECIFICATION Spec
INVARIANTS
  DependenciesFirst
  CycleIsExact
  DependentsExact
