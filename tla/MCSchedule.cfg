CONSTANTS
  N = 5
  Waits <- MCWaits
  Jobs = 2
SPECIFICATION FairSpec
INVARIANTS
  DependenciesSucceeded
  NoIdleJob
  PrintedInPlanOrder
  ReturnIsComplete
PROPERTY Terminates NothingBeginsAfterFailure
