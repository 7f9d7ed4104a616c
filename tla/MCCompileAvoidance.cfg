CONSTANTS
  Versions <- MCVersions
  WithSources <- MCWithSources
  WithResources <- MCWithResources
  WithKsp <- MCWithKsp
  MaxEdits = 2
SPECIFICATION Spec
INVARIANTS
  SuccessUnlessRestored
  RecordedIsComplete
  UnchangedIsSkipped
