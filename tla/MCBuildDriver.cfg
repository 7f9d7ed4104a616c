CONSTANTS
  N = 4
  Deps <- MCDeps
  Java <- MCJava
  Exact <- MCExact
  Versions <- MCVersions
  Broken <- MCBroken
  Sig <- MCSig
  MaxEdits = 2
  MaxMishaps = 2
SPECIFICATION Spec
INVARIANTS
  StoreSound
  OkUnlessRestored
  BuildsAllItCan
  MinimalRebuild
