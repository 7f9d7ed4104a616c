CONSTANTS
  N = 4
  Deps <- MCDeps
  Java <- MCJava
  Exact <- MCExact
  Versions <- MCVersions
  Broken <- MCBroken
  Sig <- MCSig
  MaxEdits = 2
  MaxMishaps = 0
SPECIFICATION Spec
INVARIANTS
  OkIsClean
