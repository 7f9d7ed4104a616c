CONSTANTS
  b1 = b1
  b2 = b2
  Builders <- MCBuilders
  NFiles = 2
  MaxDamage = 1
  MaxKills = 1
  MaxCollections = 1
SPECIFICATION FairSpec
INVARIANTS
  HitIsComplete
  PublishedComplete
  RacesAreHarmless
PROPERTY Heals
