CONSTANTS
  v1 = v1
  v2 = v2
  a1 = a1
  a2 = a2
  a3 = a3
  f1 = f1
  f2 = f2
  Instances <- MCInstances
  Contents <- MCContents
  FeatureSets <- MCFeatureSets
  MaxRounds <- MCMaxRounds
  MaxId = 5
  Limit = 1
SPECIFICATION Spec
SYMMETRY Symmetry
INVARIANTS LatestStored NotifiedRows PagesIncrease NothingMissed
CHECK_DEADLOCK FALSE
