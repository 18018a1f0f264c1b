SPECIFICATION MCSpec
CONSTANTS
  Modes = {"cluster", "simulate", "mock"}
  Strategies = {"sequential", "random", "coverage"}
  Starts = {0, 1}
  MaxSeeds = 4
  MaxParallel = 2
  Templates <- AllTemplates
  Explicits <- MCExplicits
  Pool <- MCPool
  Combos = {c1}
INVARIANTS
  ExploreTypeOK
  BisectBoundary
  PanicsOnly
  
PROPERTY
  ExploreEnds
