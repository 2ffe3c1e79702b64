SPECIFICATION FairSpec
CONSTANTS
  Units = {1, 2, 3, 4, 5, 6}
  Deps <- ADiamond
  Conflicts <- SharedScopes
  MaxWorkers = 2
  MaxFaults = 4
INVARIANTS
  TypeOK
  DisjointScopes
  WorkerCap
  DependenciesFirst
  NeverStuck
PROPERTIES
  IntegratedIsComplete
  ImplementsBoard
  PhaseIsLeft
CHECK_DEADLOCK FALSE
