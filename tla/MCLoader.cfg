CONSTANTS
  Ids <- MCIds
  Files <- MCFiles
SPECIFICATION FairSpec
INVARIANTS
  TypeOK
  DependenciesFirst
  SnapshotComplete
  CyclesExact
PROPERTY
  LoadEnds
CHECK_DEADLOCK FALSE
