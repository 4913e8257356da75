CONSTANTS
  Records = {d1, d2, bad}
  Poison = {bad}
  QueueSize = 1
  BatchSize = 2
SPECIFICATION FairSpec
INVARIANTS
  TypeOK
  ClearedIsDurable
  StopIsDurable
PROPERTIES
  ImplementsDecisionSink
  RunReturns
  OutageOnlyDelays
CHECK_DEADLOCK FALSE
