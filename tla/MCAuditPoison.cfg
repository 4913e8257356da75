CONSTANTS
  Records = {d1, d2, bad}
  Poison = {bad}
  QueueSize = 1
  BatchSize = 2
SPECIFICATION FairSpec
PROPERTY
  DurableWhenReachable
CHECK_DEADLOCK FALSE
