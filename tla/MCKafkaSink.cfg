CONSTANTS
  Records = {d1, d2}
  QueueSize = 1
  Free = Free
SPECIFICATION FairSpec
INVARIANTS
  TypeOK
  DrainComplete
  GaugeSettled
  StopIsPrompt
PROPERTIES
  ImplementsDecisionSink
  EnqueueReturns
  RunReturns
CHECK_DEADLOCK FALSE
