SPECIFICATION FairSpec
CONSTANTS
  HttpReqs = {h1}
  GrpcReqs = {g1}
INVARIANTS TypeOK AnsweredIsRecorded  EventHasAudit StopOrder
PROPERTY ShutdownEnds
CHECK_DEADLOCK FALSE
