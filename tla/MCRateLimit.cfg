SPECIFICATION Spec
CONSTANTS
  r1 = r1
  r2 = r2
  r3 = r3
  Requests = {r1, r2, r3}
  Parts = {"", "a", "b", "publish", "comment"}
  Actors <- mcActors
  Actions <- mcActions
  ActorOf <- mcActorOf
  ActionOf <- mcActionOf
  RuleList <- mcRules
  Window = 4
  MaxTries = 2
  MaxDelay = 2
  MaxTime = 6
INVARIANTS TypeOK KeysOutliveTheirUse BucketBound SlidingBound RefusedOverLimit
SYMMETRY Alike
CHECK_DEADLOCK FALSE
