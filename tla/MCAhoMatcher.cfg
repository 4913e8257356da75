SPECIFICATION Spec
CONSTANTS
  Bytes = {"a", "b", "A", "_"}
  Keywords <- mcKeywords
  MaxKeywords = 3
  MaxValue = 5
INVARIANTS FailExact MatchExact
CHECK_DEADLOCK FALSE
