CONSTANTS
  RuleIds <- MCRuleIds
  Codes <- MCCodes
  Versions <- MCVersions
  Snapshots <- MCSnapshots
  Requests = {r1}
SPECIFICATION Spec
INVARIANT
  SkippedDepsReported
CHECK_DEADLOCK FALSE
