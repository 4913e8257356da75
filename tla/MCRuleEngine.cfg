CONSTANTS
  RuleIds <- MCRuleIds
  Codes <- MCCodes
  Versions <- MCVersions
  Snapshots <- MCSnapshots
  Requests = {r1, r2}
SPECIFICATION Spec
INVARIANTS
  TypeOK
  SnapshotConsistent
  CombinerSound
  DecisionSound
  OnlyCancellationFails
  AuditedDecisionsAreWhole
CHECK_DEADLOCK FALSE
