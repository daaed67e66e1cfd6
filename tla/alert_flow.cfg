SPECIFICATION Spec
CONSTANTS
  None = None
  Followed <- OneFollowed
  Snapshots <- OneSnapshot
  Prices <- TenEleven
  Rules <- TwoRules
  Settings <- TwoSettings
  DefaultSettings <- TenPercent
  DefaultCooldown = 2
  UnitsPerDay = 2
  MaxPerDay = 1
  MaxNow = 3
  FaultKinds <- AllFaults
  MaxFaults = 2
INVARIANTS TypeOK MovesCoolDown RulesCoolDown NothingSwallowed CapNeedsBacklog
CHECK_DEADLOCK FALSE
