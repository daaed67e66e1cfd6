CONSTANTS
  Requests = {r1, r2}
  Cancels = {c1}
  Keys = {k1, k2}
  Bodies <- ThreeBodies
  RiskPolicy <- MCPolicy
  Modes = {"live", "fill"}
  EventInsertFails = FALSE
  FaultKinds <- AllFaults
  MaxFaults = 1
  None = None
SPECIFICATION Spec
SYMMETRY Symmetries
CONSTRAINT UpperOnPaper
CHECK_DEADLOCK FALSE
INVARIANTS TypeOK UniqueKey SameKeySameAnswer OnlyAllowedPlaced ExtraPlacementsCostFaults
  ProviderIdIsOwn FillsBackedByExecutions FilledOrdersHaveTheirFill ExposureOverrunNeedsRace
PROPERTIES SettledOrdersStaySettled
