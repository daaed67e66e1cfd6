CONSTANTS
  Requests = {r1}
  Cancels = {c1}
  Keys = {k1, k2}
  Bodies <- OneBody
  RiskPolicy <- MCPolicy
  Modes = {"live"}
  EventInsertFails = TRUE
  FaultKinds <- AllFaults
  MaxFaults = 0
  None = None
SPECIFICATION FairSpec
CHECK_DEADLOCK FALSE
PROPERTIES CanceledOrdersDoNotExecute
