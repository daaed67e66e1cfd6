CONSTANTS
  Requests = {r1, r2}
  Cancels = {}
  Keys = {k1, k2}
  Bodies <- SellBodies
  RiskPolicy <- MCPolicy
  Modes = {"live"}
  EventInsertFails = TRUE
  FaultKinds <- AllFaults
  MaxFaults = 0
  None = None
SPECIFICATION Spec
CHECK_DEADLOCK FALSE
INVARIANTS SellsAreCovered
