CONSTANTS
  Requests = {r1, r2}
  Cancels = {c1}
  Keys = {k1}
  Bodies <- OneBody
  RiskPolicy <- CooldownPolicy
  Modes = {"live", "fill", "reject"}
  EventInsertFails = TRUE
  FaultKinds <- AllFaults
  MaxFaults = 1
  None = None
SPECIFICATION FairSpec
CHECK_DEADLOCK FALSE
PROPERTIES AcceptedOrdersArePlaced OrdersCloseForGood KeepsPromise
