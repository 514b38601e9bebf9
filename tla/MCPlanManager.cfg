CONSTANTS
  PlanType = "Mission"
  PlanTypes = {"Mission", "Fence"}
  SendHome = TRUE
  ApmFirmware = TRUE
  MaxRetryCount = 1
  LinkCapacity = 1
  PlanInput <- MCPlanInput
  VehicleInput <- MCVehicleInput
SPECIFICATION Spec
INVARIANTS
  TypeOK
  NoStuckTransaction
  IdleIsQuiescent
  NoPartialList
  OneConnectionPerTransfer
PROPERTIES
  KeepsPromise
