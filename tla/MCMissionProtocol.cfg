CONSTANTS
  PlanType = "Mission"
  PlanTypes = {"Mission"}
  SendHome = FALSE
  ApmFirmware = FALSE
  MaxRetryCount = 1
  LinkCapacity = 3
  PlanInput <- MCAllInput
  VehicleInput <- MCNoInput
  Regimes <- MCRegimes
  StoredPlans <- MCStoredPlans
  SendHomePositionOnEmptyList = FALSE
SPECIFICATION ProtocolSpec
PROPERTIES
  ReadReturnsVehiclePlan
  ReadReturnsEveryItem
  WriteReachesVehicle
  RemoveAllReachesVehicle
  FailureModesFail
  RetriesRecover
  TransactionsEnd
