CONSTANTS
  Component = {1, 2}
  DefaultComponent = 1
  Name = {0, 1, 2}
  Value = {0, 1}
  Volatile <- OneVolatile
  Px4Firmware = TRUE
  GenericFirmware = FALSE
  MaxRequestRetry = 1
  MaxLoadRetry = 1
  MaxReadWriteRetry = 1
  MaxBatchSize = 1
  LinkCapacity = 13
  VehicleInput <- NoInput
  Caches <- AllCaches
  FailParam <- MCFailParam
  Regimes <- MCRegimes
SPECIFICATION ProtocolSpec
CHECK_DEADLOCK FALSE
INVARIANTS PendingIsTimed EveryIndexIsAccounted ReadyIsWhole ScreenShowsVehicle WritesArrive FailureModesEnd LoadHasOutcome
PROPERTY RetriesEnd
