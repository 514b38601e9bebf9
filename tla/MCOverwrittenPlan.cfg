CONSTANTS
  Vehicle = {"v1", "v2", "v3"}
  NoVehicle = "none"
  Controllers <- Views
  Regimes <- LostRegimes
SPECIFICATION SyncSpec
PROPERTY CurrentPlanIsKept
CHECK_DEADLOCK FALSE
