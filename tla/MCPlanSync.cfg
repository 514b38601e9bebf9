CONSTANTS
  Vehicle = {"v1", "v2", "v3"}
  NoVehicle = "none"
  Controllers <- Views
  Regimes <- MCRegimes
SPECIFICATION SyncSpec
INVARIANTS
  NoDanglingVehicle
  ViewsFollowActive
  FlyShowsPlan
PROPERTY SentPlanArrives
CHECK_DEADLOCK FALSE
