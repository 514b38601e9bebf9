CONSTANTS
  CommandName = {"ArmDisarm", "User1", "User2", "User3", "User4", "User5", "StartRxPair"}
  Param = {0, 1}
  Px4Firmware = FALSE
  MaxRetryCount = 1
  QueueLimit = 2
  LinkCapacity = 2
  Regimes <- StallRegimes
SPECIFICATION ProtocolSpec
PROPERTIES
  QueueAdvances
CHECK_DEADLOCK FALSE
