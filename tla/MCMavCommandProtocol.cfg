CONSTANTS
  CommandName = {"ArmDisarm", "User1", "User2", "User3", "User4", "User5", "StartRxPair"}
  Param = {0, 1}
  Px4Firmware = FALSE
  MaxRetryCount = 1
  QueueLimit = 3
  LinkCapacity = 2
  Regimes <- MCRegimes
SPECIFICATION ProtocolSpec
INVARIANTS
  HeadIsUnderWay
  RetriesBounded
PROPERTIES
  KeepsPromise
  AcceptedIsInEffect
  TestOutcomes
  QueueAdvances
