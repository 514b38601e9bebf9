CONSTANTS
  CommandName = {"RequestCapabilities", "RequestProtocolVersion", "Other"}
  Param = {0}
  Px4Firmware = TRUE
  MaxRetryCount = 1
  QueueLimit = 3
  LinkCapacity = 0
  Acknowledgements <- AllAcknowledgements
  Capabilities <- SomeCapabilities
  ProtocolVersion = {200}
  Autoload = {TRUE, FALSE}
  Quiet = {TRUE, FALSE}
  Operations = {"Load", "Write", "Remove"}
  TimerLimit = 1
SPECIFICATION ConnectSpec
VIEW WithoutResults
INVARIANTS
  ConnectTypeOK
  NoLostWakeup
  OneCapabilitiesRequest
