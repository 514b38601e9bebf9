CONSTANTS
  CommandName = {"RequestCapabilities", "RequestProtocolVersion"}
  Param = {0}
  Px4Firmware = TRUE
  MaxRetryCount = 0
  QueueLimit = 2
  LinkCapacity = 0
  Acknowledgements <- AllAcknowledgements
  Capabilities <- SomeCapabilities
  ProtocolVersion = {200}
  Autoload = {FALSE}
  Quiet = {FALSE}
  Operations = {}
  TimerLimit = 1
SPECIFICATION ConnectSpec
PROPERTY VersionIsKept
