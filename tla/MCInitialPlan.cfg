CONSTANTS
  CommandName = {"RequestCapabilities", "RequestProtocolVersion"}
  Param = {0}
  Px4Firmware = TRUE
  MaxRetryCount = 0
  QueueLimit = 2
  LinkCapacity = 0
  Acknowledgements <- OnlyAccepted
  Capabilities <- AllCapabilities
  ProtocolVersion = {200}
  Autoload = {FALSE}
  Quiet = {FALSE}
  Operations = {"Write", "Remove"}
  TimerLimit = 1
SPECIFICATION ConnectSpec
INVARIANT LoadsInSequence
PROPERTY InitialPlanCompletes
