CONSTANTS
  Link = {"usb", "radio", "satellite"}
  NoLink = "none"
  UsbDirect = {"usb"}
  HighLatency = {"satellite"}
  Threaded = {"radio"}
  Shared = {"radio"}
  MaxConnections = 4
  MaxSignals = 2
SPECIFICATION LinksSpec
INVARIANTS
  NoClosedLink
  PriorityIsBest
  HighLatencyIsStopped
PROPERTY LossIsReal
