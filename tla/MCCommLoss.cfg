CONSTANTS
  Link = {"usb", "radio"}
  NoLink = "none"
  UsbDirect = {"usb"}
  HighLatency = {}
  Threaded = {"radio"}
  Shared = {}
  MaxConnections = 2
  MaxSignals = 1
SPECIFICATION LinksSpec
INVARIANT LossIsKnown
