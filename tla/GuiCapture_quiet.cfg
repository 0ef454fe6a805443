SPECIFICATION FairSpec
CONSTANTS
  web = web
  dns = dns
  eth0 = eth0
  wlan0 = wlan0
  NoFilter = NoFilter
  NoDevice = NoDevice
  NoIndex = NoIndex
  Kinds <- TwoKinds
  ProtocolsOf <- WebAndDns
  Filters <- WebFilter
  Devices <- OneDevice
  HistoryLen = 0
  MaxRuns = 1
  MaxPackets = 1
PROPERTY StopReturns
CHECK_DEADLOCK FALSE
