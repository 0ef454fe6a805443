SPECIFICATION TrafficSpec
CONSTANTS
  web = web
  dns = dns
  eth0 = eth0
  wlan0 = wlan0
  NoFilter = NoFilter
  NoDevice = NoDevice
  NoIndex = NoIndex
  Kinds <- TwoKinds
  ProtocolsOf <- WebAndDns
  Filters <- WebFilter
  Devices <- TwoDevices
  HistoryLen = 1
  MaxRuns = 2
  MaxPackets = 2
INVARIANTS
  TypeOK
  StopEndsThreads
  ListRightUnlessSwitched
  CurvesRise
PROPERTIES
  SelectionStable
  CountsCoverList
  StopReturns
  CapturedIsProcessed
CHECK_DEADLOCK FALSE
