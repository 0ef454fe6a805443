SPECIFICATION Spec
CONSTANTS
  a = a
  b = b
  NoLayer = NoLayer
  NoPacket = NoPacket
  Panicked = Panicked
  NoData = NoData
  NoOption = NoOption
  Addresses <- Hosts
  Ports <- SomePorts
  Frames <- AllFrames
  Filters <- FewFilters
  MaxFrames = 2
INVARIANTS
  TypeOK
  FilterIsRight
  RepliesPassAlike
CHECK_DEADLOCK FALSE
