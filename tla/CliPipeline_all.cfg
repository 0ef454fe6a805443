SPECIFICATION FairSpec
CONSTANTS
  a = a
  b = b
  NoLayer = NoLayer
  NoPacket = NoPacket
  Panicked = Panicked
  NoData = NoData
  NoOption = NoOption
  NoSession = NoSession
  Failed = Failed
  NoInfo = NoInfo
  Addresses <- Hosts
  Ports <- SomePorts
  Frames <- TwoConversations
  Filters <- ThreeFilters
  SegmentFlags <- UsualFlags
  SessionTimeout = 1
  IcmpTimeout = 1
  MaxSessions = 1
  Divisor = 2
  ClockStepsBack = FALSE
  MaxTime = 2
  MaxCreated = 3
  Counts = {0, 1, 4}
  MaxPackets = 3
INVARIANTS
  TypeOK
  InfoIsRight
  TrackedIsShown
  LoopEndsOnTime
PROPERTIES
  PipelineEnds
CHECK_DEADLOCK FALSE
