SPECIFICATION Spec
CONSTANTS
  a = a
  b = b
  c = c
  NoSession = NoSession
  Failed = Failed
  Endpoints <- Hosts
  Keys <- MixedKeys
  SegmentFlags <- UsualFlags
  TcpTimeout = 0
  UdpTimeout = 0
  IcmpTimeout = 1
  MaxSessions = 2
  Divisor = 2
  ClockStepsBack = TRUE
  MaxTime = 1
  MaxCreated = 3
INVARIANTS
  TypeOK
  SessionStateMatchesFlow
  MapIsRight
  DirectionsApartAfterSyn
PROPERTIES
  SessionNeverReopens
  RemovedForCause
  ReturnedIdNamesSession
