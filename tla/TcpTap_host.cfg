SPECIFICATION TapSpec
CONSTANTS
  SeqMod = 8
  ISN <- TapISN
  StreamLen <- TapLen
  Segments <- TapSegments
  InOrder <- TapInOrder
  LateSyn = FALSE
  Ack = Ack
  Reset = Reset
  MaxInFlight = 2
INVARIANTS
  TapTypeOK
  EstablishedIsShared
  HoldsAllReceived
  ClosedIsClosed
  RestsWhereItCloses
\* Connections end.
CHECK_DEADLOCK FALSE
