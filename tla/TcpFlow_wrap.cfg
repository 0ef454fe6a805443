SPECIFICATION FairSpec
CONSTANTS
  SeqMod = 6
  ISN <- WrapISN
  StreamLen <- WrapLen
  Segments <- WrapSegments
  LateSyn = FALSE
INVARIANTS
  TypeOK
  ReassembledIsPrefix
PROPERTIES
  StateNeverRegresses
  ImplementsSummary
  NothingUnreadDiscarded
  CallDeliversHeldData
