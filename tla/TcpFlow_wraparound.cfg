SPECIFICATION Spec
CONSTANTS
  SeqMod = 6
  ISN <- WrapISN
  StreamLen <- WrapLen
  Segments <- WrapAlignedSegments
  LateSyn = FALSE
PROPERTY DroppedWasProcessed
