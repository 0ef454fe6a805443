SPECIFICATION Spec
CONSTANTS
  SeqMod = 8
  ISN <- OverlapISN
  StreamLen <- OverlapLen
  Segments <- OverlapSegments
  LateSyn = TRUE
INVARIANT ReassembledIsPrefix
