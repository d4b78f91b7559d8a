SPECIFICATION FairSpec
CONSTANTS
  N = 3
  FilePackets = 7
  SizeChanges <- TwoSizes
  MppDepth = 2
INVARIANTS
  TypeOK
  Delivers
PROPERTIES
  FramesAreQueue
  AllEncoded
