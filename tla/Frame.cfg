SPECIFICATION FairSpec
CONSTANTS
  N = 4
  MaxPictures = 10
  SizeChanges <- TwoSizes
CHECK_DEADLOCK FALSE
INVARIANTS
  TypeOK
  Delivers
PROPERTIES
  FramesAreQueue
  GoesOn
