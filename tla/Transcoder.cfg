SPECIFICATION FairSpec
CONSTANTS
  MppDepth = 1
  N = 3
  VideoSlots = 1
  AudioSlots = 1
  Parts = 1
  MaxVideo = 6
  MaxAudio = 2
INVARIANTS
  TypeOK
PROPERTIES
  PicturesAreQueue
  StuckThreads
  Flows
