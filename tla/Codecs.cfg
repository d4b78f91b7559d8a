SPECIFICATION FairSpec
CONSTANTS
  N = 3
  Memory = 7
  Limit = 2
  MaxPictures = 7
  SizeChanges = {1, 4, 6}
  Gop = 3
  MaxFrames = 7
INVARIANTS
  TypeOK
  PicturesInMemory
  PacketsFit
PROPERTIES
  FailuresAreFinal
  AllTranscoded
