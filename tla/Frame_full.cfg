SPECIFICATION Spec
CONSTANTS
  N = 4
  MaxPictures = 10
  SizeChanges <- OneSize
CHECK_DEADLOCK FALSE
INVARIANTS
  DecoderWaitsForRoom
