SPECIFICATION PtsFairSpec
CONSTANTS
  Mantissa = 131072
  pts_offset = 3003
  Fraction = TRUE
  MaxFrames = 300000
INVARIANTS
  PtsTypeOK
  Truthful
  DriftBounded
PROPERTIES
  Advances
  ClockStops
