SPECIFICATION FairSpec
CONSTANTS
  Bytes = 3
  PesTicks = 3
  ByteTicks = 4
  Horizon = 8
  Skews <- Ahead
  MaxMissed = 1
INVARIANTS
  TypeOK
  Stamped
PROPERTIES
  CrashHasCause
  StartsInStep
  AudioComes
