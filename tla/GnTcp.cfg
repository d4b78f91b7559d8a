SPECIFICATION FairSpec
CONSTANTS
  N = 3
  MaxPuts <- BothStreams
  PesStart = {1, 3}
INVARIANTS
  TypeOK
  Delivers
PROPERTIES
  RingsAreQueues
  EverythingIsSent
