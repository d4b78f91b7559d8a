SPECIFICATION FairSpec
CONSTANTS
  PacketSize = 188
  PesLen = 20
  HeaderLen = 30
  DataLens <- Lengths
INVARIANTS
  TypeOK
  UnitArrives
  PacketsSound
PROPERTIES
  Contiguous
  UnitEnds
