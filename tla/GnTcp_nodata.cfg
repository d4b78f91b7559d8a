SPECIFICATION Spec
CONSTANTS
  N = 3
  MaxPuts <- LongVideo
  PesStart = {1, 3}
PROPERTIES
  NoDataMeansNoData
