CONSTANTS
  Items = {0, 1, 2}
  ThreadNum = 2
  HashtableBinSize <- MCWide
  HashBatch = 2
  Asserts = FALSE
  Random = TRUE
  DecodeMax = 3
  GroupLen = 2
  IdxMod = 8
  Parameters <- MCFewParameters
  Requests <- MCFewRequests
  Streams <- MCNoStreams
  QuerySets = {}
  Storages = {0}
SPECIFICATION Spec
INVARIANTS FreshCoins
