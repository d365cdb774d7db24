CONSTANTS
  Items = {0, 1, 2, 3, 4}
  ThreadNum = 1
  HashtableBinSize <- MCWide
  HashBatch = 2
  Asserts = FALSE
  Random = FALSE
  DecodeMax = 4
  GroupLen = 2
  IdxMod = 4
  Parameters <- MCNarrowParameters
  Requests <- MCNarrowRequests
  Streams <- MCNoStreams
  QuerySets <- MCNarrowQuerySets
  Storages = {0}
SPECIFICATION Spec
INVARIANTS RoundTrip
