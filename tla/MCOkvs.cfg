CONSTANTS
  Items = {0, 1, 2, 3, 4, 5}
  ThreadNum = 2
  HashtableBinSize <- MCBinSize
  HashBatch = 2
  Asserts = TRUE
  Random = TRUE
  DecodeMax = 3
  GroupLen = 2
  IdxMod = 8
  Parameters <- MCParameters
  Requests <- MCRequests
  Streams <- MCStreams
  QuerySets <- MCQuerySets
  Storages = {0, 1}
SPECIFICATION Spec
INVARIANTS BinsExact QueriesKept RoundTrip
PROPERTIES BinsEncoded EncodedOnce
