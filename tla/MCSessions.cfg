CONSTANTS
  Slacks = {0, 1}
  Items = {"a", "b", "c", "d"}
  SenderInputs <- MCPairs
  ReceiverInputs <- MCReceiverInputs
  PrefixMaps <- MCPrefixMaps
  MatrixWidth = 3
  SplitBucketSize = 2
  MatrixHeight = 2
  Place <- MCPlace
  BlockBits = 2
  Small = 3
  PprfNum = 3
  ItemNums = {1, 4, 7}
  Deltas <- MCDeltas
  EcKeys = {1}
  Weight = 3
  Taps = 3
  Coin <- MCCoin
  Spot <- MCSpot
SPECIFICATION Spec
INVARIANTS NoDesync VoleRelation PathHidden Attribution OwnKeyOnWire OprfAgrees IdsAgree
PROPERTIES BothReturn
