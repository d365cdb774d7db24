CONSTANTS
  Slacks = {0, 1}
  Items = {"a", "b", "c", "d"}
  SenderInputs <- MCSenderInputs
  ReceiverInputs <- MCReceiverInputs
  LogSumBound = 2
  Values = {0, 1}
SPECIFICATION Spec
INVARIANTS NoDesync OrderedResult OwnKeyOnWire
PROPERTIES BothReturn IdealSpec
