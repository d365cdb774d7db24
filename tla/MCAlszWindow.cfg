CONSTANTS
  SThreads = {"s0", "s1", "s2"}
  SMaster = "s0"
  RThreads = {"r0", "r1"}
  RMaster = "r0"
  Tiles = 5
  WindowSize = 2
  SShare <- MCSShare
  RShare <- MCRShare
  NetCapacity = 2
SPECIFICATION Spec
INVARIANTS TypeOK KeysAgree TransferExclusive IInv
PROPERTIES ErrorWriteRaceFree BothLeave IdealSpec
