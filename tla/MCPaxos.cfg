CONSTANTS
  N = 4
  M = 5
  Inputs <- MCInputs
SPECIFICATION Spec
INVARIANTS ListsExact Triangular EncodeDecodes OutputRandom
PROPERTIES Terminates
