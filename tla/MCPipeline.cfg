CONSTANTS
  ServerInputs <- MCServerInputs
  ClientInputs <- MCClientInputs
  ChunkSizes = {1, 2}
  Capacity = 2
SPECIFICATION Spec
INVARIANTS LayersExact MatchesExact
PROPERTIES Terminates
