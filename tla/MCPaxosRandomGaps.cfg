CONSTANTS
  N = 3
  M = 4
  Inputs <- MCRandomInputs
SPECIFICATION Spec
INVARIANTS RandomGapsDecode
