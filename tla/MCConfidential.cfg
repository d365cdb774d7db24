CONSTANTS
  Q = 13
  RangeBits = 2
  MaxAggregation = 4
  SecretKeys = {3}
  Messages = {0, 1, 3}
  Coins = {0, 4}
  Factors = {2}
  MaxSteps = 2
  Claims <- MCClaims
  Masks <- MCMasks
  Tapes <- MCTapes
  NewAnswers <- MCNewAnswers
SPECIFICATION ValueSpec
CHECK_DEADLOCK FALSE
INVARIANTS EncryptsExactly ProofsExact ProofsBound ThrowsOnlyWhen
