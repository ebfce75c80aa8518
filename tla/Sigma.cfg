CONSTANTS
  Q = 17
  BS = 1
  YBound = 5
  Tau = 2
  MaskTop = 5
  ChecksWitness = TRUE
  SendsHash = TRUE
  MaxAttempts = 2
  Rows = {1}
  Keys <- MCKeys
  Witnesses <- MCWitnesses
  Challenges <- MCChallenges
  Responses <- MCResponses
SPECIFICATION Spec
INVARIANTS ProofVerifies ProofBindsStatement ResponseHidesWitness ExtractorRecovers
PROPERTY CallsReturn
CHECK_DEADLOCK FALSE
