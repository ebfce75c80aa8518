CONSTANTS
  LabelField = 4
  DataField = 4
  Handles = {a, b}
  Domains <- MCDomains
  Chunks <- MCChunks
  Reads <- MCReads
  MaxCells = 4
  MaxDrawn = 3
  Domain <- MCDomain
  Labels <- MCLabels
  Data <- MCData
  Lengths <- MCLengths
  MaxSteps = 3
  Bits = 6
  Moduli = {2, 3, 5, 8, 13, 17, 31, 32}
  Bounds = {1, 2, 3, 4, 5, 7, 8, 11}
  N = 4
  Q = 4
  Tau = 3
  ByteBits = 1
SPECIFICATION MCSpec
INVARIANTS ChallengeBindsPrefix ChallengesAreFresh SamplesAreUniform ParitiesDecideUnits
PROPERTY ImplementsSponge
CHECK_DEADLOCK FALSE
