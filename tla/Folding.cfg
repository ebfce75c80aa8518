CONSTANTS
  M = 4
  Slots = {a, b}
  A <- MCA
  U <- MCU
  Sel <- MCSel
  KeyZ <- MCKeyZ
  KeyE <- MCKeyE
  Witnesses <- MCWitnesses
  Challenges = {0, 1, 2, 3}
  Errors = {1, 2}
  MaxFolds = 3
  W = 4
  D = 2
  DigitBits = 2
  FoldL1 = 1
  SplitL1 = 2
  LatticeKeys <- MCLatticeKeys
  Firsts <- MCFirsts
  Seconds <- MCSeconds
  Forged <- MCForged
  Keys = {3, 6}
  Targets = {5}
  Zetas = {15}
  Bounds = {0, 1, 3, 8}
SPECIFICATION MCSpec
INVARIANTS FoldedInstancesVerify HonestFoldVerifies ForksOpenTheFold HonestProjectionVerifies AcceptedProjectionIsBounded
INVARIANTS HonestNormsVerify AcceptedNormsHold TampersAreReported
PROPERTY FoldCarriesGaps
CHECK_DEADLOCK FALSE
