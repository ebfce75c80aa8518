CONSTANTS
  Q = 41
  Gamma2 = 4
  Pow2D = 8
  N = 3
  K = 3
  Omega = 2
  Eta = 1
  Tau = 1
  Gamma1 = 4
  Challenges <- MCChallenges
  CtxCap = 2
  NonceField = 6
  FalconBound = 200
  FalconWord = 512
  Keys <- MCKeys
  Messages <- MCMessages
  Sessions <- MCSessions
SPECIFICATION FalconSpec
INVARIANT OverflowsAreRefused
CHECK_DEADLOCK FALSE
