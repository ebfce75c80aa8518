CONSTANTS
  Q = 41
  Gamma2 = 4
  Pow2D = 8
  N = 3
  K = 3
  Omega = 2
  Eta = 1
  Tau = 1
  Gamma1 = 4
  Challenges <- MCChallenges
  CtxCap = 2
  NonceField = 6
  FalconBound = 400
  FalconWord = 1048576
  Keys <- MCKeys
  Messages <- MCMessages
  Sessions <- MCSessions
SPECIFICATION MCSpec
INVARIANTS TypeOK HintRecoversW1 SignatureVerifies SignatureBindsMessage FreshMasks
INVARIANTS PublishedFitsEverySecret FalconSignsShortVectors PartsAreExact
CHECK_DEADLOCK FALSE
