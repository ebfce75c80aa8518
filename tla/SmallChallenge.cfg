CONSTANTS
  Bits = 6
  Moduli = {2, 3, 5, 8, 13, 17, 31, 32}
  Bounds = {1, 2, 3, 4, 5, 7, 8, 11}
  N = 4
  Q = 4
  Tau = 3
  ByteBits = 1
SPECIFICATION SamplerSpec
INVARIANT SmallIsNonunit
CHECK_DEADLOCK FALSE
