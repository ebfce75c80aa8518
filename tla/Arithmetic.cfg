CONSTANTS
  Word = 64
  Small = 31
SPECIFICATION Spec
INVARIANTS InverseDecides OpsAreExact
PROPERTY InverseReturns
CHECK_DEADLOCK FALSE
