CONSTANTS
  Q = 9
  G = 2
  ParMinHalf = 2
  Workers = {w1, w2}
  Forgeries <- MCForgeries
  Batches <- MCBatches
SPECIFICATION Spec
INVARIANTS HonestBatchVerifies WrongBatchNeedsLuck
PROPERTY ImplementsSequential
CHECK_DEADLOCK FALSE
