CONSTANTS
  t1 = t1
  t2 = t2
  th1 = th1
  th2 = th2
  Tensors <- MCTensors
  Threads <- MCThreads
  Blocks <- MCBlocks
  CmaIndex <- MCCmaIndex
  TZ = 2
  MaxResets = 1
  ResetOnlyWhenDone = TRUE

SPECIFICATION Spec
INVARIANT DecryptInsideWindow
CHECK_DEADLOCK FALSE
