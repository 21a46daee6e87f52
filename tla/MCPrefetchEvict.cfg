CONSTANTS
  t1 = t1
  t2 = t2
  t3 = t3
  w1 = w1
  w2 = w2
  Main = main
  Tensors <- MCTensors
  Workers <- MCWorkers
  Layer <- MCLayer
  Size <- MCSize
  DecBlock = 2
  StrawBlock = 4
  IOCap = 1
  SeqBase = 8
  MaxResets = 1
  ResetOnlyWhenDone = FALSE

SPECIFICATION Spec

INVARIANT QueueMatchesStage
CHECK_DEADLOCK FALSE
