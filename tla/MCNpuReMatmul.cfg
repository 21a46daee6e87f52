CONSTANTS
  Nth = 2
  ThreadNr = 3
  Calls <- MCCalls
SPECIFICATION Spec
INVARIANTS TypeOK InputRowsOnce PostAfterNpu DstSums
CHECK_DEADLOCK FALSE
