CONSTANTS
  Nth = 2
  ThreadNr = 3
  Calls <- MCCallsSplitK
SPECIFICATION Spec
INVARIANT DstSums
CHECK_DEADLOCK FALSE
