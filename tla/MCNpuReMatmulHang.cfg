CONSTANTS
  Nth = 2
  ThreadNr = 3
  Calls <- MCCalls
SPECIFICATION Spec
PROPERTY ComputeReturns
CHECK_DEADLOCK FALSE
