\* A call with m = 2 rows: worker_nr = 2, three workers in the barrier.
CONSTANTS
  ThreadNr = 3
  MaxKernels = 64
  ToFloatTypes <- MCToFloatTypes
  Jobs <- MCJobsBatch2
SPECIFICATION Spec
INVARIANTS BarrierHolds
CHECK_DEADLOCK FALSE
