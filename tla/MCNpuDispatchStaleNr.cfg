\* One call: a worker can reach the barrier before worker_nr is written.
CONSTANTS
  ThreadNr = 3
  MaxKernels = 64
  ToFloatTypes <- MCToFloatTypes
  Jobs <- MCJobsOne
SPECIFICATION Spec
INVARIANTS BarrierPartnerPresent
CHECK_DEADLOCK FALSE
