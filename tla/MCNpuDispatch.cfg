\* Two MUL_MAT nodes, Q8_0 and F16 weights, with a VIEW between them and
\* different batch sizes m (4 and 3, both at least THREAD_NR, so worker_nr
\* = 3 workers meet at the barrier) and k = 16384, which the K cap of 8192
\* splits into two tiles per slice.
CONSTANTS
  ThreadNr = 3
  MaxKernels = 64
  ToFloatTypes <- MCToFloatTypes
  Jobs <- MCJobs
SPECIFICATION Spec
INVARIANTS TypeOK BarrierHolds ConvertedBLifetime
PROPERTIES MasterWaitsForAll
\* Every behaviour that frees the backend ends with the workers joined.
CHECK_DEADLOCK FALSE
