\* One call, then ggml_backend_rknpu2_free: do all the workers get joined?
CONSTANTS
  ThreadNr = 3
  MaxKernels = 64
  ToFloatTypes <- MCToFloatTypes
  Jobs <- MCJobsOne
SPECIFICATION Spec
PROPERTIES FreeJoins
CHECK_DEADLOCK FALSE
