---------------------------- MODULE MCNpuDispatch ----------------------------
EXTENDS NpuDispatch

\* A MUL_MAT node the backend supports, with src0 of the given type
MulMatNode(type, m, k, n) ==
  [op |-> "MUL_MAT", type |-> type, flat |-> TRUE, io |-> "F32", extra |-> TRUE,
   m |-> m, k |-> k, n |-> n]

\* A VIEW node between two MUL_MATs
ViewNode == [op |-> "VIEW", type |-> "F32", flat |-> TRUE, io |-> "F32", extra |-> FALSE,
             m |-> 0, k |-> 1, n |-> 0]

\* The passing run: a Q8_0 MUL_MAT with m = 4, a VIEW, an F16 MUL_MAT with
\* m = 3; k = 16384, n = 192
MCJobs == << MulMatNode("Q8_0", 4, 16384, 192), ViewNode,
             MulMatNode("F16", 3, 16384, 192) >>

\* ggml.c's type traits give F16 and the quantised types a to_float, not F32
MCToFloatTypes == {"F16", "Q8_0", "Q4_0"}

\* m = 2: worker_nr = 2 while all three workers take a slice
MCJobsBatch2 == << MulMatNode("F16", 2, 64, 192) >>

\* One call
MCJobsOne == << MulMatNode("F16", 4, 64, 192) >>

=============================================================================
