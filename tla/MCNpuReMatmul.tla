---------------------------- MODULE MCNpuReMatmul ----------------------------
(* Instances of NpuReMatmul for TLC.                                       *)
EXTENDS NpuReMatmul

\* Two MUL_MATs of one shape (the kernel and its buffers are reused, so the
\* counters must be reset), then a decode-stage one (m = 1) that clears the
\* kernels; n = 96 gives each NPU thread one nn tile.
MCCalls == << [m |-> 2, k |-> 64, n |-> 96, type |-> "f16"],
              [m |-> 2, k |-> 64, n |-> 96, type |-> "f16"],
              [m |-> 1, k |-> 64, n |-> 96, type |-> "q8_0"] >>

\* k = 8192 is split into two kk tiles of K = 4096, whose partial products
\* post adds into the same dst cells.
MCCallsSplitK == << [m |-> 1, k |-> 8192, n |-> 96, type |-> "f16"] >>
====
