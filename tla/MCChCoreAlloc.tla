--------------------------- MODULE MCChCoreAlloc ---------------------------
(* Two tensors of 1 and 3 blocks over 2 TZASC regions, two threads bound *)
(* to regions 0 and 1, so that blocks of both tensors interleave in a    *)
(* region and get_task redirects a thread whose region's quota is used.  *)
EXTENDS ChCoreAlloc, TLC

CONSTANTS t1, t2, th1, th2

MCTensors  == {t1, t2}
MCThreads  == {th1, th2}
MCBlocks   == (t1 :> 1 @@ t2 :> 3)
MCCmaIndex == (th1 :> 0 @@ th2 :> 1)
=============================================================================
