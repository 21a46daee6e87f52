---------------------------- MODULE MCPrefetch ----------------------------
(* Model-checking instance of Prefetch: three tensors, two of layer 0 and *)
(* one of layer -1 (a non-"blk" tensor), sizes of one to three decrypt    *)
(* blocks, and an io cap of 1 so the backpressure guard is reached.       *)
EXTENDS Prefetch, TLC

CONSTANTS t1, t2, t3, w1, w2

MCTensors == {t1, t2, t3}
MCWorkers == {w1, w2}
MCLayer   == (t1 :> 0 @@ t2 :> 0 @@ t3 :> -1)
MCSize    == (t1 :> 3 @@ t2 :> 1 @@ t3 :> 2)

=============================================================================
