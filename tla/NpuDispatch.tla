----------------------------- MODULE NpuDispatch -----------------------------
(***************************************************************************)
(* The RKNPU2 matmul dispatcher of src/ggml/src/ggml-rknpu2.cpp.           *)
(*                                                                         *)
(* ggml_backend_rknpu2_graph_compute (the master) walks the nodes of the   *)
(* graph split the scheduler gave the backend: it skips NONE, RESHAPE and  *)
(* VIEW, aborts on any other op but MUL_MAT, and for MUL_MAT calls         *)
(* ggml_backend_rknpu2_mul_mat, which asserts the node's layout, converts  *)
(* quantised weights to a malloc'd F32 copy B, calls the dispatcher and    *)
(* frees B.  ggml_backend_rknpu2_mul_mat_mul_npu_dispatcher splits the n columns of the output over THREAD_NR worker  *)
(* threads: it zeroes finished_nr, writes params[i] and sets ready[i] for  *)
(* i = THREAD_NR-1 .. 0, sets worker_nr = min(m, THREAD_NR), notifies      *)
(* cv_worker and spins until finished_nr == THREAD_NR.  It takes no lock.  *)
(* Each worker waits on cv_worker under mtx for ready[tid] || done, runs   *)
(* ggml_backend_rknpu2_mul_mat_mul_npu on its slice, then under mtx        *)
(* increments finished_nr and clears ready[tid].  Inside mul_npu a worker  *)
(* finds or creates its thread_local matmul kernel, and for every tile     *)
(* (pk, pn) copies A and B, runs the NPU, meets the other workers at the   *)
(* two-phase barrier finished_int / wake_int (under mtx_int, for worker_nr *)
(* participants) and adds the tile into C.  ggml_backend_rknpu2_free sets  *)
(* done, notifies cv_worker and joins the workers.                         *)
(*                                                                         *)
(* ready[] and done are plain variables written by the master without mtx: *)
(* the master's steps interleave with a worker's predicate test and its    *)
(* blocking on the condition variable.  Each worker's kernels are its own  *)
(* (thread_local), and the tiles' data never leaves the worker, so the     *)
(* data is abstracted to the count of tiles done.                          *)
(***************************************************************************)
EXTENDS Integers, Sequences, FiniteSets

CONSTANTS
  ThreadNr,     \* THREAD_NR
  Jobs,         \* the graph's nodes, in order: [op, type, flat, io, extra, m, k, n]
  MaxKernels,   \* GGML_RKNPU2_MAX_MATMUL_KERNELS
  ToFloatTypes  \* the types whose ggml type traits have a to_float (ggml.c)

ASSUME ThreadNr \in 1..3 /\ MaxKernels \in Nat \ {0}
ASSUME \A j \in 1..Len(Jobs) : Jobs[j].m \in Nat /\ Jobs[j].k \in Nat \ {0}
                                /\ Jobs[j].n \in Nat /\ Jobs[j].flat \in BOOLEAN

Workers == 0..ThreadNr-1
NoOne   == -1
NoJob   == 0

VARIABLES
  mpc, mi, job,        \* master: step, loop index i, current node
  bBuf,                \* what mul_mat's local B points at
  ready, done,         \* ready[], done
  params,              \* params[tid]: the call whose slice tid was given
  finishedNr,          \* std::atomic<int> finished_nr
  workerNr,            \* int worker_nr
  mtx,                 \* the holder of mtx
  wpc,                 \* worker step
  ran,                 \* the call whose slice the worker took (p = params[tid])
  tile,                \* tiles of its slice the worker has added into C
  kernels,             \* kernels[w]: keys <<m, k, size_n>> of w's matmul_kernels[]
  finishedInt, wakeInt,\* the barrier counters
  mtxInt,              \* the holder of mtx_int
  arrived,             \* ghost: barrier entries of the worker in its slice
  aborted              \* a GGML_ASSERT failed

vars == <<mpc, mi, job, bBuf, ready, done, params, finishedNr, workerNr, mtx, wpc,
          ran, tile, kernels, finishedInt, wakeInt, mtxInt, arrived, aborted>>


-----------------------------------------------------------------------------
(* The slice of a worker and its tiles                                     *)

\* nn = n / THREAD_NR / 32 * 32; the last worker takes the rest
SizeN(i, n) ==
  LET nn == ((n \div ThreadNr) \div 32) * 32 IN
  IF i + 1 # ThreadNr THEN nn ELSE n - i * nn

\* kernel_create: N = n if n < 4096, else 4096; K = k if k < 8192, else 8192
TileN(s) == IF s < 4096 THEN s ELSE 4096
TileK(k) == IF k < 8192 THEN k ELSE 8192

\* for (pk = 0; pk * K < k; pk++) for (pn = 0; pn * N < size_n; pn++)
Loops(total, step) == IF step = 0 THEN 0 ELSE (total + step - 1) \div step
Tiles(i, j) ==
  LET s == SizeN(i, Jobs[j].n) IN
  Loops(Jobs[j].k, TileK(Jobs[j].k)) * Loops(s, TileN(s))

Key(i, j) == <<Jobs[j].m, Jobs[j].k, SizeN(i, Jobs[j].n)>>

\* Fault variant of WorkerNr: worker_nr = m
WorkerNr_m(m) == m

\* worker_nr = std::min(m, THREAD_NR)
WorkerNr(m) == IF m < ThreadNr THEN m ELSE ThreadNr

\* Fault variant of SpinDone: the master stops one worker early
SpinDone_early == finishedNr >= ThreadNr - 1

\* while (finished_nr.load() != THREAD_NR) relax
SpinDone == finishedNr = ThreadNr

\* Fault variant of Open: the wait predicate is one short
Open_le(cnt) == cnt + 1 >= workerNr

\* cv_int.wait(lock, [] { return cnt == worker_nr; })
Open(cnt) == cnt = workerNr

\* ++cnt == worker_nr: the caller is the last to arrive
Last(cnt) == cnt + 1 = workerNr

InSlice == {"woke", "kernel", "run", "w1", "c1", "b2", "w2", "c2", "acc"}

-----------------------------------------------------------------------------
(* The graph's nodes                                                       *)

\* ggml_backend_rknpu2_supports_op: a contiguous MUL_MAT with F32 src1 and
\* dst whose weights have packs (src0->extra).  Its checks of k, n, the
\* 32-alignment, the buffer and src0's type sit after a return true.
SupportsOp(node) == node.op = "MUL_MAT" /\ node.io = "F32" /\ node.extra

\* The scheduler gives the backend only MUL_MAT nodes it supports, and the
\* NONE, RESHAPE and VIEW nodes around them.
ASSUME \A j \in 1..Len(Jobs) : Jobs[j].op = "MUL_MAT" => SupportsOp(Jobs[j])

\* graph_compute's switch: ops it passes over without computing
SkippedOps == {"NONE", "RESHAPE", "VIEW"}

\* mul_mat's GGML_ASSERTs: no batch dimension (ne02, ne03, ne12, ne13, ne2,
\* ne3 all 1), src1 and dst F32, packs != NULL, traits.to_float != NULL
MulMatAsserts(node) ==
  node.flat /\ node.io = "F32" /\ node.extra /\ node.type \in ToFloatTypes

\* Fault variant of BufferOfB: the else-if test inverted
BufferOfB_inverted(type) == CASE type = "F16" -> "unset"
                              [] type = "F32" -> "malloc"
                              [] OTHER        -> "weights"

\* if (type == F16) B stays unset; else if (type != F32) B = malloc(...)
\* and to_float fills it; else B = src0->data
BufferOfB(type) == CASE type = "F16" -> "unset"
                     [] type = "F32" -> "weights"
                     [] OTHER        -> "malloc"

\* if (src0->type != F16 && src0->type != F32) free(B)
FreesB(type) == type \notin {"F16", "F32"}

\* free(B) on what B holds: a malloc'd copy is released, anything else is
\* an invalid free; a malloc'd copy not freed is leaked
AfterFree(type, b) ==
  CASE FreesB(type) /\ b = "malloc" -> "none"
    [] FreesB(type)                 -> "bad_free"
    [] b = "malloc"                 -> "leaked"
    [] OTHER                        -> "none"

\* the loop of graph_compute moves to node i + 1, or returns
NextNode ==
  IF job < Len(Jobs) THEN job' = job + 1 /\ mpc' = "node"
                     ELSE mpc' = "free" /\ UNCHANGED job

\* A MUL_MAT node: ggml_backend_rknpu2_mul_mat's assertions, B, and the
\* call of the dispatcher
MulMat ==
  /\ ~aborted
  /\ mpc = "node"
  /\ Jobs[job].op = "MUL_MAT"
  /\ IF MulMatAsserts(Jobs[job])
       THEN bBuf' = BufferOfB(Jobs[job].type) /\ mpc' = "start" /\ UNCHANGED aborted
       ELSE aborted' = TRUE /\ UNCHANGED <<bBuf, mpc>>
  /\ UNCHANGED <<mi, job, ready, done, params, finishedNr, workerNr, mtx, wpc,
                 ran, tile, kernels, finishedInt, wakeInt, mtxInt, arrived>>

\* Any other node: NONE, RESHAPE and VIEW are skipped, the rest abort
OtherNode ==
  /\ ~aborted
  /\ mpc = "node"
  /\ Jobs[job].op # "MUL_MAT"
  /\ IF Jobs[job].op \in SkippedOps
       THEN NextNode /\ UNCHANGED aborted
       ELSE aborted' = TRUE /\ UNCHANGED <<mpc, job>>
  /\ UNCHANGED <<mi, bBuf, ready, done, params, finishedNr, workerNr, mtx, wpc,
                 ran, tile, kernels, finishedInt, wakeInt, mtxInt, arrived>>

\* The dispatcher has returned: mul_mat frees B, and the loop goes on
MulMatEnd ==
  /\ ~aborted
  /\ mpc = "mmend"
  /\ bBuf' = AfterFree(Jobs[job].type, bBuf)
  /\ NextNode
  /\ UNCHANGED <<mi, ready, done, params, finishedNr, workerNr, mtx, wpc, ran,
                 tile, kernels, finishedInt, wakeInt, mtxInt, arrived, aborted>>

-----------------------------------------------------------------------------
(* The master: the dispatcher and ggml_backend_rknpu2_free                 *)

\* memset(C); finished_nr = 0; the loop starts at i = THREAD_NR - 1
MasterStart ==
  /\ ~aborted
  /\ mpc = "start"
  /\ finishedNr' = 0
  /\ mi' = ThreadNr - 1
  /\ mpc' = "assign"
  /\ UNCHANGED <<bBuf, job, ready, done, params, workerNr, mtx, wpc, ran, tile,
                 kernels, finishedInt, wakeInt, mtxInt, arrived, aborted>>

\* memcpy(params + i, &p); ready[i] = true; i--
Assign ==
  /\ ~aborted
  /\ mpc = "assign"
  /\ params' = [params EXCEPT ![mi] = job]
  /\ ready' = [ready EXCEPT ![mi] = TRUE]
  /\ IF mi = 0 THEN mpc' = "setnr" /\ UNCHANGED mi
               ELSE mi' = mi - 1 /\ UNCHANGED mpc
  /\ UNCHANGED <<bBuf, job, done, finishedNr, workerNr, mtx, wpc, ran, tile,
                 kernels, finishedInt, wakeInt, mtxInt, arrived, aborted>>

\* worker_nr = min(m, THREAD_NR)
SetWorkerNr ==
  /\ ~aborted
  /\ mpc = "setnr"
  /\ workerNr' = WorkerNr(Jobs[job].m)
  /\ mpc' = "notify"
  /\ UNCHANGED <<bBuf, mi, job, ready, done, params, finishedNr, mtx, wpc, ran, tile,
                 kernels, finishedInt, wakeInt, mtxInt, arrived, aborted>>

\* A thread blocked in a wait, woken, re-tests that wait's predicate
Retest(pc) == CASE pc = "waiting" -> "check"
                [] pc = "w1"      -> "c1"
                [] pc = "w2"      -> "c2"
                [] OTHER          -> pc

\* cv_worker.notify_all(): every thread blocked on cv_worker re-tests
Wakened == [w \in Workers |-> IF wpc[w] = "waiting" THEN "check" ELSE wpc[w]]

\* cv_int.notify_all() by the thread that also moves to pc
IntWakened(w, pc) ==
  [v \in Workers |-> IF v = w THEN pc
                    ELSE IF wpc[v] \in {"w1", "w2"} THEN Retest(wpc[v])
                    ELSE wpc[v]]

Notify ==
  /\ ~aborted
  /\ mpc \in {"notify", "fnotify"}
  /\ wpc' = Wakened
  /\ mpc' = IF mpc = "notify" THEN "spin" ELSE "join"
  /\ UNCHANGED <<bBuf, mi, job, ready, done, params, finishedNr, workerNr, mtx, ran,
                 tile, kernels, finishedInt, wakeInt, mtxInt, arrived, aborted>>

\* the spin ends and the dispatcher returns to mul_mat
Spin ==
  /\ ~aborted
  /\ mpc = "spin"
  /\ SpinDone
  /\ mpc' = "mmend"
  /\ UNCHANGED <<bBuf, mi, job, ready, done, params, finishedNr, workerNr, mtx, wpc, ran,
                 tile, kernels, finishedInt, wakeInt, mtxInt, arrived, aborted>>

\* ggml_backend_rknpu2_free: the master's own (empty) kernels; done = true
Free ==
  /\ ~aborted
  /\ mpc = "free"
  /\ done' = TRUE
  /\ mpc' = "fnotify"
  /\ UNCHANGED <<bBuf, mi, job, ready, params, finishedNr, workerNr, mtx, wpc, ran,
                 tile, kernels, finishedInt, wakeInt, mtxInt, arrived, aborted>>

\* thread.join() for every worker
Join ==
  /\ mpc = "join"
  /\ \A w \in Workers : wpc[w] = "gone"
  /\ mpc' = "end"
  /\ UNCHANGED <<bBuf, mi, job, ready, done, params, finishedNr, workerNr, mtx, wpc,
                 ran, tile, kernels, finishedInt, wakeInt, mtxInt, arrived, aborted>>

-----------------------------------------------------------------------------
(* A worker thread: worker(tid)                                            *)

\* cv_worker.wait(lock, pred) takes mtx and tests ready[tid] || done; true
\* returns (the lock is dropped), false goes on to block still holding mtx
Check(w) ==
  /\ ~aborted
  /\ wpc[w] = "check"
  /\ mtx = NoOne
  /\ IF ready[w] \/ done
       THEN wpc' = [wpc EXCEPT ![w] = "woke"] /\ UNCHANGED mtx
       ELSE wpc' = [wpc EXCEPT ![w] = "block"] /\ mtx' = w
  /\ UNCHANGED <<bBuf, mi, job, mpc, ready, done, params, finishedNr, workerNr, ran,
                 tile, kernels, finishedInt, wakeInt, mtxInt, arrived, aborted>>

\* ... the thread blocks on cv_worker and releases mtx
Block(w) ==
  /\ wpc[w] = "block"
  /\ wpc' = [wpc EXCEPT ![w] = "waiting"]
  /\ mtx' = NoOne
  /\ UNCHANGED <<bBuf, mi, job, mpc, ready, done, params, finishedNr, workerNr, ran,
                 tile, kernels, finishedInt, wakeInt, mtxInt, arrived, aborted>>

\* a spurious wakeup from cv_worker or cv_int: the thread re-tests the
\* predicate of its wait
Spurious(w) ==
  /\ ~aborted
  /\ wpc[w] \in {"waiting", "w1", "w2"}
  /\ wpc' = [wpc EXCEPT ![w] = Retest(wpc[w])]
  /\ UNCHANGED <<bBuf, mi, job, mpc, ready, done, params, finishedNr, workerNr, mtx,
                 ran, tile, kernels, finishedInt, wakeInt, mtxInt, arrived,
                 aborted>>

\* if (done) break; and the kernels of the thread are destroyed; else
\* p = params[tid], and if (p.m) mul_npu(...) else straight to finishing
Woke(w) ==
  /\ ~aborted
  /\ wpc[w] = "woke"
  /\ IF done
       THEN wpc' = [wpc EXCEPT ![w] = "gone"] /\ UNCHANGED <<ran, tile, arrived>>
       ELSE /\ ran' = [ran EXCEPT ![w] = params[w]]
            /\ tile' = [tile EXCEPT ![w] = 0]
            /\ arrived' = [arrived EXCEPT ![w] = 0]
            /\ wpc' = [wpc EXCEPT ![w] =
                         IF Jobs[params[w]].m # 0 THEN "kernel" ELSE "fin1"]
  /\ UNCHANGED <<bBuf, mi, job, mpc, ready, done, params, finishedNr, workerNr, mtx,
                 kernels, finishedInt, wakeInt, mtxInt, aborted>>

\* kernel_create on the pack's first use, then kernel_find(m, k, size_n)
\* and kernel_create when it is not found: GGML_ASSERT(matmul_kernels_count
\* < MAX), and the 32-alignment of n and k below the tile caps
KernelFails(w, key) ==
  \/ Cardinality(kernels[w]) >= MaxKernels
  \/ key[3] < 4096 /\ key[3] % 32 # 0
  \/ key[2] < 8192 /\ key[2] % 32 # 0

Kernel(w) ==
  /\ ~aborted
  /\ wpc[w] = "kernel"
  /\ LET key == Key(w, ran[w]) IN
       IF key \in kernels[w]
         THEN wpc' = [wpc EXCEPT ![w] = "run"] /\ UNCHANGED <<kernels, aborted>>
       ELSE IF KernelFails(w, key)
         THEN aborted' = TRUE /\ UNCHANGED <<wpc, kernels>>
       ELSE /\ kernels' = [kernels EXCEPT ![w] = @ \cup {key}]
            /\ wpc' = [wpc EXCEPT ![w] = "run"]
            /\ UNCHANGED aborted
  /\ UNCHANGED <<bBuf, mi, job, mpc, ready, done, params, finishedNr, workerNr, mtx,
                 ran, tile, finishedInt, wakeInt, mtxInt, arrived>>

\* the next tile (pk, pn): copy A and B, set_io_mem A, C, B, rknn_matmul_run;
\* then, under mtx_int, ++finished_int: the last resets wake_int and
\* notifies cv_int, the others block on cv_int
RunTile(w) ==
  /\ ~aborted
  /\ wpc[w] = "run"
  /\ tile[w] < Tiles(w, ran[w])
  /\ mtxInt = NoOne
  /\ finishedInt' = finishedInt + 1
  /\ arrived' = [arrived EXCEPT ![w] = @ + 1]
  /\ IF Last(finishedInt)
       THEN wpc' = IntWakened(w, "b2") /\ mtxInt' = w /\ wakeInt' = 0
       ELSE wpc' = [wpc EXCEPT ![w] = "w1"] /\ UNCHANGED <<mtxInt, wakeInt>>
  /\ UNCHANGED <<bBuf, mi, job, mpc, ready, done, params, finishedNr, workerNr, mtx,
                 ran, tile, kernels, aborted>>

\* the loops over pk and pn are done: mul_npu returns
EndSlice(w) ==
  /\ ~aborted
  /\ wpc[w] = "run"
  /\ tile[w] = Tiles(w, ran[w])
  /\ wpc' = [wpc EXCEPT ![w] = "fin1"]
  /\ UNCHANGED <<bBuf, mi, job, mpc, ready, done, params, finishedNr, workerNr, mtx,
                 ran, tile, kernels, finishedInt, wakeInt, mtxInt, arrived,
                 aborted>>

\* woken in cv_int.wait(lock, finished_int == worker_nr): it takes mtx_int
\* and returns holding it if the predicate holds, else blocks again
Phase1Wait(w) ==
  /\ ~aborted
  /\ wpc[w] = "c1"
  /\ mtxInt = NoOne
  /\ IF Open(finishedInt)
       THEN wpc' = [wpc EXCEPT ![w] = "b2"] /\ mtxInt' = w
       ELSE wpc' = [wpc EXCEPT ![w] = "w1"] /\ UNCHANGED mtxInt
  /\ UNCHANGED <<bBuf, mi, job, mpc, ready, done, params, finishedNr, workerNr, mtx,
                 ran, tile, kernels, finishedInt, wakeInt, arrived, aborted>>

\* ++wake_int: the last resets finished_int, notifies cv_int and leaves,
\* the others block on cv_int; either way mtx_int is released
Phase2(w) ==
  /\ ~aborted
  /\ wpc[w] = "b2"
  /\ wakeInt' = wakeInt + 1
  /\ mtxInt' = NoOne
  /\ IF Last(wakeInt)
       THEN finishedInt' = 0 /\ wpc' = IntWakened(w, "acc")
       ELSE wpc' = [wpc EXCEPT ![w] = "w2"] /\ UNCHANGED finishedInt
  /\ UNCHANGED <<bBuf, mi, job, mpc, ready, done, params, finishedNr, workerNr, mtx,
                 ran, tile, kernels, arrived, aborted>>

\* woken in cv_int.wait(lock, wake_int == worker_nr): it leaves the barrier
\* (dropping mtx_int) if the predicate holds, else blocks again
Phase2Wait(w) ==
  /\ ~aborted
  /\ wpc[w] = "c2"
  /\ mtxInt = NoOne
  /\ wpc' = [wpc EXCEPT ![w] = IF Open(wakeInt) THEN "acc" ELSE "w2"]
  /\ UNCHANGED <<bBuf, mi, job, mpc, ready, done, params, finishedNr, workerNr, mtx,
                 ran, tile, kernels, finishedInt, wakeInt, mtxInt, arrived,
                 aborted>>

\* C[i * n + jj] += data[i * N + j] over the tile's columns
Accumulate(w) ==
  /\ ~aborted
  /\ wpc[w] = "acc"
  /\ tile' = [tile EXCEPT ![w] = @ + 1]
  /\ wpc' = [wpc EXCEPT ![w] = "run"]
  /\ UNCHANGED <<bBuf, mi, job, mpc, ready, done, params, finishedNr, workerNr, mtx,
                 ran, kernels, finishedInt, wakeInt, mtxInt, arrived, aborted>>

\* lock_guard(mtx); finished_nr++ ...
Finish1(w) ==
  /\ ~aborted
  /\ wpc[w] = "fin1"
  /\ mtx = NoOne
  /\ mtx' = w
  /\ finishedNr' = finishedNr + 1
  /\ wpc' = [wpc EXCEPT ![w] = "fin2"]
  /\ UNCHANGED <<bBuf, mi, job, mpc, ready, done, params, workerNr, ran, tile,
                 kernels, finishedInt, wakeInt, mtxInt, arrived, aborted>>

\* ... ready[tid] = false; the lock is dropped and the loop starts again
Finish2(w) ==
  /\ ~aborted
  /\ wpc[w] = "fin2"
  /\ ready' = [ready EXCEPT ![w] = FALSE]
  /\ mtx' = NoOne
  /\ wpc' = [wpc EXCEPT ![w] = "check"]
  /\ UNCHANGED <<bBuf, mi, job, mpc, done, params, finishedNr, workerNr, ran, tile,
                 kernels, finishedInt, wakeInt, mtxInt, arrived, aborted>>

-----------------------------------------------------------------------------

\* The globals are zero-initialised; the threads are created by the first
\* dispatcher call (call_once) before it sets any ready flag, so they start
\* at the top of their loop.
Init ==
  /\ mpc = "node" /\ mi = 0 /\ job = 1 /\ bBuf = "none"
  /\ ready = [w \in Workers |-> FALSE] /\ done = FALSE
  /\ params = [w \in Workers |-> NoJob]
  /\ finishedNr = 0 /\ workerNr = 0 /\ mtx = NoOne
  /\ wpc = [w \in Workers |-> "check"]
  /\ ran = [w \in Workers |-> NoJob]
  /\ tile = [w \in Workers |-> 0]
  /\ kernels = [w \in Workers |-> {}]
  /\ finishedInt = 0 /\ wakeInt = 0 /\ mtxInt = NoOne
  /\ arrived = [w \in Workers |-> 0]
  /\ aborted = FALSE

Master == MulMat \/ OtherNode \/ MulMatEnd \/ MasterStart \/ Assign \/ SetWorkerNr \/ Notify \/ Spin \/ Free \/ Join

Worker(w) ==
  \/ Check(w) \/ Block(w) \/ Woke(w) \/ Kernel(w) \/ RunTile(w) \/ EndSlice(w)
  \/ Phase1Wait(w) \/ Phase2(w) \/ Phase2Wait(w) \/ Accumulate(w)
  \/ Finish1(w) \/ Finish2(w)

Next == Master \/ \E w \in Workers : Worker(w) \/ Spurious(w)

\* Every thread that can step eventually does (the workers run SCHED_FIFO on
\* their own cores); a blocked thread is woken by a notify, never by fairness.
Fairness == WF_vars(Master) /\ \A w \in Workers : WF_vars(Worker(w))

Spec == Init /\ [][Next]_vars /\ Fairness

-----------------------------------------------------------------------------
(* Properties                                                              *)

Steps == {"check", "block", "waiting", "woke", "kernel", "run", "w1", "c1", "b2",
          "w2", "c2", "acc", "fin1", "fin2", "gone"}

TypeOK ==
  /\ mpc \in {"node", "mmend", "start", "assign", "setnr", "notify", "spin", "free", "fnotify",
              "join", "end"}
  /\ job \in 1..Len(Jobs) /\ mi \in Workers
  /\ ready \in [Workers -> BOOLEAN] /\ done \in BOOLEAN
  /\ params \in [Workers -> 0..Len(Jobs)] /\ ran \in [Workers -> 0..Len(Jobs)]
  /\ finishedNr \in 0..ThreadNr /\ workerNr \in 0..ThreadNr
  /\ mtx \in Workers \cup {NoOne} /\ mtxInt \in Workers \cup {NoOne}
  /\ wpc \in [Workers -> Steps]
  /\ finishedInt \in 0..ThreadNr /\ wakeInt \in 0..ThreadNr
  /\ aborted \in BOOLEAN
  /\ bBuf \in {"none", "unset", "weights", "malloc", "bad_free", "leaked"}

\* A worker leaves the barrier of a tile only after every worker of the
\* call has reached that tile's barrier: mtx_int, finished_int and wake_int
\* make the NPU runs of the THREAD_NR cores proceed in lockstep.
BarrierHolds ==
  \A w \in Workers :
    wpc[w] = "acc" =>
      \A v \in Workers : ran[v] = ran[w] /\ arrived[v] >= arrived[w]

\* A worker blocked on cv_int in the barrier always has
\* another worker of the same call, not blocked itself, that can still
\* arrive and release it: one inside mul_npu, one handed the slice that has
\* not taken it yet, or one the dispatcher's loop has still to reach.  Otherwise it, and the
\* master spinning on finished_nr, hang for good.
Partner(v, j) ==
  \/ ran[v] = j /\ wpc[v] \in InSlice
  \/ params[v] = j /\ ran[v] # j
  \/ mpc = "assign" /\ job = j /\ v <= mi

Stuck(w) == wpc[w] \in {"w1", "w2"}

BarrierPartnerPresent ==
  \A w \in Workers :
    Stuck(w) => \E v \in Workers \ {w} : Partner(v, ran[w]) /\ ~Stuck(v)

\* When the dispatcher's spin on finished_nr ends, every worker has added
\* every tile of its slice of this call into C: the caller reads C next.
MasterWaitsForAll ==
  [][mpc = "spin" /\ mpc' # "spin" =>
       \A w \in Workers : ran[w] = job /\ tile[w] = Tiles(w, job)]_vars

\* The B that mul_mat hands the dispatcher lives exactly as long as the
\* workers use it: while a worker runs its slice of a node with quantised
\* weights, B is the malloc'd F32 copy, and after every node mul_mat has
\* freed what it malloc'd and nothing else (the type tests of the
\* conversion and of the free are written separately).
ConvertedBLifetime ==
  /\ \A w \in Workers :
       wpc[w] \in InSlice \ {"woke"} /\ BufferOfB(Jobs[ran[w]].type) = "malloc" => bBuf = "malloc"
  /\ mpc \in {"node", "free", "fnotify", "join", "end"} => bBuf \notin {"malloc", "bad_free", "leaked"}

\* Once every dispatcher call has returned, ggml_backend_rknpu2_free sets
\* done, wakes the workers and joins all of them.
FreeJoins == (mpc = "free") ~> (mpc = "end")

=============================================================================
