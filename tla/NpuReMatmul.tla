----------------------------- MODULE NpuReMatmul -----------------------------
(***************************************************************************)
(* The matmul of src/ggml/src/ggml-rknpu-re.cpp, which drives the NPU      *)
(* registers itself.  A MUL_MAT runs as four phases, each called by every  *)
(* one of nth compute threads (ith = 0 .. nth-1):                          *)
(*   rknpu2_matmul_pre0    ith 0 finds or creates the matmul_kernel (its   *)
(*                         (M, N, K) partition, A and C buffers and NPU    *)
(*                         tasks), zeroes dst and resets the buffers'      *)
(*                         work counters;                                  *)
(*   rknpu2_matmul_pre1    all threads convert rows of A into the input    *)
(*                         buffers, sharing the rows of a buffer through   *)
(*                         pre1_cnt.fetch_add(1);                          *)
(*   rknpu2_matmul_submit  ith 0 hands the tasks to the THREAD_NR NPU      *)
(*                         worker threads (npu_worker) through ready[],    *)
(*                         cv_worker and finished_nr, and spins;           *)
(*   rknpu2_matmul_post    all threads add rows of the output buffers into *)
(*                         dst, sharing rows through post_cnt.fetch_add(1).*)
(* The caller separates the phases by a barrier of its compute threads;   *)
(* in this repository ggml_backend_rknpu2_mul_mat calls them with nth = 1. *)
(* Row data is abstracted: a converted row is counted, and a cell of dst  *)
(* (a row ii and the columns of one nn tile) counts the partial products  *)
(* added into it.  MAT_COPY is not defined, so there are no weight         *)
(* buffers to fill, and pre_scale is never called.                         *)
(***************************************************************************)
EXTENDS Integers, Sequences, FiniteSets, SequencesExt

CONSTANTS
  Nth,          \* nth: compute threads running the phases
  ThreadNr,     \* THREAD_NR = NPU_CORE_NUM: NPU worker threads
  Calls         \* the MUL_MATs, in order: a sequence of [m, k, n, type]

\* ggml_backend_rknpure_supports_op, for a MUL_MAT with contiguous sources
\* and F32 src1 and dst, outside strawman: k and n below 50000 (the
\* checks after its first return true are dead code)
SupportsOp(c) == Calls[c].k < 50000 /\ Calls[c].n < 50000

\* Calls are MUL_MAT nodes the scheduler gave this backend; src0's type is
\* one of those a GGUF model's weights have
ASSUME Nth \in Nat \ {0} /\ ThreadNr \in 1..3
ASSUME \A c \in 1..Len(Calls) :
         /\ SupportsOp(c)
         /\ Calls[c].type \in {"f16", "q8_0", "f32", "q4_0"}
         /\ Calls[c].n \div ThreadNr > 0 /\ Calls[c].m > 0 /\ Calls[c].k > 0

Threads == 0..Nth-1
Workers == 0..ThreadNr-1
NoOne   == -1

-----------------------------------------------------------------------------
(* The partition of a matmul_kernel (pure)                                 *)

\* matmul_kernel::partition: split num into div parts of at most max,
\* rounded up to align; GGML_ASSERT(part <= max && part % align == 0)
Partition(num, max, align) ==
  LET div == (num + max - 1) \div max
  IN  (((num + div - 1) \div div + align - 1) \div align) * align

PartitionOK(num, max, align) ==
  Partition(num, max, align) <= max /\ Partition(num, max, align) % align = 0

\* The measured row caps of the constructor: M = min(m, cap) for the first
\* K <= bound, else the last cap
F32Caps ==
  << <<416, 384>>, <<448, 364>>, <<480, 340>>, <<512, 352>>, <<544, 300>>,
     <<576, 284>>, <<608, 268>>, <<640, 256>>, <<736, 220>>, <<768, 212>>,
     <<800, 204>>, <<832, 196>>, <<864, 188>>, <<896, 180>>, <<928, 176>>,
     <<960, 168>>, <<992, 164>>, <<1024, 176>>, <<1056, 152>>, <<1088, 148>>,
     <<1120, 128>>, <<1152, 140>>, <<1184, 124>>, <<1216, 120>>,
     <<1248, 116>>, <<1280, 128>>, <<1312, 112>>, <<1344, 108>>,
     <<1408, 104>>, <<1472, 100>>, <<1504, 96>>, <<1536, 100>>, <<1600, 92>>,
     <<1664, 88>>, <<1728, 84>>, <<1824, 80>>, <<1920, 76>>, <<2016, 72>>,
     <<2048, 80>>, <<2112, 68>>, <<2144, 60>>, <<2176, 64>>, <<2272, 56>>,
     <<2304, 64>>, <<2336, 56>>, <<2496, 52>>, <<2528, 48>>, <<2560, 56>>,
     <<2720, 48>>, <<2976, 44>>, <<3040, 40>>, <<3072, 48>>, <<3136, 40>>,
     <<3168, 36>>, <<3200, 40>>, <<3296, 32>>, <<3328, 36>>, <<3552, 32>>,
     <<3584, 36>>, <<4064, 28>> >>

I8Caps ==
  << <<576, 544>>, <<768, 424>>, <<960, 340>>, <<992, 320>>, <<1024, 352>>,
     <<1280, 256>>, <<1472, 200>>, <<1504, 192>>, <<1536, 212>>,
     <<1984, 148>>, <<2016, 144>>, <<2048, 160>>, <<2528, 100>>,
     <<2560, 112>>, <<3040, 84>>, <<3072, 96>>, <<3552, 64>>, <<3584, 72>>,
     <<4064, 56>> >>

RowCap(type, K) ==
  LET tab == IF type = "f16" THEN F32Caps ELSE I8Caps
      i   == SelectInSeq(tab, LAMBDA e : K <= e[1])
  IN  IF i # 0 THEN tab[i][2] ELSE IF type = "f16" THEN 32 ELSE 64

\* N, K and M of the kernel for a call (type f16 is RKNN_TENSOR_FLOAT32,
\* q8_0 is RKNN_TENSOR_INT8); M is rounded up to a multiple of 4 unless 1
ShapeOf(c) ==
  LET m == Calls[c].m  k == Calls[c].k  n == Calls[c].n
      N == Partition(n \div ThreadNr, 4096, 32)
      K == Partition(k, 4096, 32)
      M0 == IF m < RowCap(Calls[c].type, K) THEN m ELSE RowCap(Calls[c].type, K)
  IN  [N |-> N, K |-> K, M |-> IF M0 # 1 /\ M0 % 4 # 0 THEN ((M0 + 3) \div 4) * 4
                                                     ELSE M0]

\* The shapes, computed once for all calls
ShapeTab == [c \in 1..Len(Calls) |-> ShapeOf(c)]
Shape(c) == ShapeTab[c]

\* for (x = 0; x < total; x += step)
Starts(total, step) == {i * step : i \in 0..((total - 1) \div step)}

\* The buffer keys of matmul_buffer_mgr, and the tiles of A_bufs and C_bufs
ABufs(c) == <<Shape(c).M, Shape(c).K, Calls[c].m, Calls[c].k, Calls[c].type>>
CBufs(c) == <<Shape(c).M, Shape(c).K, Shape(c).N, Calls[c].m, Calls[c].k,
              Calls[c].n, Calls[c].type>>
Inputs(c) == {<<ABufs(c), mm, kk>> : mm \in Starts(Calls[c].m, Shape(c).M),
                                     kk \in Starts(Calls[c].k, Shape(c).K)}
Outputs(c) == {<<CBufs(c), mm, nn, kk>> :
                 mm \in Starts(Calls[c].m, Shape(c).M),
                 nn \in Starts(Calls[c].n, Shape(c).N),
                 kk \in Starts(Calls[c].k, Shape(c).K)}

\* std::map order of the tiles, in which for_all_inputs/outputs visit them
TileBefore(a, b) ==
  LET x == SubSeq(a, 2, Len(a))  y == SubSeq(b, 2, Len(b)) IN
  \E i \in 1..Len(x) : x[i] < y[i] /\ \A j \in 1..i-1 : x[j] = y[j]
InputSeq  == [c \in 1..Len(Calls) |-> SetToSortSeq(Inputs(c), TileBefore)]
OutputSeq == [c \in 1..Len(Calls) |-> SetToSortSeq(Outputs(c), TileBefore)]

\* The constructor's loops group the nn tiles of each (kk, mm) into
\* npu_task_multi_core groups of NPU_CORE_NUM; to_multi_npu gives the i-th
\* task of every group to NPU thread i, in kk, mm, nn order
NpuOrder(a, b) == TileBefore(<<0, a[4], a[2], a[3]>>, <<0, b[4], b[2], b[3]>>)
TasksOf == [c \in 1..Len(Calls), w \in Workers |->
  SetToSortSeq({o \in Outputs(c) : (o[3] \div Shape(c).N) % ThreadNr = w},
               NpuOrder)]

\* The dst cells a call writes: row ii and the columns of tile nn
Cells(c) == (0..Calls[c].m - 1) \X Starts(Calls[c].n, Shape(c).N)

AllInputs  == UNION {Inputs(c)  : c \in 1..Len(Calls)}
AllOutputs == UNION {Outputs(c) : c \in 1..Len(Calls)}
KeyOf(c) == <<Calls[c].m, Calls[c].k, Calls[c].n, Calls[c].type>>

RowIdx == 0..Max({Shape(c).M : c \in 1..Len(Calls)}) - 1

\* Row i of tile mm exists in the call: i < M, and ii = mm + i < m
RowIn(c, mm, i) == i < Shape(c).M /\ mm + i < Calls[c].m
Rows(c) == {<<t, i>> \in Inputs(c) \X (0..Shape(c).M - 1) : RowIn(c, t[2], i)}

VARIABLES
  call,         \* the MUL_MAT being computed
  cpc,          \* compute thread: phase and step
  pos,          \* compute thread: index of the tile in for_all_inputs/outputs
  cell,         \* compute thread: the dst cell of the row it is adding
  val,          \* compute thread: the value of that cell it read
  cleared,      \* pre0's static bool cleared
  kernels,      \* keys <<m, k, n, type>> of matmul_kernels
  dst,          \* dst cells: partial products added
  pre1Cnt,      \* pre1_cnt of each input buffer
  postCnt,      \* post_cnt of each output buffer
  conv,         \* ghost: conversions of each <<input tile, row>>
  widx,         \* NPU thread: index of its next task in npu_tasks[tid]
  finish,       \* std::atomic<bool> finish
  computed,     \* output buffers the NPU has written for this call
  npuTasks,     \* npu_tasks[tid]
  ready, done, finishedNr, mtx, wpc,
  aborted       \* a GGML_ASSERT failed

vars == <<call, cpc, pos, cell, val, cleared, kernels, dst, pre1Cnt, postCnt,
          conv, widx, finish, computed, npuTasks, ready, done, finishedNr, mtx,
          wpc, aborted>>

\* Fault variant of ResetCnt: the counters keep their values
ResetCnt_none(cnt, mems) == cnt

\* rknn_mem::reset_cnt on every buffer of the kernel
ResetCnt(cnt, mems) == [x \in DOMAIN cnt |-> IF x \in mems THEN 0 ELSE cnt[x]]

\* Fault variant of SpinDone: one worker short
SpinDone_early == finishedNr >= ThreadNr - 1

\* while (finished_nr.load() != THREAD_NR) relax
SpinDone == finishedNr = ThreadNr

\* Fault variant of Memset: dst keeps what an earlier MUL_MAT left in it
Memset_none(d, c) == [x \in Cells(c) |-> IF x \in DOMAIN d THEN d[x] ELSE 0]

\* memset(dst->data, 0, m * n * sizeof(float))
Memset(d, c) == [x \in Cells(c) |-> 0]

-----------------------------------------------------------------------------
(* rknpu2_matmul_pre0                                                      *)

\* ith 0: on the first call with m == 1 clear matmul_kernels and the buffer
\* manager; assert src0 is F16 or Q8_0; kernel_create; memset(dst);
\* reset_cnt of inputs and outputs.
\* The other threads have nothing to do.
Pre0(t) ==
  /\ ~aborted
  /\ cpc[t] = "pre0"
  /\ cpc' = [cpc EXCEPT ![t] = "b0"]
  /\ IF t # 0
       THEN UNCHANGED <<cleared, kernels, dst, pre1Cnt, postCnt, conv, aborted>>
     ELSE IF Calls[call].type \notin {"f16", "q8_0"}  \* GGML_TYPE_F16 or Q8_0
             \/ ~PartitionOK(Calls[call].n \div ThreadNr, 4096, 32)
             \/ ~PartitionOK(Calls[call].k, 4096, 32)
       THEN aborted' = TRUE
            /\ UNCHANGED <<cleared, kernels, dst, pre1Cnt, postCnt, conv>>
     ELSE LET clear == Calls[call].m = 1 /\ ~cleared IN
          /\ cleared' = (cleared \/ clear)
          /\ kernels' = (IF clear THEN {} ELSE kernels) \cup {KeyOf(call)}
          /\ dst' = Memset(dst, call)
          /\ pre1Cnt' = ResetCnt(pre1Cnt, Inputs(call))
          /\ postCnt' = ResetCnt(postCnt, Outputs(call))
          /\ conv' = [x \in AllInputs \X RowIdx |-> 0]
          /\ UNCHANGED aborted
  /\ UNCHANGED <<call, pos, cell, val, widx, finish, computed, npuTasks, ready,
                 done, finishedNr, mtx, wpc>>

-----------------------------------------------------------------------------
(* rknpu2_matmul_pre1: for_all_inputs, rows shared through pre1_cnt        *)

\* GGML_ASSERT(k % 8 == 0) for FLOAT32, (k % 16 == 0) for INT8
AlignOK(c) == Calls[c].k % (IF Calls[c].type = "f16" THEN 8 ELSE 16) = 0

\* for (i = pre1_cnt.fetch_add(1); i < M; i = pre1_cnt.fetch_add(1)) {
\*   if (mm + i >= m) break;  convert row i }
\* and, after the last buffer, finish = false
Pre1(t) ==
  /\ ~aborted
  /\ cpc[t] = "pre1"
  /\ IF ~AlignOK(call)
       THEN aborted' = TRUE /\ UNCHANGED <<cpc, pos, pre1Cnt, conv, finish>>
     ELSE IF pos[t] > Len(InputSeq[call])
       THEN /\ cpc' = [cpc EXCEPT ![t] = "b1"] /\ finish' = FALSE
            /\ UNCHANGED <<pos, pre1Cnt, conv, aborted>>
     ELSE LET x == InputSeq[call][pos[t]]
              i == pre1Cnt[x] IN
          /\ pre1Cnt' = [pre1Cnt EXCEPT ![x] = i + 1]
          /\ IF RowIn(call, x[2], i)
               THEN conv' = [conv EXCEPT ![<<x, i>>] = @ + 1] /\ UNCHANGED pos
               ELSE pos' = [pos EXCEPT ![t] = @ + 1] /\ UNCHANGED conv
          /\ UNCHANGED <<cpc, finish, aborted>>
  /\ UNCHANGED <<call, cell, val, cleared, kernels, dst, postCnt, widx,
                 computed, npuTasks, ready, done, finishedNr, mtx, wpc>>

-----------------------------------------------------------------------------
(* rknpu2_matmul_submit                                                    *)

\* ith != 0 returns at once
SubmitOther(t) ==
  /\ ~aborted
  /\ t # 0 /\ cpc[t] = "submit"
  /\ cpc' = [cpc EXCEPT ![t] = "b2"]
  /\ UNCHANGED <<call, pos, cell, val, cleared, kernels, dst, pre1Cnt, postCnt,
                 conv, widx, finish, computed, npuTasks, ready, done,
                 finishedNr, mtx, wpc, aborted>>

\* ith 0: kernel_find (asserted); npu_tasks[i] = to_multi_npu(THREAD_NR)[i]
SubmitStart ==
  /\ ~aborted
  /\ cpc[0] = "submit"
  /\ IF KeyOf(call) \notin kernels
       THEN aborted' = TRUE /\ UNCHANGED <<cpc, npuTasks, computed>>
       ELSE /\ npuTasks' = [w \in Workers |-> TasksOf[call, w]]
            /\ computed' = {}
            /\ cpc' = [cpc EXCEPT ![0] = "once"]
            /\ UNCHANGED aborted
  /\ UNCHANGED <<call, pos, cell, val, cleared, kernels, dst, pre1Cnt, postCnt,
                 conv, widx, finish, ready, done, finishedNr, mtx, wpc>>

\* Fault variant of SetReady: finished_nr is not reset
SetReady_noReset ==
  /\ ~aborted
  /\ cpc[0] = "ready"
  /\ ready' = [w \in Workers |-> TRUE]
  /\ cpc' = [cpc EXCEPT ![0] = "snotify"]
  /\ UNCHANGED <<call, pos, cell, val, cleared, kernels, dst, pre1Cnt, postCnt,
                 conv, widx, finish, computed, npuTasks, done, mtx, wpc,
                 aborted, finishedNr>>

\* finished_nr = 0; ready[i] = true for every i (without taking mtx)
SetReady ==
  /\ ~aborted
  /\ cpc[0] = "ready"
  /\ finishedNr' = 0
  /\ ready' = [w \in Workers |-> TRUE]
  /\ cpc' = [cpc EXCEPT ![0] = "snotify"]
  /\ UNCHANGED <<call, pos, cell, val, cleared, kernels, dst, pre1Cnt, postCnt,
                 conv, widx, finish, computed, npuTasks, done, mtx, wpc,
                 aborted>>

\* cv_worker.notify_all(): the NPU threads blocked on cv_worker re-test
Wakened == [w \in Workers |-> IF wpc[w] = "waiting" THEN "check" ELSE wpc[w]]

\* cv_worker.notify_all() in submit and in free
Notify ==
  /\ ~aborted
  /\ cpc[0] \in {"snotify", "fnotify"}
  /\ wpc' = Wakened
  /\ cpc' = [cpc EXCEPT ![0] = IF cpc[0] = "snotify" THEN "sspin" ELSE "join"]
  /\ UNCHANGED <<call, pos, cell, val, cleared, kernels, dst, pre1Cnt, postCnt,
                 conv, widx, finish, computed, npuTasks, ready, done,
                 finishedNr, mtx, aborted>>

\* the spin on finished_nr ends; npu_tasks[i].clear(); finish = true
SubmitSpin ==
  /\ ~aborted
  /\ cpc[0] = "sspin"
  /\ SpinDone
  /\ npuTasks' = [w \in Workers |-> <<>>]
  /\ finish' = TRUE
  /\ cpc' = [cpc EXCEPT ![0] = "b2"]
  /\ UNCHANGED <<call, pos, cell, val, cleared, kernels, dst, pre1Cnt, postCnt,
                 conv, widx, computed, ready, done, finishedNr, mtx, wpc,
                 aborted>>

-----------------------------------------------------------------------------
(* rknpu2_matmul_post: for_all_outputs, rows shared through post_cnt       *)

\* i = post_cnt.fetch_add(1); a row of the call (GGML_ASSERT(n % 4 == 0))
\* is added into dst: the thread reads C[ii * n + jj] ...
Post(t) ==
  /\ ~aborted
  /\ cpc[t] = "post"
  /\ IF Calls[call].n % 4 # 0
       THEN aborted' = TRUE /\ UNCHANGED <<cpc, pos, postCnt, cell, val>>
     ELSE IF pos[t] > Len(OutputSeq[call])
       THEN cpc' = [cpc EXCEPT ![t] = "b3"]
            /\ UNCHANGED <<pos, postCnt, cell, val, aborted>>
     ELSE LET x == OutputSeq[call][pos[t]]
              i == postCnt[x] IN
          /\ postCnt' = [postCnt EXCEPT ![x] = i + 1]
          /\ IF RowIn(call, x[2], i)
               THEN /\ cell' = [cell EXCEPT ![t] = <<x, x[2] + i>>]
                    /\ val' = [val EXCEPT ![t] = dst[<<x[2] + i, x[3]>>]]
                    /\ cpc' = [cpc EXCEPT ![t] = "padd"]
                    /\ UNCHANGED pos
               ELSE pos' = [pos EXCEPT ![t] = @ + 1] /\ UNCHANGED <<cpc, cell, val>>
          /\ UNCHANGED aborted
  /\ UNCHANGED <<call, cleared, kernels, dst, pre1Cnt, conv, widx, finish,
                 computed, npuTasks, ready, done, finishedNr, mtx, wpc>>

\* ... and writes it back plus the output buffer's partial product
PostAdd(t) ==
  /\ ~aborted
  /\ cpc[t] = "padd"
  /\ dst' = [dst EXCEPT ![<<cell[t][2], cell[t][1][3]>>] = val[t] + 1]
  /\ cpc' = [cpc EXCEPT ![t] = "post"]
  /\ UNCHANGED <<call, pos, cell, val, cleared, kernels, pre1Cnt, postCnt, conv,
                 widx, finish, computed, npuTasks, ready, done, finishedNr,
                 mtx, wpc, aborted>>

-----------------------------------------------------------------------------
(* The phases in order, then the backend's free                            *)

Phase == [b0 |-> "pre1", b1 |-> "submit", b2 |-> "post"]

\* ggml_backend_rknpu2_graph_compute's loop: on to the next MUL_MAT node
\* (the NONE, RESHAPE and VIEW nodes between do nothing); after the last
\* node the backend is freed by thread 0
NextCall ==
  IF call < Len(Calls)
    THEN cpc' = [t \in Threads |-> "pre0"] /\ call' = call + 1
    ELSE cpc' = [t \in Threads |-> IF t = 0 THEN "free" ELSE "end"]
         /\ UNCHANGED call

\* ggml_backend_rknpu2_mul_mat runs pre0, pre1, submit and post in turn, and
\* graph_compute the MUL_MATs in turn; every compute thread has finished a
\* phase before any starts the next.  After the last one the backend is
\* freed by thread 0.
PhaseBarrier ==
  /\ ~aborted
  /\ \E b \in {"b0", "b1", "b2", "b3"} :
       /\ \A t \in Threads : cpc[t] = b
       /\ pos' = [t \in Threads |-> 1]
       /\ IF b # "b3"
            THEN cpc' = [t \in Threads |-> Phase[b]] /\ UNCHANGED call
            ELSE NextCall
  /\ UNCHANGED <<cell, val, cleared, kernels, dst, pre1Cnt, postCnt, conv, widx,
                 finish, computed, npuTasks, ready, done, finishedNr, mtx, wpc,
                 aborted>>

\* ggml_backend_rknpu2_free: matmul_kernels.clear(); done = true; then
\* cv_worker.notify_all() (Notify)
Free ==
  /\ ~aborted
  /\ cpc[0] = "free"
  /\ kernels' = {}
  /\ done' = TRUE
  /\ cpc' = [cpc EXCEPT ![0] = "fnotify"]
  /\ UNCHANGED <<call, pos, cell, val, cleared, dst, pre1Cnt, postCnt, conv,
                 widx, finish, computed, npuTasks, ready, finishedNr, mtx, wpc,
                 aborted>>

\* thread.join() for every NPU thread that was started
Join ==
  /\ ~aborted
  /\ cpc[0] = "join"
  /\ \A w \in Workers : wpc[w] \in {"none", "gone"}
  /\ cpc' = [cpc EXCEPT ![0] = "end"]
  /\ UNCHANGED <<call, pos, cell, val, cleared, kernels, dst, pre1Cnt, postCnt,
                 conv, widx, finish, computed, npuTasks, ready, done,
                 finishedNr, mtx, wpc, aborted>>

-----------------------------------------------------------------------------
(* npu_worker(tid)                                                         *)

\* std::call_once(once_flag, init_npu_thread, THREAD_NR): the first submit
\* starts the NPU threads at the top of their loop
Spawn ==
  /\ ~aborted
  /\ cpc[0] = "once"
  /\ wpc' = [w \in Workers |-> IF wpc[w] = "none" THEN "check" ELSE wpc[w]]
  /\ cpc' = [cpc EXCEPT ![0] = "ready"]
  /\ UNCHANGED <<call, pos, cell, val, cleared, kernels, dst, pre1Cnt,
                 postCnt, conv, widx, finish, computed, npuTasks, ready, done,
                 finishedNr, mtx, aborted>>

\* cv_worker.wait(lock, [tid]{ return ready[tid] || done; }): the thread
\* takes mtx and tests the predicate; true: it returns and drops the lock ...
Check(w) ==
  /\ ~aborted
  /\ wpc[w] = "check"
  /\ mtx = NoOne
  /\ IF ready[w] \/ done
       THEN wpc' = [wpc EXCEPT ![w] = "woke"] /\ UNCHANGED mtx
       ELSE wpc' = [wpc EXCEPT ![w] = "block"] /\ mtx' = w
  /\ UNCHANGED <<call, cpc, pos, cell, val, cleared, kernels, dst, pre1Cnt,
                 postCnt, conv, widx, finish, computed, npuTasks, ready, done,
                 finishedNr, aborted>>

\* ... false: it blocks on cv_worker, releasing mtx
Block(w) ==
  /\ wpc[w] = "block"
  /\ wpc' = [wpc EXCEPT ![w] = "waiting"]
  /\ mtx' = NoOne
  /\ UNCHANGED <<call, cpc, pos, cell, val, cleared, kernels, dst, pre1Cnt,
                 postCnt, conv, widx, finish, computed, npuTasks, ready, done,
                 finishedNr, aborted>>

\* a spurious wakeup: the thread re-tests the predicate
Spurious(w) ==
  /\ ~aborted
  /\ wpc[w] = "waiting"
  /\ wpc' = [wpc EXCEPT ![w] = "check"]
  /\ UNCHANGED <<call, cpc, pos, cell, val, cleared, kernels, dst, pre1Cnt,
                 postCnt, conv, widx, finish, computed, npuTasks, ready, done,
                 finishedNr, mtx, aborted>>

\* if (done) break; else iterate over npu_tasks[tid]
Woke(w) ==
  /\ ~aborted
  /\ wpc[w] = "woke"
  /\ wpc' = [wpc EXCEPT ![w] = IF done THEN "gone" ELSE "run"]
  /\ widx' = [widx EXCEPT ![w] = 1]
  /\ UNCHANGED <<call, cpc, pos, cell, val, cleared, kernels, dst, pre1Cnt,
                 postCnt, conv, finish, computed, npuTasks, ready, done,
                 finishedNr, mtx, aborted>>

\* task->apply_scale(); task->submit(core_mask): the NPU writes the task's
\* output buffer
Run(w) ==
  /\ ~aborted
  /\ wpc[w] = "run"
  /\ IF widx[w] <= Len(npuTasks[w])
       THEN /\ computed' = computed \cup {npuTasks[w][widx[w]]}
            /\ widx' = [widx EXCEPT ![w] = @ + 1]
            /\ UNCHANGED wpc
       ELSE wpc' = [wpc EXCEPT ![w] = "fin1"] /\ UNCHANGED <<computed, widx>>
  /\ UNCHANGED <<call, cpc, pos, cell, val, cleared, kernels, dst, pre1Cnt,
                 postCnt, conv, finish, npuTasks, ready, done, finishedNr, mtx,
                 aborted>>

\* lock_guard(mtx); finished_nr++ ...
Finish1(w) ==
  /\ ~aborted
  /\ wpc[w] = "fin1"
  /\ mtx = NoOne
  /\ mtx' = w
  /\ finishedNr' = finishedNr + 1
  /\ wpc' = [wpc EXCEPT ![w] = "fin2"]
  /\ UNCHANGED <<call, cpc, pos, cell, val, cleared, kernels, dst, pre1Cnt,
                 postCnt, conv, widx, finish, computed, npuTasks, ready, done,
                 aborted>>

\* ... ready[tid] = false; cv_master.notify_one() (nobody waits on it); the
\* lock is dropped and the loop starts again
Finish2(w) ==
  /\ ~aborted
  /\ wpc[w] = "fin2"
  /\ ready' = [ready EXCEPT ![w] = FALSE]
  /\ mtx' = NoOne
  /\ wpc' = [wpc EXCEPT ![w] = "check"]
  /\ UNCHANGED <<call, cpc, pos, cell, val, cleared, kernels, dst, pre1Cnt,
                 postCnt, conv, widx, finish, computed, npuTasks, done,
                 finishedNr, aborted>>

-----------------------------------------------------------------------------

\* Globals are zero-initialised; the NPU threads do not exist before the
\* first submit.  The counters of a new rknn_mem are indeterminate, and
\* pre0 resets them before use; 0 is taken here.
Init ==
  /\ call = 1
  /\ cpc = [t \in Threads |-> "pre0"]
  /\ pos = [t \in Threads |-> 1]
  /\ cell = [t \in Threads |-> <<>>]
  /\ val = [t \in Threads |-> 0]
  /\ cleared = FALSE
  /\ kernels = {}
  /\ dst = [x \in Cells(1) |-> 0]
  /\ pre1Cnt = [x \in AllInputs |-> 0]
  /\ postCnt = [x \in AllOutputs |-> 0]
  /\ conv = [x \in AllInputs \X RowIdx |-> 0]
  /\ widx = [w \in Workers |-> 1]
  /\ finish = FALSE
  /\ computed = {}
  /\ npuTasks = [w \in Workers |-> <<>>]
  /\ ready = [w \in Workers |-> FALSE]
  /\ done = FALSE
  /\ finishedNr = 0
  /\ mtx = NoOne
  /\ wpc = [w \in Workers |-> "none"]
  /\ aborted = FALSE

Compute(t) == Pre0(t) \/ Pre1(t) \/ SubmitOther(t) \/ Post(t) \/ PostAdd(t)
Master == SubmitStart \/ Spawn \/ SetReady \/ Notify \/ SubmitSpin \/ Free \/ Join
Worker(w) == Check(w) \/ Block(w) \/ Woke(w) \/ Run(w) \/ Finish1(w)
               \/ Finish2(w)

Next ==
  \/ PhaseBarrier \/ Master
  \/ \E t \in Threads : Compute(t)
  \/ \E w \in Workers : Worker(w) \/ Spurious(w)

\* Every thread that can step eventually does; an NPU thread waiting for mtx
\* gets it once mtx is free infinitely often (strong fairness); a blocked
\* NPU thread is woken by a notify, never by fairness.
Fairness ==
  /\ WF_vars(PhaseBarrier) /\ WF_vars(Master)
  /\ \A t \in Threads : WF_vars(Compute(t))
  /\ \A w \in Workers : SF_vars(Worker(w))

Spec == Init /\ [][Next]_vars /\ Fairness

-----------------------------------------------------------------------------
(* Properties                                                              *)

Steps == {"pre0", "b0", "pre1", "b1", "submit", "once", "ready", "snotify",
          "sspin", "b2", "post", "padd", "b3", "free", "fnotify", "join", "end"}

TypeOK ==
  /\ call \in 1..Len(Calls)
  /\ cpc \in [Threads -> Steps]
  /\ kernels \subseteq {KeyOf(c) : c \in 1..Len(Calls)}
  /\ pre1Cnt \in [AllInputs -> Nat] /\ postCnt \in [AllOutputs -> Nat]
  /\ computed \subseteq AllOutputs
  /\ ready \in [Workers -> BOOLEAN] /\ finishedNr \in 0..ThreadNr
  /\ mtx \in Workers \cup {NoOne}
  /\ wpc \in [Workers -> {"none", "check", "block", "waiting", "woke", "run",
                          "fin1", "fin2", "gone"}]

\* pre1: the compute threads, sharing the rows of every input buffer through
\* pre1_cnt.fetch_add, convert each row of A once (never twice, whatever
\* the interleaving), and by the time submit runs every row of the call has
\* been converted: the counters were reset by pre0 even when the kernel and
\* its buffers are reused from an earlier MUL_MAT.
InputRowsOnce ==
  /\ \A r \in DOMAIN conv : conv[r] <= 1
  /\ cpc[0] = "submit" => \A r \in Rows(call) : conv[r] = 1

\* post reads an output buffer only after the NPU thread that owns its task
\* has submitted it: submit's spin on finished_nr waits for all THREAD_NR
\* workers, including one still busy with its last task.
PostAfterNpu ==
  \A t \in Threads : cpc[t] = "padd" => cell[t][1] \in computed

\* When post has finished on every thread, each dst cell holds exactly one
\* partial product per kk split of K: dst was zeroed by pre0, no row of an
\* output buffer was skipped or added twice, and no two threads' "C +="
\* on the same cell lost an update.
DstSums ==
  (\A t \in Threads : cpc[t] = "b3") =>
    \A x \in Cells(call) :
      dst[x] = Cardinality(Starts(Calls[call].k, Shape(call).K))

\* graph_compute returns and ggml_backend_rknpu2_free joins the NPU threads:
\* every submit's spin on finished_nr ends, so every NPU thread that was
\* handed tasks wakes up for them (submit sets ready[i] and notifies
\* cv_worker without mtx, and a thread's finished_nr++ comes before its
\* ready[tid] = false), and every thread wakes up for free's done.
ComputeReturns == <>(cpc[0] = "end")

====
