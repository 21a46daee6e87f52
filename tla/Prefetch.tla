------------------------------ MODULE Prefetch ------------------------------
(***************************************************************************)
(* The weight-prefetch pipeline of src/src: one Pipeline per registered    *)
(* tensor (prefetch.cpp), each an AllocStage -> IOStage -> DecryptStage    *)
(* chain (pipeline.cpp, alloc-stage.cpp, io-stage.cpp, decrypt-stage.cpp), *)
(* driven by LayerScheduler::step (layer-sched.cpp) on the main thread and *)
(* on the compute workers, with the asynchronous reads going through the   *)
(* io frontend (io-frontend.cpp) to the aio backend (io-backend.cpp).      *)
(*                                                                         *)
(* Build modelled: not LLAMA_USE_CHCORE_API, so AllocStage is the one-task *)
(* variant of alloc-stage.cpp and alloc tasks run only on the main thread. *)
(* is_strawman, fixed before the first step, is chosen in Init: when false *)
(* only the main thread polls the io frontend and dispatches io tasks;     *)
(* when true every thread does, under io_lock, and BLOCK_SIZE is 8 GiB.    *)
(*                                                                         *)
(* One step() is split where the code releases the scheduler lock: the     *)
(* main thread's completion poll, the dispatch under the lock, and the     *)
(* task run + submit + finish_stage + enqueue outside it.                  *)
(***************************************************************************)
EXTENDS Integers, Sequences, FiniteSets

CONSTANTS
  Tensors,           \* the weight tensors handed to register_param_tensor
  Main,              \* the thread whose tid is main_tid
  Workers,           \* the other compute threads that call sched_step
  Layer,             \* Layer[t]: the layer parse_name gives t (-1, 0.., 999)
  Size,              \* Size[t]: the tensor's length, in DecBlock units' scale
  DecBlock,          \* BLOCK_SIZE of decrypt-stage.cpp (1 << 16)
  StrawBlock,        \* its strawman value, 8UL << 30: above every tensor size
  IOCap,             \* the constant in the guard io_cnt <= 32
  SeqBase,           \* stands for 2^32 in (layer << 32 | cnt)
  MaxResets,         \* bound on calls of reset_param_tensor
  ResetOnlyWhenDone  \* callers reset only once every pipeline has finished

ASSUME Main \notin Workers
ASSUME DecBlock \in Nat \ {0} /\ \A t \in Tensors : StrawBlock >= Size[t]
ASSUME IOCap \in Nat /\ MaxResets \in Nat
ASSUME \A t \in Tensors : Size[t] \in Nat \ {0} /\ Layer[t] \in Int
ASSUME SeqBase > Cardinality(Tensors)
ASSUME ResetOnlyWhenDone \in BOOLEAN

Threads == {Main} \cup Workers
Kinds   == {"alloc", "io", "decrypt"}          \* the three stage classes
Done    == "done"                              \* current_stage == nullptr
NoTask  == [p |-> "none", kind |-> "none"]

VARIABLES
  registered,   \* keys of param_tensors
  cnt,          \* static int cnt of register_param_tensor
  seq,          \* seq[t]: the cnt value t was registered with
  stage,        \* Pipeline::current_stage
  queue,        \* queue[k][t]: copies of t in LayerScheduler queue k
  addr,         \* AllocStage::addr != NULL
  allocMsg,     \* AllocStage::msg.cma_indexes.size()
  ioIdx,        \* IOStage::cma_indexes.size()
  cntToFinish,  \* IOStage::cnt_to_finish
  submitPos,    \* DecryptStage::submit_pos
  finishedNr,   \* DecryptStage::finished_nr
  chunksRun,    \* DecryptTask::step calls for t since its last rollback
  launched,     \* reads io_launch'ed for t since its last rollback
  landed,       \* of those, reads the disk has completed
  ioCnt,        \* io_cnt of layer-sched.cpp
  onFly,        \* on_fly_cnt of io-frontend.cpp
  aio,          \* io-backend.cpp tasks: FIFO of [p, done] aio requests
  results,      \* task_queue->io_results: completions not yet consumed
  pc,           \* where each thread is in its step() loop
  held,         \* the task a thread got from get_task and has not submitted
  resets,       \* reset_param_tensor calls so far
  aborted,      \* a GGML_ASSERT failed: the process is gone
  strawman      \* is_strawman

stageVars == <<stage, addr, allocMsg, ioIdx, cntToFinish, submitPos, finishedNr>>
ioVars    == <<ioCnt, onFly, aio, results>>
ghostVars == <<chunksRun, launched, landed>>
vars == <<strawman, registered, cnt, seq, queue, pc, held, resets, aborted,
          stageVars, ioVars, ghostVars>>

-----------------------------------------------------------------------------
(* Helpers                                                                 *)

\* sched_info of the pipeline: (int64_t)layer << 32 | cnt
SchedInfo(t) == Layer[t] * SeqBase + seq[t]

InQueue(k) == {t \in Tensors : queue[k][t] > 0}

\* queue.top() of a priority_queue ordered by pipeline_cmp (min sched_info)
Top(k) == CHOOSE t \in InQueue(k) : \A u \in InQueue(k) : SchedInfo(t) <= SchedInfo(u)

\* BLOCK_SIZE of decrypt-stage.cpp: is_strawman ? (8UL << 30) : (1UL << 16)
Block == IF strawman THEN StrawBlock ELSE DecBlock

\* Fault variant of BlockNr: block_nr = size / BLOCK_SIZE, rounding down
BlockNr_floor(t) == Size[t] \div Block

\* DecryptStage constructor: block_nr = (size + BLOCK_SIZE - 1) / BLOCK_SIZE
BlockNr(t) == (Size[t] + Block - 1) \div Block

\* Fault variant of DecryptLast: the last chunk is the one ending past size
DecryptLast_gt(t) == submitPos[t] + Block > Size[t]

\* DecryptStage::get_task's is_last: submit_pos, once advanced, >= size
DecryptLast(t) == submitPos[t] + Block >= Size[t]

Enqueue(k, t) == queue' = [queue EXCEPT ![k][t] = @ + 1]

\* io_step's wait_io loop: the leading aio requests that have completed
RECURSIVE DoneLead(_)
DoneLead(a) == IF a # <<>> /\ Head(a).done THEN 1 + DoneLead(Tail(a)) ELSE 0

\* io_step after its launches: completed requests move, in order, from the
\* aio FIFO a to io_results
AfterIoStep(a) ==
  LET n == DoneLead(a) IN
  [aio |-> SubSeq(a, n + 1, Len(a)), results |-> results \o [i \in 1..n |-> a[i].p]]

Abort == /\ aborted' = TRUE
         /\ UNCHANGED <<stageVars, queue>>

-----------------------------------------------------------------------------
(* Stage::submit of the current stage, with Pipeline::finish_stage and the *)
(* re-enqueue that step() does when submit returns true.                  *)

\* Fault variant of AllocSubmit: cnt_to_finish = cma_indexes.size(), one
\* submit per IO task instead of two
AllocSubmit_once(t) ==
  /\ addr' = [addr EXCEPT ![t] = TRUE]
  /\ ioIdx' = [ioIdx EXCEPT ![t] = allocMsg[t] + 1]
  /\ allocMsg' = [allocMsg EXCEPT ![t] = ioIdx[t]]
  /\ cntToFinish' = [cntToFinish EXCEPT ![t] = allocMsg[t] + 1]
  /\ stage' = [stage EXCEPT ![t] = "io"]
  /\ Enqueue("io", t)
  /\ UNCHANGED <<submitPos, finishedNr, aborted>>

\* IOStage::start(msg) with msg->cma_indexes of size n: swap the vectors,
\* cnt_to_finish = cma_indexes.size() * 2
IoStart(t, n) ==
  /\ ioIdx' = [ioIdx EXCEPT ![t] = n]
  /\ allocMsg' = [allocMsg EXCEPT ![t] = ioIdx[t]]
  /\ cntToFinish' = [cntToFinish EXCEPT ![t] = 2 * n]

\* AllocStage::submit (addr = task's addr, push one cma index), then
\* finish_stage: io->start(alloc->get_msg())
AllocSubmit(t) ==
  /\ addr' = [addr EXCEPT ![t] = TRUE]
  /\ IoStart(t, allocMsg[t] + 1)
  /\ stage' = [stage EXCEPT ![t] = "io"]
  /\ Enqueue("io", t)
  /\ UNCHANGED <<submitPos, finishedNr, aborted>>

\* Fault variant of IoSubmit: finishes when fetch_sub returns 0, not 1
IoSubmit_zero(t) ==
  /\ cntToFinish' = [cntToFinish EXCEPT ![t] = @ - 1]
  /\ IF cntToFinish[t] = 0
       THEN /\ stage' = [stage EXCEPT ![t] = "decrypt"]
            /\ finishedNr' = [finishedNr EXCEPT ![t] = 0]
            /\ submitPos' = [submitPos EXCEPT ![t] = 0]
            /\ Enqueue("decrypt", t)
       ELSE UNCHANGED <<stage, finishedNr, submitPos, queue>>
  /\ UNCHANGED <<addr, allocMsg, ioIdx, aborted>>

\* DecryptStage::start: finished_nr = 0; submit_pos = 0
DecryptStart(t) ==
  /\ finishedNr' = [finishedNr EXCEPT ![t] = 0]
  /\ submitPos' = [submitPos EXCEPT ![t] = 0]

\* IOStage::submit (old_nr == 1 of fetch_sub), then finish_stage:
\* decrypt->start(io->get_msg())
IoSubmit(t) ==
  /\ cntToFinish' = [cntToFinish EXCEPT ![t] = @ - 1]
  /\ IF cntToFinish[t] = 1
       THEN /\ stage' = [stage EXCEPT ![t] = "decrypt"]
            /\ DecryptStart(t)
            /\ Enqueue("decrypt", t)
       ELSE UNCHANGED <<stage, finishedNr, submitPos, queue>>
  /\ UNCHANGED <<addr, allocMsg, ioIdx, aborted>>

\* DecryptStage::submit, then finish_stage: final_msg, current_stage = nullptr
DecryptSubmit(t) ==
  /\ finishedNr' = [finishedNr EXCEPT ![t] = @ + 1]
  /\ IF finishedNr[t] + 1 = BlockNr(t)
       THEN stage' = [stage EXCEPT ![t] = Done]
       ELSE UNCHANGED stage
  /\ UNCHANGED <<addr, allocMsg, ioIdx, cntToFinish, submitPos, queue, aborted>>

\* pipeline->get_current_stage()->submit(task) for a task of class kind
Submit(t, kind) ==
  CASE stage[t] = "alloc"   -> IF kind = "alloc" /\ ~addr[t]
                                 THEN AllocSubmit(t)
                                 ELSE Abort   \* dynamic_cast / !addr asserts
    [] stage[t] = "io"      -> IoSubmit(t)
    [] stage[t] = "decrypt" -> DecryptSubmit(t)
    [] stage[t] = Done      -> Abort          \* current_stage is nullptr

-----------------------------------------------------------------------------
(* Stage::get_task of the current stage, as LayerScheduler::get_task calls *)
(* it on the top of a queue: the task's class and whether it was the last.*)

\* Queue k after get_task of its top t: popped when the task was the last
PopIf(k, t, last) == queue' = IF last THEN [queue EXCEPT ![k][t] = @ - 1] ELSE queue

Hold(th, t, kind) == held' = [held EXCEPT ![th] = [p |-> t, kind |-> kind]]

\* AllocStage::get_task: one AllocTask of the whole size, always the last
AllocGetTask(k, t, th) ==
  /\ PopIf(k, t, TRUE)
  /\ Hold(th, t, "alloc")
  /\ UNCHANGED <<stageVars, aborted>>

\* IOStage::get_task: assert !cma_indexes.empty(), pop_back; last when empty
IoGetTask(k, t, th) ==
  IF ioIdx[t] = 0 THEN Abort /\ UNCHANGED held
  ELSE /\ ioIdx' = [ioIdx EXCEPT ![t] = @ - 1]
       /\ PopIf(k, t, ioIdx[t] = 1)
       /\ Hold(th, t, "io")
       /\ UNCHANGED <<stage, addr, allocMsg, cntToFinish, submitPos,
                      finishedNr, aborted>>

\* DecryptStage::get_task: assert submit_pos < size, submit_pos +=
\* BLOCK_SIZE; last when submit_pos >= size
DecryptGetTask(k, t, th) ==
  IF submitPos[t] >= Size[t] THEN Abort /\ UNCHANGED held
  ELSE /\ submitPos' = [submitPos EXCEPT ![t] = @ + Block]
       /\ PopIf(k, t, DecryptLast(t))
       /\ Hold(th, t, "decrypt")
       /\ UNCHANGED <<stage, addr, allocMsg, ioIdx, cntToFinish,
                      finishedNr, aborted>>

\* LayerScheduler::get_task(queue k) on thread th: FALSE when the queue is
\* empty; asserts the top pipeline is not finished, then its stage's get_task
GetTask(k, th) ==
  /\ InQueue(k) # {}
  /\ LET t == Top(k) IN
     CASE stage[t] = Done      -> Abort /\ UNCHANGED held
       [] stage[t] = "alloc"   -> AllocGetTask(k, t, th)
       [] stage[t] = "io"      -> IoGetTask(k, t, th)
       [] stage[t] = "decrypt" -> DecryptGetTask(k, t, th)

-----------------------------------------------------------------------------
(* Actions                                                                 *)

\* Fault variant of Register: no check that t is not registered yet
RegisterTwice(t) ==
  /\ ~aborted
  /\ pc[Main] = "poll"
  /\ registered' = registered \cup {t}
  /\ seq' = [seq EXCEPT ![t] = cnt]
  /\ cnt' = cnt + 1
  /\ Enqueue("alloc", t)
  /\ UNCHANGED <<strawman, stageVars, ioVars, ghostVars, pc, held, resets, aborted>>

\* register_param_tensor(t): a new Pipeline, start(NULL), sched->enqueue.
\* cache_p is 0 unless set_cache_proportion is called, so the eager
\* use_param_tensor branch is not taken.
Register(t) ==
  /\ ~aborted
  /\ pc[Main] = "poll"
  /\ t \notin registered
  /\ registered' = registered \cup {t}
  /\ seq' = [seq EXCEPT ![t] = cnt]
  /\ cnt' = cnt + 1
  /\ Enqueue("alloc", t)
  /\ UNCHANGED <<strawman, stageVars, ioVars, ghostVars, pc, held, resets, aborted>>

\* What io_rpc() leaves in io_results when __io_try_get calls it
Polled == AfterIoStep(aio).results

\* __io_try_get returns an entry: on_fly_cnt != 0 and io_results.consume
\* finds a completion
GotEntry == onFly # 0 /\ Polled # <<>>

\* __io_try_get: nothing when on_fly_cnt is 0; else io_rpc() and, when
\* io_results holds a completion, consume it and --on_fly_cnt
IoTryGet ==
  IF onFly = 0 THEN UNCHANGED <<aio, results, onFly>>
  ELSE /\ aio' = AfterIoStep(aio).aio
       /\ results' = IF Polled = <<>> THEN Polled ELSE Tail(Polled)
       /\ onFly' = IF Polled = <<>> THEN onFly ELSE onFly - 1

\* step() on the main thread, first part: io_try_get() and, if it returned
\* a completion, io_cnt-- and submit of that IO task to its pipeline.
Poll ==
  /\ ~aborted
  /\ ~strawman
  /\ pc[Main] = "poll"
  /\ pc' = [pc EXCEPT ![Main] = "dispatch"]
  /\ IoTryGet
  /\ IF GotEntry
       THEN ioCnt' = ioCnt - 1 /\ Submit(Head(Polled), "io")
       ELSE UNCHANGED <<ioCnt, stageVars, queue, aborted>>
  /\ UNCHANGED <<strawman, registered, cnt, seq, ghostVars, held, resets>>

\* Fault variant of IoAllowed: the io_cnt cap is not tested
IoAllowed_noCap == InQueue("io") # {}

\* The main thread may dispatch io while io_cnt <= 32
IoAllowed == ioCnt <= IOCap /\ InQueue("io") # {}

\* step() on the main thread, under the scheduler lock: io, then decrypt,
\* then alloc (alloc only where gettid() == main_tid).
MainDispatch ==
  /\ ~aborted
  /\ ~strawman
  /\ pc[Main] = "dispatch"
  /\ \/ /\ IoAllowed
        /\ GetTask("io", Main)
        /\ ioCnt' = ioCnt + 1
     \/ /\ ~IoAllowed
        /\ GetTask("decrypt", Main)
        /\ UNCHANGED ioCnt
     \/ /\ ~IoAllowed
        /\ InQueue("decrypt") = {}
        /\ GetTask("alloc", Main)
        /\ UNCHANGED ioCnt
  /\ pc' = [pc EXCEPT ![Main] = "run"]
  /\ UNCHANGED <<strawman, registered, cnt, seq, ghostVars, onFly, aio, results, resets>>

\* step() on the main thread finds nothing to dispatch and returns false
MainIdle ==
  /\ ~aborted
  /\ ~strawman
  /\ pc[Main] = "dispatch"
  /\ ~IoAllowed
  /\ InQueue("decrypt") = {}
  /\ InQueue("alloc") = {}
  /\ pc' = [pc EXCEPT ![Main] = "poll"]
  /\ UNCHANGED <<strawman, registered, cnt, seq, queue, ghostVars, held, resets, aborted,
                 stageVars, ioVars>>

\* step() on another thread, under the scheduler lock: only the decrypt
\* queue is open to it (a worker finding it empty returns false unchanged)
WorkerDispatch(w) ==
  /\ ~aborted
  /\ ~strawman
  /\ pc[w] = "dispatch"
  /\ GetTask("decrypt", w)
  /\ pc' = [pc EXCEPT ![w] = "run"]
  /\ UNCHANGED <<strawman, registered, cnt, seq, ghostVars, ioVars, resets>>

-----------------------------------------------------------------------------
(* step() with is_strawman: every thread runs the same branch.            *)

\* Under io_lock: io_try_get() and, if it returned a completion, submit of
\* that IO task, and step() returns true (use_param_tensor calls it again);
\* otherwise on to the dispatch.
StrawPoll(th) ==
  /\ ~aborted
  /\ strawman
  /\ pc[th] = "poll"
  /\ IoTryGet
  /\ IF GotEntry
       THEN Submit(Head(Polled), "io") /\ UNCHANGED pc
       ELSE pc' = [pc EXCEPT ![th] = "dispatch"]
              /\ UNCHANGED <<stageVars, queue, aborted>>
  /\ UNCHANGED <<strawman, registered, cnt, seq, ghostVars, held, resets, ioCnt>>

\* Thread th finds alloc (its get_task only tried on the main thread) empty
NoAlloc(th) == th # Main \/ InQueue("alloc") = {}

\* Under the scheduler lock: alloc (main thread only), then io, then
\* decrypt; io_cnt is not counted in this branch.
StrawDispatch(th) ==
  /\ ~aborted
  /\ strawman
  /\ pc[th] = "dispatch"
  /\ \/ th = Main /\ GetTask("alloc", th)
     \/ NoAlloc(th) /\ GetTask("io", th)
     \/ NoAlloc(th) /\ InQueue("io") = {} /\ GetTask("decrypt", th)
  /\ pc' = [pc EXCEPT ![th] = "run"]
  /\ UNCHANGED <<strawman, registered, cnt, seq, ghostVars, ioVars, resets>>

\* Every queue open to th is empty: step() returns false
StrawIdle(th) ==
  /\ ~aborted
  /\ strawman
  /\ pc[th] = "dispatch"
  /\ NoAlloc(th) /\ InQueue("io") = {} /\ InQueue("decrypt") = {}
  /\ pc' = [pc EXCEPT ![th] = "poll"]
  /\ UNCHANGED <<strawman, registered, cnt, seq, queue, ghostVars, held, resets,
                 aborted, stageVars, ioVars>>

\* io_launch for an IO task of t: produce the request into io_tasks,
\* ++on_fly_cnt, then io_rpc(), i.e. io_step: launch it and report the
\* completed head of the aio FIFO into io_results.
IoLaunch(t) ==
  LET io == AfterIoStep(Append(aio, [p |-> t, done |-> FALSE])) IN
  /\ aio' = io.aio
  /\ results' = io.results
  /\ onFly' = onFly + 1
  /\ launched' = [launched EXCEPT ![t] = @ + 1]

\* DecryptTask::step: decrypts its chunk (counted by the ghost chunksRun)
DecryptStep(t) == chunksRun' = [chunksRun EXCEPT ![t] = @ + 1]

\* IOTask::step: io_launch(off, len, ..., task_entry(pipeline, self))
IoStep(t) == IoLaunch(t)

\* Where step() starts: the io poll, which outside strawman only the main
\* thread does
FirstPc(th) == IF th = Main \/ strawman THEN "poll" ELSE "dispatch"

\* step() outside the lock: task->step(), then submit to the pipeline's
\* current stage, finish_stage and enqueue when submit returns true.
\* AllocTask::step maps the pages of the task, which AllocStage::submit
\* then takes as its addr.  (With strawman an IO task runs in two steps,
\* StrawIoStep and StrawIoSubmit, below.)
Run(th) ==
  /\ ~aborted
  /\ pc[th] = "run"
  /\ ~(strawman /\ held[th].kind = "io")
  /\ LET t == held[th].p
         k == held[th].kind
     IN
     /\ IF k = "io" THEN IoStep(t) ELSE UNCHANGED <<aio, results, onFly, launched>>
     /\ IF k = "decrypt" THEN DecryptStep(t) ELSE UNCHANGED chunksRun
     /\ Submit(t, k)
  /\ held' = [held EXCEPT ![th] = NoTask]
  /\ pc' = [pc EXCEPT ![th] = FirstPc(th)]
  /\ UNCHANGED <<strawman, registered, cnt, seq, ioCnt, resets, landed>>

\* With strawman: io_lock.lock(); IOTask::step; io_lock.unlock()
StrawIoStep(th) ==
  /\ ~aborted
  /\ strawman
  /\ pc[th] = "run"
  /\ held[th].kind = "io"
  /\ IoStep(held[th].p)
  /\ pc' = [pc EXCEPT ![th] = "submit"]
  /\ UNCHANGED <<strawman, registered, cnt, seq, queue, held, resets, aborted,
                 stageVars, ioCnt, chunksRun, landed>>

\* ... then, outside io_lock, submit of the IO task, finish_stage and
\* enqueue; step() returns !is_io, false
StrawIoSubmit(th) ==
  /\ ~aborted
  /\ pc[th] = "submit"
  /\ Submit(held[th].p, "io")
  /\ held' = [held EXCEPT ![th] = NoTask]
  /\ pc' = [pc EXCEPT ![th] = "poll"]
  /\ UNCHANGED <<strawman, registered, cnt, seq, ghostVars, ioVars, resets>>

\* The task-running part of step() on thread th
RunStep(th) == Run(th) \/ StrawIoStep(th) \/ StrawIoSubmit(th)

\* The kernel completes an outstanding aio read (in any order)
Complete(i) ==
  /\ ~aborted
  /\ ~aio[i].done
  /\ aio' = [aio EXCEPT ![i].done = TRUE]
  /\ landed' = [landed EXCEPT ![aio[i].p] = @ + 1]
  /\ UNCHANGED <<strawman, registered, cnt, seq, queue, chunksRun, launched, pc, held,
                 resets, aborted, stageVars, ioCnt, onFly, results>>

\* What callers of reset_param_tensor guarantee: no task is held or in
\* flight, and, where ResetOnlyWhenDone, every pipeline has finished.
ResetAllowed ==
  /\ \A th \in Threads : held[th] = NoTask
  /\ onFly = 0
  /\ ResetOnlyWhenDone => \A t \in registered : stage[t] = Done

\* f with the tensors of R mapped to v
Rolled(f, R, v) == [t \in Tensors |-> IF t \in R THEN v ELSE f[t]]

\* DecryptStage::rollback of the pipelines R: finished_nr = 0; submit_pos = 0
DecryptRollback(R) ==
  /\ finishedNr' = Rolled(finishedNr, R, 0)
  /\ submitPos' = Rolled(submitPos, R, 0)

\* AllocStage::rollback of R (its assert(addr) checked by the caller):
\* munmap, POP_PAGES, addr = NULL
AllocRollback(R) == addr' = Rolled(addr, R, FALSE)

\* Pipeline::rollback of R: decrypt, io (empty), alloc, current_stage = alloc
PipelineRollback(R) ==
  /\ DecryptRollback(R)
  /\ AllocRollback(R)
  /\ stage' = Rolled(stage, R, "alloc")
  /\ UNCHANGED <<allocMsg, ioIdx, cntToFinish>>

\* reset_param_tensor on the main thread: Pipeline::rollback of every
\* pipeline (the first whose addr is NULL fails AllocStage::rollback's
\* assert), then start(NULL), a no-op of AllocStage, and enqueue of each.
Reset ==
  /\ ~aborted
  /\ pc[Main] = "poll"
  /\ resets < MaxResets
  /\ registered # {}
  /\ ResetAllowed
  /\ resets' = resets + 1
  /\ IF \E t \in registered : ~addr[t]
       THEN Abort /\ UNCHANGED ghostVars
       ELSE /\ PipelineRollback(registered)
            /\ chunksRun' = Rolled(chunksRun, registered, 0)
            /\ launched' = Rolled(launched, registered, 0)
            /\ landed' = Rolled(landed, registered, 0)
            /\ queue' = [queue EXCEPT !["alloc"] =
                            [t \in Tensors |-> IF t \in registered THEN @[t] + 1
                                                                  ELSE @[t]]]
            /\ UNCHANGED aborted
  /\ UNCHANGED <<strawman, registered, cnt, seq, pc, held, ioVars>>

Init ==
  /\ strawman \in BOOLEAN
  /\ registered = {}
  /\ cnt = 0
  /\ seq = [t \in Tensors |-> 0]
  /\ stage = [t \in Tensors |-> "alloc"]
  /\ queue = [k \in Kinds |-> [t \in Tensors |-> 0]]
  /\ addr = [t \in Tensors |-> FALSE]
  /\ allocMsg = [t \in Tensors |-> 0]
  /\ ioIdx = [t \in Tensors |-> 0]
  /\ cntToFinish = [t \in Tensors |-> 0]
  /\ submitPos = [t \in Tensors |-> 0]
  /\ finishedNr = [t \in Tensors |-> 0]
  /\ chunksRun = [t \in Tensors |-> 0]
  /\ launched = [t \in Tensors |-> 0]
  /\ landed = [t \in Tensors |-> 0]
  /\ ioCnt = 0
  /\ onFly = 0
  /\ aio = <<>>
  /\ results = <<>>
  /\ pc = [th \in Threads |-> FirstPc(th)]
  /\ held = [th \in Threads |-> NoTask]
  /\ resets = 0
  /\ aborted = FALSE

\* One step of thread th in the strawman branch
StrawStep(th) == StrawPoll(th) \/ StrawDispatch(th) \/ StrawIdle(th)

MainStep == Poll \/ MainDispatch \/ MainIdle \/ StrawStep(Main) \/ RunStep(Main)

Next ==
  \/ \E t \in Tensors : Register(t)
  \/ MainStep
  \/ \E w \in Workers : WorkerDispatch(w) \/ StrawStep(w) \/ RunStep(w)
  \/ \E i \in 1..Len(aio) : Complete(i)
  \/ Reset

\* The main thread keeps calling step() (use_param_tensor spins on it and
\* the ggml polling routine is sched_step), a thread that holds a task
\* finishes it, and the disk completes every read it was given.
Fairness ==
  /\ WF_vars(MainStep)
  /\ \A w \in Workers : WF_vars(RunStep(w))
  /\ WF_vars(\E i \in 1..Len(aio) : Complete(i))

Spec == Init /\ [][Next]_vars /\ Fairness

-----------------------------------------------------------------------------
(* Properties                                                              *)

TypeOK ==
  /\ registered \subseteq Tensors
  /\ cnt \in 0..Cardinality(Tensors)
  /\ stage \in [Tensors -> Kinds \cup {Done}]
  /\ queue \in [Kinds -> [Tensors -> Nat]]
  /\ addr \in [Tensors -> BOOLEAN]
  /\ allocMsg \in [Tensors -> Nat] /\ ioIdx \in [Tensors -> Nat]
  /\ cntToFinish \in [Tensors -> Int]
  /\ submitPos \in [Tensors -> Nat] /\ finishedNr \in [Tensors -> Nat]
  /\ chunksRun \in [Tensors -> Nat]
  /\ launched \in [Tensors -> Nat] /\ landed \in [Tensors -> Nat]
  /\ ioCnt \in Nat /\ onFly \in Nat
  /\ aio \in Seq([p : Tensors, done : BOOLEAN])
  /\ results \in Seq(Tensors)
  /\ held \in [Threads -> [p : Tensors, kind : Kinds] \cup {NoTask}]
  /\ aborted \in BOOLEAN

\* Spec section 3: a pipeline is in at most one scheduler queue, once, and
\* that queue is the one of its current stage; and a pipeline whose stage
\* still has tasks to hand out is in that queue (LayerScheduler::get_task
\* pops only on the last task, step() re-enqueues on finish_stage).
\* Together they mean no get_task assertion fires and no pipeline is lost.
QueueMatchesStage ==
  \A t \in Tensors :
    /\ \A k \in Kinds : queue[k][t] > 0 =>
          /\ queue[k][t] = 1
          /\ stage[t] = k
          /\ t \in registered
    /\ t \in registered =>
          /\ stage[t] = "alloc" /\ ~addr[t] /\ held[Main].p # t
               => queue["alloc"][t] = 1
          /\ stage[t] = "io" /\ ioIdx[t] > 0 => queue["io"][t] = 1
          /\ stage[t] = "decrypt" /\ submitPos[t] < Size[t]
               => queue["decrypt"][t] = 1

HeldIo(t) == \E th \in Threads : held[th] = [p |-> t, kind |-> "io"]

\* Spec 4.3: a pipeline reaches DecryptStage only once each of its reads
\* has been launched, completed by the disk and reported back through
\* io_try_get (IOStage counts two submits per task, launch and completion,
\* and io_step reports only the completed head of the aio FIFO).
ReadsCompleteBeforeDecrypt ==
  \A t \in Tensors :
    stage[t] \in {"decrypt", Done} =>
      /\ launched[t] > 0
      /\ landed[t] = launched[t]
      /\ ~HeldIo(t)
      /\ \A i \in 1..Len(aio) : aio[i].p # t
      /\ \A i \in 1..Len(results) : results[i] # t

\* Spec 4.4/section 2: a finished pipeline, whose final_msg use_param_tensor
\* hands to compute, has had every chunk of its length decrypted, with no
\* DecryptTask of it still running on another thread.
DecryptedBeforeDone ==
  \A t \in registered :
    stage[t] = Done =>
      /\ chunksRun[t] * Block >= Size[t]
      /\ \A th \in Threads : held[th].p # t

\* ring_buffer::produce asserts that io_tasks and io_results are not full;
\* outside strawman, what keeps them from filling is io_cnt: on_fly_cnt
\* counts exactly the requests in the backend's aio FIFO and io_results,
\* and the main thread's io cap (io_cnt <= 32, tested before the ++, then
\* decremented only when a completion is taken) keeps them at most one
\* above the cap.  (With is_strawman io_cnt is not kept, and only the
\* number of IO tasks bounds the rings.)
RingsWithinCap ==
  /\ Len(aio) + Len(results) = onFly
  /\ ~strawman => onFly <= IOCap + 1

\* Spec P5: never more than the cap of IO tasks outstanding at once.
IOInFlightBound == ioCnt <= IOCap

\* use_param_tensor returns: every registered pipeline eventually finishes.
AllEventuallyLoaded ==
  \A t \in Tensors : (t \in registered /\ stage[t] # Done) ~> stage[t] = Done

=============================================================================
