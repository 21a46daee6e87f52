# TLA+ models of TZ-LLM's weight loader and NPU matmul backends

This directory holds TLA+ models of the concurrent parts of the repository
and of its command-line parser.
Each model is checked with TLC.
* **The weight-prefetch pipeline.** It loads encrypted model weights into
  protected memory ahead of use:
  * the registry (`src/src/prefetch.cpp`);
  * the per-tensor pipeline and its three stages (`pipeline.*`,
    `alloc-stage.cpp`, `alloc-stage-chcore.cpp`, `io-stage.cpp`,
    `decrypt-stage.cpp`);
  * the scheduler (`layer-sched.cpp`);
  * the asynchronous IO path: `io-frontend.cpp`, then the shared ring
    buffers of `interface.h`, then `io-backend.cpp`.
* **The two NPU matmul backends of ggml.** They run every MUL_MAT node of
  the model:
  * `src/ggml/src/ggml-rknpu2.cpp`, through the rknn runtime;
  * `src/ggml/src/ggml-rknpu-re.cpp`, which drives the NPU registers itself.
* **Command-line parsing** (`src/common/arg.cpp`). It turns argv and the
  environment into `gpt_params`, including TZ-LLM's `-p model#len`, which
  picks the model file and a benchmark prompt.

`PROJECT.json` holds the details:
* which definition models which source lines (`map`);
* every run and the mutant that each property must catch;
* the findings;
* every hazard of the code, at the line where it bites.

## 1. The system and how its parts interact

The loader works as follows:
1. **Registration.** `register_param_tensor` creates a `Pipeline` per weight
   tensor and pushes it on the scheduler's alloc queue.
2. **Scheduling.** `LayerScheduler::step()` is called in a loop by the main
   thread (ggml's polling routine, and `use_param_tensor`, which spins until
   its tensor is finished). Worker threads call it too. Each call takes one
   task from a priority queue (lowest `sched_info = layer<<32 | cnt` first),
   runs it, submits it and calls `finish_stage`. `finish_stage` moves the
   pipeline to its next stage and re-enqueues it.
3. **Alloc.** AllocStage reserves protected pages:
   * the plain build uses one task;
   * the ChCore build deals the blocks out round-robin over `TZASC_NR`
     regions, with tasks on any thread.
4. **IO.** IOStage issues one read per allocated block. `io_launch`
   produces an `io_task` into a shared ring, and the backend's `io_step`
   launches aio reads and reports completions in FIFO order into the result
   ring. The main thread's poll (`io_try_get`) consumes them. Each IO task
   is submitted twice, after its launch and after its completion, and
   `cnt_to_finish` counts both.
5. **Decrypt.** DecryptStage (ChCore build) first commits the tensor's page
   range to the TZASC window (`commit_tzasc`). It then hands out
   `BLOCK_SIZE` chunks that any thread decrypts concurrently. The last
   `finished_nr` increment finishes the pipeline.
6. **Reset.** `reset_param_tensor` rolls every pipeline back to alloc and
   re-enqueues it.
7. **Strawman.** With `is_strawman`, `step()` takes another branch:
   * every thread polls, under `io_lock`;
   * precedence is alloc (main thread only), then io, then decrypt;
   * an IO task runs under `io_lock`, and its submit follows the unlock;
   * `io_cnt` is not kept;
   * `BLOCK_SIZE` is 8 GiB, so a tensor is one decrypt chunk.

Both NPU backends follow one pattern:
* A compute thread (the *master*) hands work to `THREAD_NR` worker threads
  through `ready[]` flags, a `cv_worker` condition variable and an atomic
  `finished_nr`, then spins until all workers are done.
* `free` sets `done`, notifies the workers and joins them.
* **rknpu2:** each worker runs its column slice tile by tile and meets the
  others at a two-phase barrier (`finished_int`/`wake_int` on `cv_int`, for
  `worker_nr` participants).
* **rknpu-re:** a MUL_MAT has four phases, each called by every compute
  thread:
  * `pre0` finds or creates the kernel and zeroes dst;
  * `pre1` converts rows of A, shared through `pre1_cnt`;
  * `submit` hands the tasks to the NPU threads;
  * `post` adds the output rows into dst, shared through `post_cnt`.

Command-line parsing is sequential and runs once, before any of the above:
1. `gpt_params_parser_init` builds the option table. `add_opt` keeps an
   option only if it belongs to this example or to every example.
2. `gpt_params_parse_ex` applies every option's environment variable, in
   table order. It then walks argv: an unknown token throws; a void option
   runs its handler; any other option takes the next token as its value
   (`check_arg` throws if there is none).
3. After the loop come the CPU-parameter post-processing, the
   prompt-cache/interactive check, `gpt_params_handle_model_default` and
   the escape processing.
4. `gpt_params_parse` catches `invalid_argument`, restores `params_org` and
   returns false. If `usage` is set, it prints the usage and exits.
   `parse_prompt`'s `GGML_ABORT` kills the process.

## 2. Modules

| Module | Models |
|---|---|
| `Prefetch.tla` | Registry, Pipeline, the plain AllocStage, IOStage, DecryptStage, both branches of `LayerScheduler::step()`, the io frontend, the two rings as FIFOs, and the aio backend. |
| `CmdRing.tla` | `ring_buffer` of `interface.h`: `produce` (full assertion, CAS on head, memcpy, `count++`) and `consume` (empty test, CAS on tail, memcpy, `count--`) as separate atomic steps of any sets of producers and consumers. |
| `ChCoreAlloc.tla` | The ChCore build's AllocStage (striping, `get_task` with region redirect, `push_pages`, `submit`, `rollback`), IOStage::start's per-region ranges, and DecryptStage's `commit_tzasc`. `commit_tzasc`'s loop is the RECURSIVE operator `Drain` over a max-heap, which is what its `std::priority_queue` is. |
| `NpuDispatch.tla` | rknpu2's `graph_compute` node loop (MUL_MAT, the skipped NONE/RESHAPE/VIEW nodes, abort on any other op), `mul_mat`'s assertions and the buffer of the converted B with its `free`, `supports_op` as an ASSUME on the nodes, the dispatcher, its worker loop, `mul_npu`'s kernel cache and tile loops with the `cv_int` barrier, and `free`. |
| `NpuReMatmul.tla` | rknpu-re's MUL_MAT: `pre0`, `pre1`, `submit`, `post`, the `matmul_kernel` partition with its row-cap tables, the buffer keys, `npu_worker`, `free`, and `graph_compute`'s loop over the calls (`NextCall`). `supports_op` is an ASSUME on the calls (`SupportsOp`). |
| `ArgParse.tla` | `gpt_params_parse` and `gpt_params_parse_ex` with thirty-eight options of `gpt_params_parser_init` (threads and priorities of both pools, prompt, file, escape, reverse-prompt, interactive-mode, table-valued, size and model options), `parse_prompt`, `postprocess_cpu_params`, `gpt_params_handle_model_default`, and a field-by-field reference parse (`RefOutcome`, `RefFinal`) the model is checked against. |
| `FinishRace.tla` | The hand-off of a finished pipeline: the DecryptStage branch of `Pipeline::finish_stage` (store `final_msg`, then clear `current_stage`, no lock held) against `use_param_tensor`'s unlocked spin on `is_finished()` and read of `get_final_msg()`. The two stores sit in the writer's store buffer (`pending`, `buffered`) and drain (`Drain`) in program order, or in either order when `Reorder` is TRUE. |
| `MC*.tla` | Model values and small constant functions (tensor sizes, call shapes) for TLC. |

### How the state and actions correspond to the code

Every module keeps the code's fields as variables, per tensor or per thread
as functions, and names its actions after the code's functions.
* A thread's position in a function that releases a lock, waits or spins is
  a `pc` variable. The action is split exactly at those points:
  * `Prefetch` splits `step()` where the scheduler lock is released;
  * the NPU modules split where `mtx` is released, a condition variable is
    waited on, or an unlocked store happens.
* **Condition variable waits.** A `cv.wait(lock, pred)` is three actions:
  * `Check` tests the predicate under the mutex;
  * `Block` releases the mutex and sleeps;
  * `Spurious` is a spurious wakeup.

  A notify moves the sleepers back to `Check`. A notify sent between a
  thread's `Check` and its `Block` is therefore lost, as it is in the code.
* **Assertions.** A failed `GGML_ASSERT` (or `BUG_ON`) sets `aborted`, and
  nothing runs after it.
* **Data abstraction.** Sizes are in block units (`DecBlock` and
  `StrawBlock` stand for the two `BLOCK_SIZE`s). Matrix data is a count:
  * of rows converted;
  * of tiles done;
  * of partial products added into a dst cell.

  Addresses in ChCoreAlloc are block numbers from each region's base.

Prefetch's main actions:

| Action | Code |
|---|---|
| `Register(t)` | `register_param_tensor` |
| `Poll` | `step()`'s main-thread completion poll (`IoTryGet` = `__io_try_get`), `io_cnt--`, submit |
| `MainDispatch`, `MainIdle`, `WorkerDispatch(w)` | `step()` under the lock, non-strawman: io if `io_cnt <= 32`, else decrypt, else alloc (main thread only) |
| `StrawPoll`, `StrawDispatch`, `StrawIdle` | the strawman branch of `step()` under `io_lock` and the scheduler lock |
| `Run(th)`, `StrawIoStep`, `StrawIoSubmit` | running a task (`IoLaunch` = `io_launch` + `io_step`), then `Submit` = stage `submit` + `finish_stage` + enqueue |
| `Complete(i)` | the kernel completing an outstanding aio read, in any order |
| `Reset` | `reset_param_tensor`: `Pipeline::rollback` of every pipeline, then `start` and enqueue |

ArgParse's actions are the steps of one parse:

| Action | Code |
|---|---|
| `HandleEnv` | the environment loop (`EnvLoop`, a RECURSIVE fold over the kept options) |
| `CliUnknown`, `CliVoid`, `CliMissingValue`, `CliValue` | one turn of the argv loop: invalid argument, void handler, `check_arg` throwing, handler with the next token as value |
| `Post` | everything after the loop (`PostParse`) |
| `Return`, `Catch` | `gpt_params_parse`'s usage exit or `return true`, and its catch that restores `params_org` |

An option is a record: its names, its examples, its environment variable,
and either the values a void handler stores (`sets`) or the handler shape
(`h`: threads, prio, prompt, file, binary_file, antiprompt, affix, int,
enum, string) and the fields it assigns. `HandlerValue` is one CASE arm per
shape, each the body of the lambdas of that shape; the table-valued options
(`--numa`, `--rope-scaling`, `-sm`) carry their string-to-enum table.
`PostParse` is the code after the loop in order: `postprocess_cpu_params`
of both pools (its body is upstream llama.cpp's `common.cpp`, which is not
in this repository), the prompt-cache/interactive check, the escape pass
and `gpt_params_handle_model_default`.

NpuDispatch's master first walks the graph: `MulMat` is `ggml_backend_rknpu2_mul_mat`
up to the dispatcher (its assertions, and the buffer it gives B: none for
F16, src1's for F32, a malloc'd `to_float` conversion otherwise), `OtherNode`
skips NONE/RESHAPE/VIEW and aborts on anything else, and `MulMatEnd` frees
the converted B. `bBuf` is that buffer's state.

Strings are abstracted. argv tokens and environment values are members of
small sets. The conversions the code applies to them are tables over those
sets, given in `MCArgParse.tla`: `std::stoi`, the `_`→`-` rewrite, the split
at `#`, and the basename.

### Refinement

No refinement is checked. An earlier version mapped Prefetch's `stage` onto
an abstract per-shard phase machine (alloc → fetch → decrypt → done, with
eviction back to alloc). That mapping is one-to-one and the abstract
eviction allows nearly any reset, so its safety part held by construction
and its liveness part repeated `AllEventuallyLoaded`. The abstract module
and the property were removed. The questions it was meant to answer are
asked directly by `QueueMatchesStage`, `ReadsCompleteBeforeDecrypt`,
`DecryptedBeforeDone` and `AllEventuallyLoaded`.

## 3. Runs

| Run | Cfg | Expect | Checks and shows |
|---|---|---|---|
| `core` | `MCPrefetch.cfg` | pass | Main thread, 2 workers, 3 tensors, `IOCap = 1`, one reset after all finish; `is_strawman` is chosen in Init, so both branches are explored. The checks:<ul><li>`QueueMatchesStage`: queues agree with stages.</li><li>`ReadsCompleteBeforeDecrypt`: decrypt starts only after every read has landed and been reported.</li><li>`DecryptedBeforeDone`: a finished pipeline decrypted every chunk.</li><li>`RingsWithinCap`: the rings hold exactly the outstanding requests, at most `IOCap + 1` outside strawman.</li><li>`AllEventuallyLoaded`: every pipeline finishes.</li></ul> |
| `evict` | `MCPrefetchEvict.cfg` | violation | `QueueMatchesStage` with resets mid-flight: a reset pipeline is queued at alloc and still in its old stage's queue. |
| `ring_spsc` | `CmdRing_spsc.cfg` | pass | One producer and one consumer, as the frontend and backend use the ring; 3 slots and 6 items, so it wraps twice. The checks:<ul><li>`ReadsWhatWasWritten`: every read gets the item written to that position.</li><li>`AllDelivered`: every item is consumed.</li></ul> |
| `chcore` | `MCChCoreAlloc.cfg` | pass | 2 tensors (1 and 3 blocks), 2 regions, 2 threads, one reset. The checks:<ul><li>`StripeMatchesRef`: striping equals round-robin dealing, including the wrapped case.</li><li>`PagesMatchQuota`: each region holds exactly `block_nr` pages per tensor.</li><li>`ResetReleasesExactly`: rollback releases exactly those pages.</li><li>`AllAllocated`: every allocation completes.</li></ul> |
| `tzasc_window` | `MCChCoreAllocTzasc.cfg` | violation | `DecryptInsideWindow`: a tensor is decrypted while its range is still pending outside the TZASC window. |
| `tzasc_stall` | `MCChCoreAllocStall.cfg` | violation | `PendingEventuallyCommitted`: with the higher range first, the max-heap never drains a region. |
| `chcore_reset` | `MCChCoreAllocReset.cfg` | violation | `NoAbort`: a reset before allocation completes pops pages never pushed. |
| `npu` | `MCNpuDispatch.cfg` | pass | A graph of a Q8_0 MUL_MAT, a VIEW and an F16 MUL_MAT (m = 4, 3; k = 16384, two K tiles) on 3 workers, then free. The checks:<ul><li>`BarrierHolds`: no worker leaves a tile's barrier before all have reached it.</li><li>`ConvertedBLifetime`: while a worker is in its slice of a quantised node, the converted B is allocated, and none is left allocated or freed wrongly once the node ends.</li><li>`MasterWaitsForAll`: the dispatcher returns only after every tile is in C.</li></ul> |
| `npu_stale_nr` | `MCNpuDispatchStaleNr.cfg` | violation | `BarrierPartnerPresent`: workers reach the barrier with a stale `worker_nr` and block for ever. |
| `npu_re` | `MCNpuReMatmul.cfg` | pass | Three calls (two of one shape reusing kernel and buffers, then m = 1, which clears them), 2 compute and 3 NPU threads, then free. The checks:<ul><li>`InputRowsOnce`: every row is converted once.</li><li>`PostAfterNpu`: post reads only outputs the NPU has written.</li><li>`DstSums`: each dst cell gets one partial product per K tile.</li></ul> |
| `npu_re_hang` | `MCNpuReMatmulHang.cfg` | violation | `ComputeReturns`: `submit`'s unlocked `ready[i]`/notify is lost, so the spin on `finished_nr` never ends. |
| `args` | `MCArgParse.cfg` | pass | In the main example: every argv of up to 3 of 25 tokens, ten 4-token argvs, and every argv of up to 2 of 37 tokens, under up to 14 environments. The checks:<ul><li>`ParseOutcomeMatchesRef`: the parse returns true, exits for usage, returns false or aborts exactly when the reference says so.</li><li>`ParamsMatchRef`: the fields hold the reference values. A command-line option beats its variable, the last occurrence wins, and a failed parse leaves the caller's params untouched.</li><li>`BatchThreadsFollowMain`: without `-tb`, the batch pool's thread count is the main pool's, whether that came from `-t`, `LLAMA_ARG_THREADS`, the `<= 0` fallback or the default (`-tb`'s help, `arg.cpp:759`).</li></ul> |

Each property of a passing run has a mutant in `PROJECT.json`: a plausible
bug in the mapped code that TLC must catch. Examples:
* `block_nr` rounded down;
* `>` for `>=` in the last-chunk test;
* the io cap guard dropped;
* the ring index not wrapped;
* `reset_cnt` skipped;
* the spin ending early.

Nine configs are kept beside the runs. Each shows a hazard that PROJECT.json
lists but no run checks, because the project is limited to twelve runs:
* `CmdRing_mpmc.cfg`: `ReadsWhatWasWritten` is violated with two producers
  and two consumers. A consumer copies a slot whose memcpy has not
  happened. fake_ca's four CA threads each call `io_step` after every
  return of the run ioctl, so the rings have that many users whenever the
  TEE driver returns to two threads at once. The driver is not in this
  repository.
* `MCPrefetchIoCap.cfg`: `IOInFlightBound` is violated. The `<=` guard lets
  `IOCap + 1` IO tasks be outstanding.
* `MCNpuDispatchBatch2.cfg`: `BarrierHolds` is violated with m = 2. Since
  `worker_nr = min(m, THREAD_NR)`, two workers leave the barrier without the
  third.
* `MCNpuReMatmulSplitK.cfg`: `DstSums` is violated with nth = 2 and a K
  split into two tiles. Two post threads add into the same dst cell. This
  repository always calls with nth = 1.
* `MCNpuDispatchFree.cfg`: `FreeJoins` is violated. `ggml_backend_rknpu2_free`
  writes `done = true` and calls `notify_all` without holding `mtx`. A
  worker that has tested `ready[tid] || done` under `mtx`, but not yet
  blocked, misses the notify, so `join` never returns. The dispatcher's
  unlocked `ready[i] = true` is the same lost wakeup (`ggml-rknpu2.cpp:1591`).
  The `npu_re_hang` run shows the same pattern in rknpu-re.
* `MCArgParsePrompt.cfg`: `PromptCasesReachable` is FALSE. `parse_prompt`
  first uses len as an index into the 10 + 5 + 5 benchmark prompts. Only a
  len of 20 or more reaches the model's `switch`, so its `case 1` prompts
  can never be selected: "I I" for qwen and "I" for llama.
  `-p qwen#1` gives `ultra_chat_prompts[1]` instead (`arg.cpp:419`).
* `MCArgParsePrioBatch.cfg`: `PrioBatchHonoured` is violated by
  `--prio-batch 1`. The handler stores 1, but after the loop
  `postprocess_cpu_params(cpuparams_batch, &cpuparams)` sees
  `n_threads_batch` still negative and copies the whole main-pool struct,
  priority included (`arg.cpp:265`). `--prio-batch` only takes effect
  together with `-tb`.
* `FinishRace_sc.cfg` and `FinishRace_weak.cfg`: `FinalMsgSeen` holds when
  `finish_stage`'s two stores become visible in program order, and is
  violated when `current_stage = nullptr` becomes visible first. Neither the
  compiler nor an AArch64 core keeps two plain stores to different
  locations in order for another core, and nothing orders them here: the
  decrypt thread runs `finish_stage` outside every lock, and the reader
  spins on `is_finished()` without one. A thread that leaves its spin on
  the early `nullptr` then sets `tensor->data` to the old `final_msg`: the
  uninitialised member on the first round, or last round's buffer after a
  reset (`pipeline.cpp:27`, `prefetch.cpp:90`). The race needs the decrypt
  task to run on a thread other than the reader, which `step()` allows.

### Findings

| Finding | Kind | Run |
|---|---|---|
| `reset_param_tensor` never removes a pipeline from its io or decrypt queue, so it ends up queued twice (`prefetch.cpp:99`). | spec/code divergence | evict |
| ChCore `rollback` pops `block_nr` pages whatever was pushed (`alloc-stage-chcore.cpp:201`). | spec/code divergence | chcore_reset |
| `commit_tzasc`'s `priority_queue` is a max-heap, so ranges arriving out of order are never committed (`decrypt-stage.cpp:102`). | code bug | tzasc_stall |
| Decryption does not wait for the range to be committed (`decrypt-stage.cpp:128`). | code bug | tzasc_window |
| rknpu2 writes `worker_nr` after the ready flags, with no `cv_int` notify (`ggml-rknpu2.cpp:1252`). | code bug | npu_stale_nr |
| rknpu2 `free`'s unlocked `done`/notify is a lost wakeup (`ggml-rknpu2.cpp:1591`). | code bug | `MCNpuDispatchFree.cfg` (not a run) |
| `finish_stage` publishes `current_stage = nullptr` and `final_msg` with plain unordered stores, so `use_param_tensor` may read a stale `final_msg` (`pipeline.cpp:27`). | code bug | `FinishRace_weak.cfg` (not a run) |
| `--prio-batch` without `-tb` is overwritten by the main pool's priority after the argv loop (`arg.cpp:265`). | spec/code divergence | `MCArgParsePrioBatch.cfg` (not a run) |
| rknpu-re `submit`'s unlocked `ready`/notify, and the late `ready[tid] = false`, are lost wakeups (`ggml-rknpu-re.cpp:1843`, `1494`). | code bug | npu_re_hang |

### Bounds, and why they are enough

* **FinishRace.** One writer, one reader and one round. The race is
  between two stores and two loads of one pipeline; more readers or
  rounds repeat the same hand-off.

* **Prefetch.** The tensors and blocks:
  * three tensors, two of one layer (ordered by `cnt`) and one of a lower
    layer;
  * sizes 3, 1 and 2 with `DecBlock = 2`, covering a partial last chunk, a
    single partial chunk and an exact chunk;
  * `StrawBlock = 4`, which covers every tensor, as 8 GiB does.

  The scheduling bounds:
  * `IOCap = 1` makes the io guard bind, so two reads are outstanding and
    complete out of order;
  * two workers run two chunks of one pipeline at once;
  * one reset reaches a second round;
  * both values of `is_strawman` are explored.

  The core run has about 313 000 distinct states and takes about 2 minutes.
* **CmdRing.** 3 slots and 6 items give two wraps and a full ring (the
  in-flight bound of 3 equals the capacity).
* **ChCoreAlloc.** With 2 regions, a 3-block tensor wraps its stripe, and
  two threads bound to different regions get redirected.
* **NpuDispatch.** `THREAD_NR = 3` is the code's value, and m ≥ 3 is the
  case the code supports. k = 16384 gives two K tiles (cap 8192), so
  workers meet at the barrier twice per slice. The second MUL_MAT has
  another m, so a new kernel is created. Its src0 types give both kinds of
  B buffer: Q8_0 is converted into a malloc'd buffer and freed, F16 is
  used in place. `ToFloatTypes` ({F16, Q8_0, Q4_0}) is the set of types with
  a `to_float` in upstream ggml's type traits, which are not in this
  repository. The run has about 8 000 distinct states.
* **NpuReMatmul.** Three NPU threads (the code's value), two compute threads
  and three calls exercise:
  * kernel and buffer reuse, and the m = 1 clear;
  * rows shared across threads;
  * the last call followed by `free`.

* **ArgParse.** Up to three tokens is enough for:
  * an option with its value followed by a void option;
  * a void option followed by a value token;
  * a trailing option with no value.

  The four-token argvs add the orders that need two options with values:
  `-p` then `-f` and back, `-bf` and `-f`, two `-r`, and the thread-pool
  options in pairs. The 25 tokens include:
  * a `--` option with an underscore;
  * values that `stoi` rejects;
  * one `-p` value for each `parse_prompt` path: a table prompt, a droid
    prompt that the escape pass rewrites, a switch case, a len outside the
    switch, and a bad len.

  The two-token argvs over 37 tokens add the size, table-valued and
  interactive-mode options, with values their handlers accept and reject. The 14
  environments cover:
  * a variable overridden on the command line;
  * a bad int variable;
  * a variable of an option from another example (`LLAMA_ARG_CONT_BATCHING`,
    server only), which the main example ignores;
  * a void variable set to "1" and to "0";
  * each branch of `handle_model_default`;
  * every other modelled variable set, and bad values for an int and a
    float variable.

  The run has about 128 000 distinct states and takes about 2 minutes.

### Fairness

* **Prefetch:**
  * weak fairness of the main thread's `step()`, because ggml's polling
    routine and `use_param_tensor` call it in a loop;
  * weak fairness of each thread's run/submit of a task it holds;
  * weak fairness of disk completion, because every aio read completes.

  Workers' dispatch is not assumed fair. Liveness does not depend on
  workers taking decrypt work, since the main thread takes it when nothing
  else is ready.
* **CmdRing:** a thread inside `produce`/`consume` finishes, and the
  consumer keeps polling, as `io_step` and `__io_try_get` do.
* **ChCoreAlloc:** each thread's `get_task`/step/submit and each tensor's IO
  completion are weakly fair.
* **NpuDispatch:** the master and each worker are weakly fair.
* **NpuReMatmul:** the compute threads, the phase barrier and the master
  are weakly fair. NPU threads are *strongly* fair. An NPU thread waiting
  for `mtx` is enabled only while `mtx` is free, and `std::mutex` does not
  starve a waiter that keeps finding it free. Weak fairness would let a
  thread be overtaken for ever.

  A thread blocked on a condition variable is never woken by fairness, only
  by a notify. So the hangs found are real lost wakeups, not artefacts of
  missing fairness.
* **ArgParse:** weak fairness of its one sequential thread. No liveness
  property is checked, since a parse ends within `MaxArgs + 4` steps.

## 4. Not modelled, and why

* **`mapping.cpp` (CMA region mappings).** No code constructs a `mappings`
  or `cma_region`, so no behaviour of the program runs it. Were it used,
  `mappings::push` would hang `get`: after a region's last owner drops it,
  `cma_regions.emplace(offset, ...)` does not replace the expired
  `weak_ptr` already under that key, so `try_get(offset)` returns NULL for
  ever (`mapping.cpp:93`).
* **`crypto.cpp` (`crypto_mgr`).** It has no caller, and it redefines
  `decrypt_blocks`, `my_key` and `initial_vector` of `decrypt-stage.cpp`,
  so it cannot be linked into the loader. The decryption that runs is
  DecryptStage.
* **`ca-backend.cpp` and `examples/main/fake_ca.cpp`.** They set up shared
  memory and configuration strings. The `io_step` that fake_ca's threads call is the
  backend modelled in Prefetch. The rings' use by several of those threads
  is `CmdRing_mpmc.cfg`.
* **`io-aio.cpp` and `io-libaio.cpp`.** These are alternative IO helpers
  that the prefetch path does not use. The `dma_alloc`/`dma_buf_free`
  helpers are plain system calls.
* **The rest of `common/arg.cpp`.** These parts are not modelled:
  * the other add_opt calls (sampling, RoPE, server, speculative and
    control-vector options among them), whose handlers have the shapes
    modelled on fields that no modelled step reads;
  * `--cache`, which stores `stoi` of its value with no range check;
  * `kv_overrides`;
  * usage printing and help text, which are output only.
* **`infer_calling_test`.** It is a sequential driver with one call.
* **Parts of the modelled files:**
  * the eager branch of `use_param_tensor` (`cache_p`, 0 by default);
  * measurement counters and `record_measure`, which has no callers;
  * the io backend's context pool and `DUMMY_WEIGHT` growth;
  * the rknn runtime calls, the B-buffer cache of rknpu2 (`alloc_B`,
    rewritten for every tile), and its native-layout conversions, which no
    live path calls (`transform_tensor_back` is not called);
  * whether `to_float` exists for F32 (upstream ggml); the model's graph has
    no F32 src0;
  * rknpu-re's register-command generation, its ioctls and `pre_scale`,
    which is never called.

  These are data or I/O with no bearing on the control the properties
  are about.
* **rknpu-re's type gap.** `supports_op` accepts any src0 type, while
  `pre0` asserts F16 or Q8_0. The model contains both; a Q4_0 call aborts
  in TLC. No run gives one, because the weight types are chosen outside
  this repository.
* **rknpu-re's ChCore build.** NpuReMatmul models the `#else` branch of
  `rknpu2_matmul_submit` (NPU threads woken through `ready[]` and
  `cv_worker`). With `GGML_USE_CHCORE` the tasks are submitted inline by
  the calling thread (`ggml-rknpu-re.cpp:1828-1833`) and there are no NPU
  threads, so the `npu_re_hang` finding is about the non-ChCore build only.
* **Weak memory elsewhere.** Only the `finish_stage` hand-off is modelled
  with a store buffer (`FinishRace.tla`), and only on the writer's side; a
  load-load reordering in the reader gives the same stale read. The other
  modules take every shared access as sequentially consistent.
