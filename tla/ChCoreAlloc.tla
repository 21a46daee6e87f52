----------------------------- MODULE ChCoreAlloc -----------------------------
(***************************************************************************)
(* The LLAMA_USE_CHCORE_API build of the pipeline's front half:            *)
(*   - AllocStage of alloc-stage-chcore.cpp: a tensor's all_block_nr       *)
(*     blocks striped over the TZASC_NR protected regions from a global    *)
(*     last_pos, handed out as tasks by get_task on any thread (each       *)
(*     thread asks for its own region, get_cma_index, and is redirected    *)
(*     when that region's quota is used up), each task pushing one block   *)
(*     of pages in its region (push_pages), submit gathering them into     *)
(*     msg.paddr, rollback popping block_nr pages per region;              *)
(*   - IOStage::start's per-region range [front, back] of the sorted paddr *)
(*     lists, and DecryptStage::start's commit_tzasc of those ranges,      *)
(*     which grows each region's protected window from cur_addr.           *)
(* The IO stage itself (modelled in Prefetch) is one step, completing in   *)
(* any order across tensors.                                               *)
(*                                                                         *)
(* Addresses are in block units from each region's base, which is 1: the   *)
(* code's bases (cur_addr[]) are non-zero, so the {0, 0} range IOStage     *)
(* gives an empty region never matches one.  The kernel side of            *)
(* push_pages/pop_pages is a per-region stack: a push takes the next block *)
(* above the last, a pop releases the last.                                *)
(***************************************************************************)
EXTENDS Integers, Sequences, FiniteSets, FiniteSetsExt, Functions

CONSTANTS
  Tensors,           \* tensors passed to register_param_tensor
  Threads,           \* threads that call sched->step()
  TZ,                \* TZASC_NR
  Blocks,            \* Blocks[t]: all_block_nr = ceil(size / BLOCK_SIZE)
  CmaIndex,          \* CmaIndex[th]: get_cma_index(), index.fetch_add(1) % TZASC_NR
  MaxResets,         \* bound on reset_param_tensor calls
  ResetOnlyWhenDone  \* reset only once every pipeline is past its alloc stage

Regions == 0..TZ-1
Base    == 1
NoTask  == [t |-> "none", r |-> -1, page |-> 0]

ASSUME TZ \in Nat \ {0} /\ MaxResets \in Nat /\ ResetOnlyWhenDone \in BOOLEAN
ASSUME \A t \in Tensors : Blocks[t] \in Nat \ {0}
ASSUME CmaIndex \in [Threads -> Regions]

VARIABLES
  registered, seq,   \* param_tensors keys, and the cnt each got
  startPos,          \* ghost: startPos[t] is t's cur_start, last_pos % TZASC_NR
  lastPos,           \* std::atomic<int> last_pos
  blockNr,           \* blockNr[t][r]: AllocStage::block_nr[r]
  getNr,             \* getNr[t][r]: AllocStage::get_nr[r]
  submitPos,         \* AllocStage::submit_pos, in blocks
  finishedNr,        \* AllocStage::finished_nr
  paddr,             \* paddr[t][r]: the blocks in msg.paddr[r]
  stage,             \* "alloc", "io" or "decrypt" (current_stage)
  held,              \* held[th]: the AllocTask th is running, or NoTask
  pages,             \* pages[r]: owner of each block pushed in region r
  curAddr,           \* cur_addr[r]
  pending,           \* pending_addr[r], as a set of <<base, top>>
  resets,
  aborted            \* a GGML_ASSERT or BUG_ON failed

vars == <<registered, seq, startPos, lastPos, blockNr, getNr, submitPos, finishedNr,
          paddr, stage, held, pages, curAddr, pending, resets, aborted>>

-----------------------------------------------------------------------------
(* Striping of the AllocStage constructor                                  *)

\* Fault variant of Stripe: the wrapped case counts i <= cur_end
Stripe_incl(all, start) ==
  LET cend == (start + all) % TZ IN
  [i \in Regions |-> all \div TZ +
     IF IF start <= cend THEN start <= i /\ i < cend ELSE start <= i \/ i <= cend
     THEN 1 ELSE 0]

\* block_nr[i] = all_block_nr / TZASC_NR, plus one for the regions from
\* cur_start up to (not including) cur_end, cyclically
Stripe(all, start) ==
  LET cend == (start + all) % TZ IN
  [i \in Regions |-> all \div TZ +
     IF IF start <= cend THEN start <= i /\ i < cend ELSE start <= i \/ i < cend
     THEN 1 ELSE 0]

\* Reference: blocks start, start+1, ... go round-robin over the regions
StripeRef(all, start) ==
  [i \in Regions |-> Cardinality({k \in start..(start + all - 1) : k % TZ = i})]

-----------------------------------------------------------------------------
(* Helpers                                                                 *)

\* blocks of region r that t's pages occupy
Owned(t, r) == {k \in DOMAIN pages[r] : pages[r][k] = t}

\* the pipeline at the top of the alloc queue that still has tasks
AllocReady == {t \in registered : stage[t] = "alloc" /\ submitPos[t] < Blocks[t]}
Top == CHOOSE t \in AllocReady : \A u \in AllocReady : seq[t] <= seq[u]

\* Fault variant of Redirect: a full region is one with get_nr <= block_nr
Redirect_le(t, r0) ==
  IF getNr[t][r0] = blockNr[t][r0] /\ \E i \in Regions : getNr[t][i] <= blockNr[t][i]
    THEN Min({i \in Regions : getNr[t][i] <= blockNr[t][i]})
    ELSE r0

\* get_task's region: the caller's, or the first with quota left
Redirect(t, r0) ==
  IF getNr[t][r0] = blockNr[t][r0] /\ \E i \in Regions : getNr[t][i] < blockNr[t][i]
    THEN Min({i \in Regions : getNr[t][i] < blockNr[t][i]})
    ELSE r0

\* IOStage::start: {front().first, back().second} of the sorted paddr[r],
\* {0, 0} for an empty one
RangeOf(S) == IF S = {} THEN <<0, 0>> ELSE <<Min(S), Max(S) + 1>>

\* pending_addr[r].top(): the largest pair of a std::priority_queue
Largest(P) == CHOOSE x \in P : \A y \in P : y[1] < x[1] \/ (y[1] = x[1] /\ y[2] <= x[2])

\* commit_tzasc's loop: while the top range starts at cur_addr, move
\* cur_addr to its end and pop it; result <<pending, cur_addr>>
RECURSIVE Drain(_, _)
Drain(P, cur) ==
  IF P # {} /\ Largest(P)[1] = cur
    THEN Drain(P \ {Largest(P)}, Largest(P)[2])
    ELSE <<P, cur>>

\* commit_tzasc(r, base, top) for every region r, given its range
CommitAll(range) ==
  LET after == [r \in Regions |-> Drain(pending[r] \cup {range[r]}, curAddr[r])] IN
  /\ pending' = [r \in Regions |-> after[r][1]]
  /\ curAddr' = [r \in Regions |-> after[r][2]]

\* push_pages(len, cma_index): the kernel pushes one block of pages on the
\* region's stack, owned by t
PushPages(r, t) == Append(pages[r], t)

\* n calls of pop_pages(cma_index), each releasing the region's last block;
\* a pop from an empty region fails BUG_ON(ret != 0)
PopFails(r, n) == n > Len(pages[r])
PopPages(r, n) == SubSeq(pages[r], 1, Len(pages[r]) - n)

-----------------------------------------------------------------------------
(* Actions                                                                 *)

\* register_param_tensor(t): the AllocStage constructor stripes t's blocks
\* from last_pos.fetch_add(all_block_nr) % TZASC_NR; start(NULL); enqueue
Register(t) ==
  /\ ~aborted
  /\ t \notin registered
  /\ registered' = registered \cup {t}
  /\ seq' = [seq EXCEPT ![t] = Cardinality(registered)]
  /\ blockNr' = [blockNr EXCEPT ![t] = Stripe(Blocks[t], lastPos % TZ)]
  /\ startPos' = [startPos EXCEPT ![t] = lastPos % TZ]
  /\ lastPos' = lastPos + Blocks[t]
  /\ UNCHANGED <<getNr, submitPos, finishedNr, paddr, stage, held, pages,
                 curAddr, pending, resets, aborted>>

\* step() takes get_task(alloc, get_cma_index()) under the scheduler lock:
\* AllocStage::get_task under submit_pos_mtx
GetTask(th) ==
  /\ ~aborted
  /\ held[th] = NoTask
  /\ AllocReady # {}
  /\ LET t == Top
         r == Redirect(t, CmaIndex[th])
     IN IF \E i \in Regions : getNr[t][i] > blockNr[t][i]
          THEN aborted' = TRUE /\ UNCHANGED <<getNr, submitPos, held>>
          ELSE /\ getNr' = [getNr EXCEPT ![t][r] = @ + 1]
               /\ submitPos' = [submitPos EXCEPT ![t] = @ + 1]
               /\ held' = [held EXCEPT ![th] = [t |-> t, r |-> r, page |-> 0]]
               /\ UNCHANGED aborted
  /\ UNCHANGED <<registered, seq, startPos, lastPos, blockNr, finishedNr, paddr, stage,
                 pages, curAddr, pending, resets>>

\* AllocTask::step under cma_mtx[cma_index]: push_pages(size, cma_index)
\* and map the entry it returns
AllocStep(th) ==
  /\ ~aborted
  /\ held[th] # NoTask /\ held[th].page = 0
  /\ LET r == held[th].r IN
     /\ pages' = [pages EXCEPT ![r] = PushPages(r, held[th].t)]
     /\ held' = [held EXCEPT ![th].page = Len(pages[r]) + 1]
  /\ UNCHANGED <<registered, seq, startPos, lastPos, blockNr, getNr, submitPos,
                 finishedNr, paddr, stage, curAddr, pending, resets, aborted>>

\* Fault variant of LastSubmit: compares old_nr, not old_nr + 1
LastSubmit_old(t) == finishedNr[t] = Blocks[t]

\* Fault variant of LastSubmit: one short of all_block_nr
LastSubmit_early(t) == finishedNr[t] + 2 = Blocks[t]

\* old_nr + 1 == all_block_nr, old_nr being finished_nr.fetch_add(1)
LastSubmit(t) == finishedNr[t] + 1 = Blocks[t]

\* AllocStage::submit: gather the entry into msg.paddr[cma_index] under
\* gather_mtx, finished_nr.fetch_add(1); the last one makes step() call
\* finish_stage, i.e. IOStage::start, and enqueue the pipeline for IO
AllocSubmit(th) ==
  /\ ~aborted
  /\ held[th] # NoTask /\ held[th].page # 0
  /\ LET t == held[th].t
         r == held[th].r
     IN /\ paddr' = [paddr EXCEPT ![t][r] = @ \cup {held[th].page}]
        /\ finishedNr' = [finishedNr EXCEPT ![t] = @ + 1]
        /\ stage' = IF LastSubmit(t)
                      THEN [stage EXCEPT ![t] = "io"] ELSE stage
  /\ held' = [held EXCEPT ![th] = NoTask]
  /\ UNCHANGED <<registered, seq, startPos, lastPos, blockNr, getNr, submitPos, pages,
                 curAddr, pending, resets, aborted>>

\* The IO stage of t completes (in any order across tensors); finish_stage
\* calls DecryptStage::start, which commits each region's range of t
IoDone(t) ==
  /\ ~aborted
  /\ stage[t] = "io"
  /\ stage' = [stage EXCEPT ![t] = "decrypt"]
  /\ CommitAll([r \in Regions |-> RangeOf(paddr[t][r])])
  /\ UNCHANGED <<registered, seq, startPos, lastPos, blockNr, getNr, submitPos,
                 finishedNr, paddr, held, pages, resets, aborted>>

\* Fault variant of PopCount: one pop per region that has a share
PopCount_one(t, r) == IF blockNr[t][r] > 0 THEN 1 ELSE 0

\* AllocStage::rollback: pop_pages(cma_index) block_nr[cma_index] times
PopCount(t, r) == blockNr[t][r]

\* reset_param_tensor: rollback of every pipeline, then AllocStage::start
\* (finished_nr, get_nr, submit_pos zeroed, cma_indexes cleared; paddr is
\* left as it is) and enqueue.  A pop from an empty region fails BUG_ON.
Reset ==
  /\ ~aborted
  /\ resets < MaxResets
  /\ registered # {}
  /\ \A th \in Threads : held[th] = NoTask
  /\ ResetOnlyWhenDone => \A t \in registered : stage[t] = "decrypt"
  /\ resets' = resets + 1
  /\ LET pops(r) == SumFunction([t \in registered |-> PopCount(t, r)]) IN
     IF \E r \in Regions : PopFails(r, pops(r))
       THEN aborted' = TRUE /\ UNCHANGED <<getNr, submitPos, finishedNr, stage, pages>>
       ELSE /\ pages' = [r \in Regions |-> PopPages(r, pops(r))]
            /\ getNr' = [t \in Tensors |->
                           IF t \in registered THEN [r \in Regions |-> 0] ELSE getNr[t]]
            /\ submitPos' = [t \in Tensors |-> IF t \in registered THEN 0 ELSE submitPos[t]]
            /\ finishedNr' = [t \in Tensors |-> IF t \in registered THEN 0 ELSE finishedNr[t]]
            /\ stage' = [t \in Tensors |-> IF t \in registered THEN "alloc" ELSE stage[t]]
            /\ UNCHANGED aborted
  /\ UNCHANGED <<registered, seq, startPos, lastPos, blockNr, paddr, held, curAddr, pending>>

Init ==
  /\ registered = {}
  /\ seq = [t \in Tensors |-> 0]
  /\ startPos = [t \in Tensors |-> 0]
  /\ lastPos = 0
  /\ blockNr = [t \in Tensors |-> [r \in Regions |-> 0]]
  /\ getNr = [t \in Tensors |-> [r \in Regions |-> 0]]
  /\ submitPos = [t \in Tensors |-> 0]
  /\ finishedNr = [t \in Tensors |-> 0]
  /\ paddr = [t \in Tensors |-> [r \in Regions |-> {}]]
  /\ stage = [t \in Tensors |-> "alloc"]
  /\ held = [th \in Threads |-> NoTask]
  /\ pages = [r \in Regions |-> <<>>]
  /\ curAddr = [r \in Regions |-> Base]
  /\ pending = [r \in Regions |-> {}]
  /\ resets = 0
  /\ aborted = FALSE

Next ==
  \/ \E t \in Tensors : Register(t) \/ IoDone(t)
  \/ \E th \in Threads : GetTask(th) \/ AllocStep(th) \/ AllocSubmit(th)
  \/ Reset

\* Every thread keeps calling step() (sched_step is ggml's polling routine),
\* and a thread that took a task runs and submits it; the IO of every
\* tensor completes.
Fairness ==
  /\ \A th \in Threads : WF_vars(GetTask(th)) /\ WF_vars(AllocStep(th))
                         /\ WF_vars(AllocSubmit(th))
  /\ \A t \in Tensors : WF_vars(IoDone(t))

Spec == Init /\ [][Next]_vars /\ Fairness

-----------------------------------------------------------------------------
(* Properties                                                              *)

TypeOK ==
  /\ registered \subseteq Tensors
  /\ blockNr \in [Tensors -> [Regions -> Nat]]
  /\ getNr \in [Tensors -> [Regions -> Nat]]
  /\ \A t \in Tensors, r \in Regions : getNr[t][r] <= blockNr[t][r]
  /\ submitPos \in [Tensors -> Nat] /\ finishedNr \in [Tensors -> Nat]
  /\ paddr \in [Tensors -> [Regions -> SUBSET Nat]]
  /\ stage \in [Tensors -> {"alloc", "io", "decrypt"}]
  /\ pages \in [Regions -> Seq(Tensors)]
  /\ curAddr \in [Regions -> Nat]
  /\ aborted \in BOOLEAN

\* Once a tensor's AllocStage has finished, each region holds exactly its
\* block_nr share of the tensor's pages, although the tasks were taken by
\* threads bound to arbitrary regions and redirected by get_task: this is
\* what makes rollback's block_nr pops per region release what was pushed.
PagesMatchQuota ==
  \A t \in registered, r \in Regions :
    stage[t] # "alloc" => Cardinality(Owned(t, r)) = blockNr[t][r]

\* reset_param_tensor releases every page of every pipeline and no page of
\* anyone else: right after a reset (no task taken yet) no pipeline owns a
\* page, and the regions' pages are exactly those of pipelines allocating.
ResetReleasesExactly ==
  \A t \in registered :
    stage[t] = "alloc" /\ submitPos[t] = 0 =>
      \A r \in Regions : Owned(t, r) = {}

\* A tensor whose IO has finished is decrypted (DecryptTask::step writes
\* plaintext into its pages) only after commit_tzasc has put every one of
\* its pages inside its region's protected window [Base, cur_addr).
DecryptInsideWindow ==
  \A t \in registered, r \in Regions :
    stage[t] = "decrypt" => \A k \in Owned(t, r) : k < curAddr[r]

\* The AllocStage constructor's block_nr[] gives each region exactly the
\* number of the tensor's blocks that fall on it when blocks cur_start,
\* cur_start + 1, ... are dealt round-robin, in the wrapped case included.
StripeMatchesRef ==
  \A t \in registered : blockNr[t] = StripeRef(Blocks[t], startPos[t])

\* No GGML_ASSERT of get_task and no BUG_ON of pop_pages fires: in
\* particular rollback never pops more pages of a region than were pushed.
NoAbort == ~aborted

\* Every non-empty range handed to commit_tzasc is eventually configured:
\* one left in pending_addr keeps its pages outside the protected window
\* for ever.  (The {0, 0} range of a region a tensor has no block in is
\* pushed too and never popped; it is empty and is left out.)
Unconfigured(r) == {x \in pending[r] : x[1] < x[2]}

PendingEventuallyCommitted ==
  \A r \in Regions : (Unconfigured(r) # {}) ~> (Unconfigured(r) = {})

\* Every registered tensor's allocation eventually completes.
AllAllocated ==
  \A t \in Tensors : (t \in registered) ~> (stage[t] # "alloc")

=============================================================================
