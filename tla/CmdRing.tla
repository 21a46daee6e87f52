------------------------------- MODULE CmdRing -------------------------------
(***************************************************************************)
(* ring_buffer<T, BUFFER_SIZE> of src/src/interface.h, the shared-memory   *)
(* queue that carries io_tasks from the REE frontend to the io backend and *)
(* io_results back.  produce() asserts the ring is not full, claims a slot *)
(* by a CAS on head, copies the item in, then increments count; consume()  *)
(* returns -1 when count is 0, else claims a slot by a CAS on tail, copies *)
(* the item out and decrements count.  Each of those steps is atomic on   *)
(* its own and other threads run between them.                             *)
(*                                                                         *)
(* The load/CAS retry loops are one Claim step each: a failed CAS changes *)
(* nothing and is retried, so the loop is an atomic fetch-and-increment    *)
(* modulo BUFFER_SIZE.                                                     *)
(***************************************************************************)
EXTENDS Integers, Sequences, FiniteSets

CONSTANTS
  N,            \* BUFFER_SIZE
  Producers,    \* threads that call produce()
  Consumers,    \* threads that call consume()
  MaxItems,     \* how many items are produced in a behaviour
  MaxInFlight   \* callers' bound on produced-but-unconsumed items (io_cnt)

ASSUME N \in Nat \ {0} /\ MaxItems \in Nat /\ MaxInFlight \in 1..N
ASSUME Producers \cap Consumers = {}

Items  == 1..MaxItems
NoItem == 0                                    \* a slot never written

VARIABLES
  buf,          \* buffer[]: what each slot holds
  head, tail,   \* the atomic head and tail indexes
  count,        \* the atomic count
  ppc, pSlot, pItem,          \* producers: step, claimed _head, *item
  cpc, cSlot, cVal, cPos,     \* consumers: step, claimed _tail, copy, position
  nextItem,     \* ghost: items handed to produce() so far
  posItem,      \* ghost: posItem[j] is the item whose producer claimed the j-th slot
  claimedH,     \* ghost: slots claimed by producers so far (head, unwrapped)
  claimedT,     \* ghost: slots claimed by consumers so far (tail, unwrapped)
  done,         \* ghost: consume() calls that returned 0
  aborted       \* the produce() assertion failed

vars == <<buf, head, tail, count, ppc, pSlot, pItem, cpc, cSlot, cVal, cPos,
          nextItem, posItem, claimedH, claimedT, done, aborted>>

Slots == 0..N-1

\* Fault variant of Succ: the index is not wrapped
Succ_noWrap(x) == x + 1

\* Fault variant of HasItems: the emptiness test is dropped
HasItems_any == count >= 0

\* (_x + 1) % BUFFER_SIZE
Succ(x) == (x + 1) % N

-----------------------------------------------------------------------------
(* produce()                                                               *)

\* Entry of produce(item): GGML_ASSERT(count.load() != BUFFER_SIZE)
ProduceStart(p) ==
  /\ ~aborted
  /\ ppc[p] = "idle"
  /\ nextItem < MaxItems
  /\ nextItem - done < MaxInFlight
  /\ nextItem' = nextItem + 1
  /\ pItem' = [pItem EXCEPT ![p] = nextItem + 1]
  /\ IF count = N
       THEN aborted' = TRUE /\ UNCHANGED ppc
       ELSE ppc' = [ppc EXCEPT ![p] = "claim"] /\ UNCHANGED aborted
  /\ UNCHANGED <<buf, head, tail, count, pSlot, cpc, cSlot, cVal, cPos,
                 posItem, claimedH, claimedT, done>>

\* head.compare_exchange_strong(_head, (_head + 1) % BUFFER_SIZE) succeeds
ProduceClaim(p) ==
  /\ ~aborted
  /\ ppc[p] = "claim"
  /\ pSlot' = [pSlot EXCEPT ![p] = head]
  /\ head' = Succ(head)
  /\ posItem' = [posItem EXCEPT ![claimedH] = pItem[p]]
  /\ claimedH' = claimedH + 1
  /\ ppc' = [ppc EXCEPT ![p] = "copy"]
  /\ UNCHANGED <<buf, tail, count, pItem, cpc, cSlot, cVal, cPos, nextItem,
                 claimedT, done, aborted>>

\* memcpy(buffer + _head, item, sizeof(T))
ProduceCopy(p) ==
  /\ ~aborted
  /\ ppc[p] = "copy"
  /\ buf' = [buf EXCEPT ![pSlot[p]] = pItem[p]]
  /\ ppc' = [ppc EXCEPT ![p] = "publish"]
  /\ UNCHANGED <<head, tail, count, pSlot, pItem, cpc, cSlot, cVal, cPos,
                 nextItem, posItem, claimedH, claimedT, done, aborted>>

\* count++; return 0
ProducePublish(p) ==
  /\ ~aborted
  /\ ppc[p] = "publish"
  /\ count' = count + 1
  /\ ppc' = [ppc EXCEPT ![p] = "idle"]
  /\ UNCHANGED <<buf, head, tail, pSlot, pItem, cpc, cSlot, cVal, cPos,
                 nextItem, posItem, claimedH, claimedT, done, aborted>>

-----------------------------------------------------------------------------
(* consume()                                                               *)

\* Fault variant of HasItems: the emptiness test reads count > 1
HasItems_gt1 == count > 1

\* consume(): if (count.load() == 0) return -1;
HasItems == count # 0

\* The count test passes (a failing test returns -1 and changes nothing)
ConsumeStart(c) ==
  /\ ~aborted
  /\ cpc[c] = "idle"
  /\ HasItems
  /\ cpc' = [cpc EXCEPT ![c] = "claim"]
  /\ UNCHANGED <<buf, head, tail, count, ppc, pSlot, pItem, cSlot, cVal, cPos,
                 nextItem, posItem, claimedH, claimedT, done, aborted>>

\* tail.compare_exchange_strong(_tail, (_tail + 1) % BUFFER_SIZE) succeeds
ConsumeClaim(c) ==
  /\ ~aborted
  /\ cpc[c] = "claim"
  /\ cSlot' = [cSlot EXCEPT ![c] = tail]
  /\ cPos' = [cPos EXCEPT ![c] = claimedT]
  /\ tail' = Succ(tail)
  /\ claimedT' = claimedT + 1
  /\ cpc' = [cpc EXCEPT ![c] = "copy"]
  /\ UNCHANGED <<buf, head, count, ppc, pSlot, pItem, cVal, nextItem, posItem,
                 claimedH, done, aborted>>

\* memcpy(item, buffer + _tail, sizeof(T))
ConsumeCopy(c) ==
  /\ ~aborted
  /\ cpc[c] = "copy"
  /\ cVal' = [cVal EXCEPT ![c] = buf[cSlot[c]]]
  /\ cpc' = [cpc EXCEPT ![c] = "release"]
  /\ UNCHANGED <<buf, head, tail, count, ppc, pSlot, pItem, cSlot, cPos,
                 nextItem, posItem, claimedH, claimedT, done, aborted>>

\* count--; return 0
ConsumeRelease(c) ==
  /\ ~aborted
  /\ cpc[c] = "release"
  /\ count' = count - 1
  /\ done' = done + 1
  /\ cpc' = [cpc EXCEPT ![c] = "idle"]
  /\ UNCHANGED <<buf, head, tail, ppc, pSlot, pItem, cSlot, cVal, cPos,
                 nextItem, posItem, claimedH, claimedT, aborted>>

-----------------------------------------------------------------------------

\* ring_buffer(): head(0), tail(0), count(0); the buffer is zero-filled shm
Init ==
  /\ buf = [s \in Slots |-> NoItem]
  /\ head = 0 /\ tail = 0 /\ count = 0
  /\ ppc = [p \in Producers |-> "idle"]
  /\ pSlot = [p \in Producers |-> 0]
  /\ pItem = [p \in Producers |-> NoItem]
  /\ cpc = [c \in Consumers |-> "idle"]
  /\ cSlot = [c \in Consumers |-> 0]
  /\ cVal = [c \in Consumers |-> NoItem]
  /\ cPos = [c \in Consumers |-> 0]
  /\ nextItem = 0
  /\ posItem = [j \in 0..MaxItems |-> NoItem]
  /\ claimedH = 0 /\ claimedT = 0 /\ done = 0
  /\ aborted = FALSE

Next ==
  \/ \E p \in Producers :
       ProduceStart(p) \/ ProduceClaim(p) \/ ProduceCopy(p) \/ ProducePublish(p)
  \/ \E c \in Consumers :
       ConsumeStart(c) \/ ConsumeClaim(c) \/ ConsumeCopy(c) \/ ConsumeRelease(c)

\* A thread inside produce() or consume() runs to its end; a consumer that
\* polls (io_step's and __io_try_get's loops) keeps polling.
Fairness ==
  /\ \A p \in Producers :
       WF_vars(ProduceClaim(p) \/ ProduceCopy(p) \/ ProducePublish(p))
  /\ \A c \in Consumers :
       WF_vars(ConsumeStart(c) \/ ConsumeClaim(c) \/ ConsumeCopy(c)
                 \/ ConsumeRelease(c))

Spec == Init /\ [][Next]_vars /\ Fairness

-----------------------------------------------------------------------------
(* Properties                                                              *)

TypeOK ==
  /\ buf \in [Slots -> Items \cup {NoItem}]
  /\ head \in Slots /\ tail \in Slots
  /\ count \in Int
  /\ ppc \in [Producers -> {"idle", "claim", "copy", "publish"}]
  /\ cpc \in [Consumers -> {"idle", "claim", "copy", "release"}]
  /\ pSlot \in [Producers -> Slots] /\ cSlot \in [Consumers -> Slots]
  /\ cVal \in [Consumers -> Items \cup {NoItem}]
  /\ nextItem \in 0..MaxItems /\ done \in 0..MaxItems
  /\ aborted \in BOOLEAN

\* What consume() copies out of a slot is the item that the producer which
\* claimed that same position copied in: not a slot whose memcpy has not
\* happened yet (count++ of a later producer published it), not a slot
\* already overwritten by a producer a lap ahead, and not an empty slot
\* claimed on a stale count by a second consumer.
ReadsWhatWasWritten ==
  \A c \in Consumers :
    cpc[c] = "release" => cVal[c] = posItem[cPos[c]] /\ cVal[c] # NoItem

\* Every item handed to produce() is eventually consumed (the io backend
\* sees every io_task and the frontend every io_result).
AllDelivered ==
  \A k \in Items : (nextItem >= k) ~> (done >= k)

=============================================================================
