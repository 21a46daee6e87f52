---------------------------- MODULE FinishRace ----------------------------
(***************************************************************************)
(* The hand-off of a finished pipeline to the thread that uses its tensor: *)
(* Pipeline::finish_stage (src/src/pipeline.cpp) in its DecryptStage       *)
(* branch stores final_msg and then clears current_stage, with plain       *)
(* stores and no lock held; use_param_tensor (src/src/prefetch.cpp) spins  *)
(* on is_finished() and then reads get_final_msg(), also unlocked.         *)
(*                                                                         *)
(* The two stores form a data race with the two loads.  Neither the        *)
(* compiler nor an AArch64 core keeps two plain stores to different        *)
(* locations in program order as seen by another core, so each store sits  *)
(* in the writer's store buffer until it is drained, and with Reorder the  *)
(* buffer may drain in either order.  With Reorder = FALSE the model is    *)
(* the sequentially consistent reading of the code.                        *)
(***************************************************************************)
EXTENDS FiniteSets

CONSTANTS
    Msg,      \* decrypt->get_msg() of this round: the decrypted buffer
    Stale,    \* what final_msg held before: uninitialised, or last round's
    Reorder   \* may the writer's two plain stores become visible out of order

ASSUME Reorder \in BOOLEAN /\ Msg # Stale

Locations == {"final_msg", "current_stage"}

VARIABLES
    wpc,      \* writer: "submit" (decrypt task running) or "done"
    pending,  \* stores issued by finish_stage, not yet visible to the reader
    buffered, \* the values those pending stores will write
    mem,      \* final_msg and current_stage as the reader's core sees them
    rpc,      \* reader (ith == 0): "spin", "read" or "done"
    data      \* tensor->data as the reader set it

vars == <<wpc, pending, buffered, mem, rpc, data>>

TypeOK ==
    /\ wpc \in {"submit", "done"}
    /\ pending \subseteq Locations
    /\ buffered \in [Locations -> {Msg, "null"}]
    /\ mem \in [final_msg : {Msg, Stale}, current_stage : {"decrypt", "null"}]
    /\ rpc \in {"spin", "read", "done"}
    /\ data \in {Msg, Stale, "unset"}

\* The pipeline is in its DecryptStage; final_msg holds an older value
\* (it is not in Pipeline's constructor list and rollback leaves it).
Init ==
    /\ wpc = "submit"
    /\ pending = {}
    /\ buffered = [l \in Locations |-> "null"]
    /\ mem = [final_msg |-> Stale, current_stage |-> "decrypt"]
    /\ rpc = "spin"
    /\ data = "unset"

\* The last decrypt task is submitted and finish_stage runs the
\* DecryptStage branch: final_msg = decrypt->get_msg(); current_stage =
\* nullptr.  Both stores enter the store buffer in program order.
finish_stage ==
    /\ wpc = "submit"
    /\ wpc' = "done"
    /\ pending' = Locations
    /\ buffered' = [final_msg |-> Msg, current_stage |-> "null"]
    /\ UNCHANGED <<mem, rpc, data>>

\* A buffered store becomes visible to the reader; in program order unless
\* Reorder allows current_stage to overtake final_msg.
Drain(l) ==
    /\ l \in pending
    /\ Reorder \/ l = "final_msg" \/ "final_msg" \notin pending
    /\ mem' = [mem EXCEPT ![l] = buffered[l]]
    /\ pending' = pending \ {l}
    /\ UNCHANGED <<wpc, buffered, rpc, data>>

\* One turn of while (!pipeline->is_finished()) sched->step(): the load of
\* current_stage still sees the stage, so the reader steps the scheduler.
Spin ==
    /\ rpc = "spin"
    /\ mem.current_stage # "null"
    /\ UNCHANGED vars

\* is_finished() sees nullptr and the loop exits.
ExitLoop ==
    /\ rpc = "spin"
    /\ mem.current_stage = "null"
    /\ rpc' = "read"
    /\ UNCHANGED <<wpc, pending, buffered, mem, data>>

\* if (ith == 0) tensor->data = pipeline->get_final_msg();
ReadFinalMsg ==
    /\ rpc = "read"
    /\ rpc' = "done"
    /\ data' = mem.final_msg
    /\ UNCHANGED <<wpc, pending, buffered, mem>>

Next ==
    \/ finish_stage
    \/ \E l \in Locations : Drain(l)
    \/ Spin
    \/ ExitLoop
    \/ ReadFinalMsg

Spec == Init /\ [][Next]_vars /\ WF_vars(Next)

-----------------------------------------------------------------------------
(* Properties.                                                             *)

\* Once use_param_tensor has left its spin loop on is_finished(), the
\* tensor it hands to the compute kernel points at this round's decrypted
\* buffer, never at the uninitialised or previous-round value of final_msg.
FinalMsgSeen == rpc = "done" => data = Msg

=============================================================================
