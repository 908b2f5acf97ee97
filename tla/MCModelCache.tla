---------------------------- MODULE MCModelCache ----------------------------
(***************************************************************************)
(* ModelCache with a few workers, the default model and one other.         *)
(***************************************************************************)
EXTENDS ModelCachePool, TLC

Symmetry == Permutations(Threads)

\* What can still be read: a worker outside checkout() and processChunk() knows
\* nothing of its last chunk; the slot counts while it is leased, the settings to
\* restore once they were saved, the disconnect until the inference begins.
Reads(t) ==
  LET th == thread[t] IN
    << th.pc, th.left,
       IF th.pc = "idle" THEN <<>> ELSE <<th.model>>,
       IF th.pc \in {"idle", "releasing"} THEN {} ELSE th.overrides,
       IF Leasing(t) THEN th.slot ELSE 0,
       IF th.pc \in {"configured", "infer", "split"} THEN th.previous ELSE FromFile,
       gone[t] /\ th.pc \in {"entering", "asleep", "woken", "loading", "leased", "configured"} >>

View == <<slots, loadingSlots, inUse, config, [t \in Threads |-> Reads(t)]>>
=============================================================================
