----------------------------- MODULE ModelCache -----------------------------
(***************************************************************************)
(* The pool of loaded voices, class ModelCache of src/cpp/server.cpp, and  *)
(* the way processChunk() uses one: a chunk worker checks a voice out,     *)
(* overwrites its synthesis settings with those of its request, runs the   *)
(* inference, puts the settings back and returns the voice.                *)
(*                                                                         *)
(* Each model has a ModelRuntime with a mutex, a condition variable and    *)
(* its slots.  One action is one critical section of that mutex, or a      *)
(* piece of processChunk() that works on the leased voice.                 *)
(*                                                                         *)
(* Operators whose name starts with Mut are faulty variants of the one     *)
(* defined after them, as in FairTtsScheduler.                             *)
(***************************************************************************)
EXTENDS Integers, FiniteSets

CONSTANTS
  Threads,           \* the chunk workers
  Models,            \* the models requests can name
  DefaultModel,      \* the model the server was started with
  MaxModelReplicas,  \* options.maxModelReplicas
  Fields,            \* the settings a request can override
  CliFields,         \* those given on the server's command line
  MaxChunks          \* bound: chunks one thread processes

ASSUME ModelCacheAssumption ==
  /\ IsFiniteSet(Threads)
  /\ DefaultModel \in Models
  /\ MaxModelReplicas \in Nat /\ MaxChunks \in Nat
  /\ "sentenceSilence" \in Fields /\ CliFields \subseteq Fields

maxReplicas == IF MaxModelReplicas > 1 THEN MaxModelReplicas ELSE 1
Replicas == 1..maxReplicas

VARIABLES
  slots,         \* number of loaded voices of each model, slots.size()
  loadingSlots,  \* voices of each model being loaded
  inUse,         \* the slots of each model that are leased
  config,        \* the synthesisConfig of the voice in each slot
  thread,        \* what each worker is doing
  gone           \* the client of the thread's chunk has disconnected

vars == <<slots, loadingSlots, inUse, config, thread, gone>>

\* A setting's value is named for where it comes from: the voice's .json file,
\* the command line, the request of one thread, or the zero that textToAudio
\* puts in the sentence silence while it splits a text itself.
Values == {"file", "cli", "zero"} \cup Threads
Settings == [Fields -> Values]

\* What loadVoice() sets, and what main() makes of the voice it loads itself.
FromFile == [f \in Fields |-> "file"]
FromMain == [f \in Fields |-> IF f \in CliFields THEN "cli" ELSE "file"]

\* The settings a slot has when nobody uses it.
Baseline(m, s) == IF m = DefaultModel /\ s = 1 THEN FromMain ELSE FromFile

ThreadStates == {"idle", "entering", "asleep", "woken", "loading", "leased", "configured",
                 "infer", "split", "releasing"}

TypeOK ==
  /\ slots \in [Models -> Nat]
  /\ loadingSlots \in [Models -> Nat]
  /\ inUse \in [Models -> SUBSET Replicas]
  /\ config \in [Models -> [Replicas -> Settings]]
  /\ thread \in [Threads -> [pc : ThreadStates, model : Models, slot : Replicas,
                             overrides : SUBSET Fields, previous : Settings,
                             left : Nat]]
  /\ gone \in [Threads -> BOOLEAN]

Init ==
  /\ slots = [m \in Models |-> IF m = DefaultModel THEN 1 ELSE 0]
  /\ loadingSlots = [m \in Models |-> 0]
  /\ inUse = [m \in Models |-> {}]
  /\ config = [m \in Models |-> [s \in Replicas |-> Baseline(m, s)]]
  /\ thread = [t \in Threads |->
       [pc |-> "idle", model |-> DefaultModel, slot |-> 1, overrides |-> {},
        previous |-> FromFile, left |-> MaxChunks]]
  /\ gone = [t \in Threads |-> FALSE]

-----------------------------------------------------------------------------
(* Helpers                                                                 *)

MutFree(m) == 1..slots[m]
Free(m) == (1..slots[m]) \ inUse[m]

At(m, where) == {t \in Threads : thread[t].pc = where /\ thread[t].model = m}

\* The thread states after notify_all() and the possible ones after notify_one().
NotifiedAll(m, threads) ==
  [u \in Threads |-> IF u \in At(m, "asleep") THEN [threads[u] EXCEPT !.pc = "woken"]
                     ELSE threads[u]]

MutNotifiedOne(m, threads) == {threads}
NotifiedOne(m, threads) ==
  IF At(m, "asleep") = {} THEN {threads}
  ELSE {[threads EXCEPT ![u].pc = "woken"] : u \in At(m, "asleep")}

Goto(t, where) == [thread EXCEPT ![t].pc = where]

\* The slots are searched in order: the thread takes the first free one of its
\* model.
Lease(t) ==
  LET m == thread[t].model IN
    /\ \E s \in Free(m) :
         /\ \A r \in Free(m) : s <= r
         /\ inUse' = [inUse EXCEPT ![m] = @ \cup {s}]
         /\ thread' = [thread EXCEPT ![t].pc = "leased", ![t].slot = s]
    /\ UNCHANGED <<slots, loadingSlots>>

MutFull(m) == slots[m] >= maxReplicas
Full(m) == slots[m] + loadingSlots[m] >= maxReplicas

\* The settings of the thread's own voice become new.
Configure(t, new) ==
  config' = [config EXCEPT ![thread[t].model][thread[t].slot] = new]

Leased(t) == config[thread[t].model][thread[t].slot]

\* The request's settings over those the voice has.
Overridden(settings, t) ==
  [f \in Fields |-> IF f \in thread[t].overrides THEN t ELSE settings[f]]

-----------------------------------------------------------------------------
(* checkout()                                                              *)

\* The client of a chunk in progress disconnects.
Disconnect(t) ==
  /\ thread[t].pc # "idle" /\ ~gone[t]
  /\ gone' = [gone EXCEPT ![t] = TRUE]
  /\ UNCHANGED <<slots, loadingSlots, inUse, config, thread>>

\* A chunk for model m whose request overrides the settings o.  resolve() and
\* runtimeFor() find the model's runtime; a model they cannot resolve throws
\* and changes nothing.
Checkout(t, m, o) ==
  /\ thread[t].pc = "idle" /\ thread[t].left > 0
  /\ thread' = [thread EXCEPT ![t].pc = "entering", ![t].model = m,
                              ![t].overrides = o,
                              ![t].left = thread[t].left - 1]
  /\ UNCHANGED <<slots, loadingSlots, inUse, config, gone>>

\* The first pass under the runtime's mutex takes a free slot, starts a load
\* or waits.
Enter(t) ==
  /\ thread[t].pc = "entering"
  /\ LET m == thread[t].model IN
       \/ Lease(t)
       \/ /\ Free(m) = {} /\ ~Full(m)
          /\ loadingSlots' = [loadingSlots EXCEPT ![m] = @ + 1]
          /\ thread' = Goto(t, "loading")
          /\ UNCHANGED <<slots, inUse>>
       \/ /\ Free(m) = {} /\ Full(m)
          /\ thread' = Goto(t, "asleep")
          /\ UNCHANGED <<slots, loadingSlots, inUse>>
  /\ UNCHANGED <<config, gone>>

\* A notified thread leaves the wait only if a slot is free, and then takes it.
Wake(t) ==
  /\ thread[t].pc = "woken"
  /\ \/ Lease(t)
     \/ /\ Free(thread[t].model) = {}
        /\ thread' = Goto(t, "asleep")
        /\ UNCHANGED <<slots, loadingSlots, inUse>>
  /\ UNCHANGED <<config, gone>>

\* extractPackage() or loadVoice() throws: the chunk fails.
LoadFails(t) ==
  /\ thread[t].pc = "loading"
  /\ LET m == thread[t].model IN
       /\ loadingSlots' = [loadingSlots EXCEPT ![m] = @ - 1]
       /\ thread' = NotifiedAll(m, Goto(t, "idle"))
  /\ gone' = [gone EXCEPT ![t] = FALSE]
  /\ UNCHANGED <<slots, inUse, config>>

\* The voice is loaded and becomes a slot that the thread already holds.
LoadDone(t) ==
  /\ thread[t].pc = "loading"
  /\ LET m == thread[t].model
         s == slots[m] + 1
     IN  /\ loadingSlots' = [loadingSlots EXCEPT ![m] = @ - 1]
         /\ slots' = [slots EXCEPT ![m] = s]
         /\ inUse' = [inUse EXCEPT ![m] = @ \cup {s}]
         /\ thread' = NotifiedAll(m, [thread EXCEPT ![t].pc = "leased", ![t].slot = s])
  /\ UNCHANGED <<config, gone>>

-----------------------------------------------------------------------------
(* The leased voice in processChunk()                                      *)

\* restoreSynthesisConfig(), on the way out of the chunk.
MutRestore(t) == UNCHANGED config
Restore(t) == Configure(t, thread[t].previous)

\* A disconnect ends the chunk; otherwise the settings are saved and replaced.
MutOverride(t) ==
  /\ thread[t].pc = "leased"
  /\ \/ /\ gone[t]
        /\ thread' = Goto(t, "releasing")
        /\ UNCHANGED config
     \/ /\ ~gone[t]
        /\ thread' = [thread EXCEPT ![t].pc = "configured",
                                    ![t].previous = Overridden(Leased(t), t)]
        /\ Configure(t, Overridden(Leased(t), t))
  /\ UNCHANGED <<slots, loadingSlots, inUse, gone>>

Override(t) ==
  /\ thread[t].pc = "leased"
  /\ \/ /\ gone[t]
        /\ thread' = Goto(t, "releasing")
        /\ UNCHANGED config
     \/ /\ ~gone[t]
        /\ thread' = [thread EXCEPT ![t].pc = "configured", ![t].previous = Leased(t)]
        /\ Configure(t, Overridden(Leased(t), t))
  /\ UNCHANGED <<slots, loadingSlots, inUse, gone>>

\* A disconnect or a file that cannot be opened ends the chunk.
Open(t) ==
  /\ thread[t].pc = "configured"
  /\ \/ /\ ~gone[t]
        /\ thread' = Goto(t, "infer")
        /\ UNCHANGED config
     \/ /\ thread' = Goto(t, "releasing")
        /\ Restore(t)
  /\ UNCHANGED <<slots, loadingSlots, inUse, gone>>

\* textToAudio() splits a text of several sentences itself when there is a
\* silence to put between them, with the voice's own silence switched off.
Split(t) ==
  /\ thread[t].pc = "infer"
  /\ thread' = Goto(t, "split")
  /\ Configure(t, [Leased(t) EXCEPT !["sentenceSilence"] = "zero"])
  /\ UNCHANGED <<slots, loadingSlots, inUse, gone>>

\* The inference ends, normally or by an exception.  A split text gets its
\* silence back first, and then all the settings are restored.
EndInference(t) ==
  /\ thread[t].pc \in {"infer", "split"}
  /\ thread' = Goto(t, "releasing")
  /\ Restore(t)
  /\ UNCHANGED <<slots, loadingSlots, inUse, gone>>

\* VoiceLease::reset(), when processChunk() leaves the scope of the lease.
Reset(t) ==
  /\ thread[t].pc = "releasing"
  /\ inUse' = [inUse EXCEPT ![thread[t].model] = @ \ {thread[t].slot}]
  /\ \E threads \in NotifiedOne(thread[t].model, Goto(t, "idle")) : thread' = threads
  /\ gone' = [gone EXCEPT ![t] = FALSE]
  /\ UNCHANGED <<slots, loadingSlots, config>>

-----------------------------------------------------------------------------

Worker(t) ==
  \/ \E m \in Models, o \in SUBSET Fields : Checkout(t, m, o)
  \/ Enter(t) \/ Wake(t) \/ LoadFails(t) \/ LoadDone(t)
  \/ Override(t) \/ Open(t) \/ Split(t) \/ EndInference(t) \/ Reset(t)

Next == \E t \in Threads : Disconnect(t) \/ Worker(t)

Spec == Init /\ [][Next]_vars

\* A worker that has taken a chunk keeps running.
FairSpec == Spec /\ \A t \in Threads : WF_vars(thread[t].pc # "idle" /\ Worker(t))

-----------------------------------------------------------------------------
(* Safety                                                                  *)

Leasing(t) == thread[t].pc \in {"leased", "configured", "infer", "split", "releasing"}

\* --max-model-replicas bounds the voices of a model in memory, those being
\* loaded while the mutex is open included.
ReplicasBounded == \A m \in Models : slots[m] + loadingSlots[m] <= maxReplicas

\* A voice is in one worker's hands at a time, and inUse says exactly which
\* voices are: ONNX sessions and synthesisConfig are not synchronised.
LeaseExclusive ==
  /\ \A t, u \in Threads :
       Leasing(t) /\ Leasing(u) /\ thread[t].model = thread[u].model
         /\ thread[t].slot = thread[u].slot => t = u
  /\ \A m \in Models :
       inUse[m] = {thread[t].slot : t \in {u \in Threads : Leasing(u) /\ thread[u].model = m}}

\* A request's settings never outlive its chunk, whichever way it ended: a
\* free voice has the settings it was loaded with.
FreeSlotPristine ==
  \A m \in Models : \A s \in Free(m) : config[m][s] = Baseline(m, s)

\* A chunk is spoken with its own request's settings and otherwise with the
\* voice's, never with those of the chunk before.
OwnSettings ==
  \A t \in Threads : thread[t].pc = "infer" =>
    Leased(t) = Overridden(Baseline(thread[t].model, thread[t].slot), t)

\* notify_one() is enough: while threads wait for a model, every free voice
\* has a notified thread on its way to it.
NoWakeupLost ==
  \A m \in Models : At(m, "asleep") # {} =>
    Cardinality(Free(m)) <= Cardinality(At(m, "woken"))

-----------------------------------------------------------------------------
(* What the documentation says and the code does not keep                  *)

\* docs/resource-management-plan.md on a client that closes its connection:
\* the current chunk ends and the model's replica is given back.
AbandonedChunkEnds == \A t \in Threads : gone[t] ~> ~gone[t]

\* The usage text of main() gives --sentence_silence, --length_scale and the
\* other synthesis flags without exempting the server: a chunk of the default
\* model that overrides nothing is spoken with them in whatever replica.
CliSettingsApply ==
  \A t \in Threads :
    thread[t].pc = "infer" /\ thread[t].model = DefaultModel /\ thread[t].overrides = {}
      => Leased(t) = FromMain

=============================================================================
