--------------------------- MODULE ModelCacheProofs ---------------------------
(***************************************************************************)
(* Safety of ModelCache and its refinement of VoicePool, proved for every  *)
(* number of workers, models and replicas and every set of settings.       *)
(***************************************************************************)
EXTENDS ModelCachePool, FiniteSetTheorems, TLAPS

-----------------------------------------------------------------------------
(* The inductive invariant                                                 *)

ThreadState == [pc : ThreadStates, model : Models, slot : Replicas,
                overrides : SUBSET Fields, previous : Settings, left : Nat]

\* loadingSlots counts the threads that load a voice of the model.
LoadingInv ==
  /\ ReplicasBounded
  /\ \A m \in Models : loadingSlots[m] = Cardinality(At(m, "loading"))

\* Leases are exclusive and are of voices that exist.
LeaseInv ==
  /\ LeaseExclusive
  /\ \A m \in Models : inUse[m] \subseteq 1..slots[m]

\* The settings of a voice that a thread in state "at" holds, with base those it
\* was loaded with.
SettingsFit(t, th, own, base) ==
  /\ th.pc \in {"leased", "releasing"} => own = base
  /\ th.pc \in {"configured", "infer", "split"} => th.previous = base
  /\ th.pc \in {"configured", "infer"} =>
       own = [f \in Fields |-> IF f \in th.overrides THEN t ELSE base[f]]

SettingsInv ==
  /\ \A m \in Models : \A s \in Replicas :
       s \notin inUse[m] => config[m][s] = Baseline(m, s)
  /\ \A t \in Threads :
       SettingsFit(t, thread[t], Leased(t), Baseline(thread[t].model, thread[t].slot))

IInv == TypeOK /\ LoadingInv /\ LeaseInv /\ SettingsInv

-----------------------------------------------------------------------------
(* Types                                                                   *)

LEMMA ReplicasType ==
  /\ maxReplicas \in Nat \ {0} /\ 1 \in Replicas
  /\ \A n \in Nat : n \in Replicas <=> 1 <= n /\ n <= maxReplicas
BY ModelCacheAssumption DEF ModelCacheAssumption, maxReplicas, Replicas

LEMMA SettingsTypes ==
  /\ FromFile \in Settings /\ FromMain \in Settings
  /\ \A m, s : Baseline(m, s) \in Settings
BY DEF FromFile, FromMain, Settings, Values, Baseline

\* What stays true of the threads that a step notifies.
Kept(u) ==
  \/ thread'[u] = thread[u]
  \/ thread[u].pc = "asleep" /\ thread'[u] = [thread[u] EXCEPT !.pc = "woken"]

LEMMA KeptThread ==
  ASSUME NEW u \in Threads, thread[u] \in ThreadState, Kept(u)
  PROVE  /\ thread'[u] \in ThreadState
         /\ thread'[u].model = thread[u].model /\ thread'[u].slot = thread[u].slot
         /\ thread'[u].previous = thread[u].previous
         /\ thread'[u].overrides = thread[u].overrides
         /\ \A where \in ThreadStates \ {"asleep", "woken"} :
              thread'[u].pc = where <=> thread[u].pc = where
BY DEF Kept, ThreadState, ThreadStates

LEMMA NotifyAllKeeps ==
  ASSUME NEW m \in Models, NEW t \in Threads, NEW new \in ThreadState,
         NEW threads, threads = [thread EXCEPT ![t] = new],
         thread \in [Threads -> ThreadState], thread[t].pc # "asleep",
         thread' = NotifiedAll(m, threads)
  PROVE  /\ thread' \in [Threads -> ThreadState] /\ thread'[t] = new
         /\ \A u \in Threads : u # t => Kept(u)
         /\ \A u \in Threads : u # t /\ u \notin At(m, "asleep") => thread'[u] = thread[u]
         /\ \A u \in At(m, "asleep") : thread'[u].pc = "woken"
<1>1. t \notin At(m, "asleep")
  BY DEF At
<1>2. \A u \in Threads : thread'[u] = IF u \in At(m, "asleep")
                                       THEN [threads[u] EXCEPT !.pc = "woken"] ELSE threads[u]
  BY DEF NotifiedAll
<1>3. thread'[t] = new /\ \A u \in Threads : u # t => threads[u] = thread[u]
  BY <1>1, <1>2
<1>4. \A u \in Threads : u # t => Kept(u)
  BY <1>2, <1>3 DEF Kept, At
<1>5. \A u \in Threads : thread'[u] \in ThreadState
  BY <1>3, <1>4, KeptThread
<1>6. thread' \in [Threads -> ThreadState]
  BY <1>5 DEF NotifiedAll
<1>7. \A u \in At(m, "asleep") : thread'[u].pc = "woken"
  <2>1. SUFFICES ASSUME NEW u \in At(m, "asleep") PROVE thread'[u].pc = "woken"
    OBVIOUS
  <2>2. u \in Threads /\ u # t /\ thread[u] \in ThreadState
    BY <1>1 DEF At
  <2>3. QED BY <1>2, <1>3, <2>2 DEF ThreadState
<1>8. QED BY <1>2, <1>3, <1>4, <1>6, <1>7

LEMMA NotifyOneKeeps ==
  ASSUME NEW m \in Models, NEW t \in Threads, NEW new \in ThreadState,
         NEW threads, threads = [thread EXCEPT ![t] = new],
         thread \in [Threads -> ThreadState], thread[t].pc # "asleep",
         thread' \in NotifiedOne(m, threads)
  PROVE  /\ thread' \in [Threads -> ThreadState] /\ thread'[t] = new
         /\ \A u \in Threads : u # t => Kept(u)
         /\ \/ At(m, "asleep") = {} /\ \A u \in Threads : u # t => thread'[u] = thread[u]
            \/ \E v \in At(m, "asleep") :
                 /\ thread'[v] = [thread[v] EXCEPT !.pc = "woken"]
                 /\ \A u \in Threads : u # t /\ u # v => thread'[u] = thread[u]
<1>1. CASE At(m, "asleep") = {}
  <2>1. thread' = threads
    BY <1>1 DEF NotifiedOne
  <2>2. QED BY <1>1, <2>1 DEF Kept
<1>2. CASE At(m, "asleep") # {}
  <2>1. PICK v \in At(m, "asleep") : thread' = [threads EXCEPT ![v].pc = "woken"]
    BY <1>2 DEF NotifiedOne
  <2>2. v \in Threads /\ v # t /\ thread[v].pc = "asleep"
    BY DEF At
  <2>3. /\ thread'[v] = [thread[v] EXCEPT !.pc = "woken"] /\ thread'[t] = new
        /\ \A u \in Threads : u # t /\ u # v => thread'[u] = thread[u]
    BY <2>1, <2>2
  <2>4. \A u \in Threads : u # t => Kept(u)
    BY <2>2, <2>3 DEF Kept
  <2>5. \A u \in Threads : thread'[u] \in ThreadState
    BY <2>3, <2>4, KeptThread
  <2>6. thread' \in [Threads -> ThreadState]
    BY <2>1, <2>5
  <2>7. QED BY <2>3, <2>4, <2>6
<1>3. QED BY <1>1, <1>2

-----------------------------------------------------------------------------
(* Loads in progress and the limit of replicas                             *)

LEMMA AtFinite ==
  ASSUME NEW m, NEW where
  PROVE  IsFiniteSet(At(m, where)) /\ Cardinality(At(m, where)) \in Nat
<1>1. IsFiniteSet(Threads) /\ At(m, where) \in SUBSET Threads
  BY ModelCacheAssumption DEF ModelCacheAssumption, At
<1>2. QED BY <1>1, FS_Subset, FS_CardinalityType

LEMMA LoadingFrame ==
  ASSUME TypeOK, LoadingInv, UNCHANGED <<slots, loadingSlots>>,
         NEW t \in Threads, \A u \in Threads : u # t => Kept(u),
         thread[t].pc # "loading", thread'[t].pc # "loading"
  PROVE  LoadingInv'
<1>1. \A u \in Threads : thread[u] \in ThreadState
  BY DEF TypeOK, ThreadState
<1>2. \A u \in Threads : u # t =>
        /\ thread'[u].pc = "loading" <=> thread[u].pc = "loading"
        /\ thread'[u].model = thread[u].model
  BY <1>1, KeptThread DEF ThreadStates
<1>3. \A m \in Models : At(m, "loading")' = At(m, "loading")
  BY <1>2 DEF At
<1>4. QED BY <1>3 DEF LoadingInv, ReplicasBounded

LEMMA LoadingStarts ==
  ASSUME TypeOK, LoadingInv, UNCHANGED slots,
         NEW t \in Threads, \A u \in Threads : u # t => Kept(u),
         NEW m \in Models, ~Full(m),
         loadingSlots' = [loadingSlots EXCEPT ![m] = loadingSlots[m] + 1],
         thread[t].pc # "loading",
         thread'[t].pc = "loading", thread'[t].model = m
  PROVE  LoadingInv'
<1>1. /\ \A u \in Threads : thread[u] \in ThreadState
      /\ slots \in [Models -> Nat] /\ loadingSlots \in [Models -> Nat]
  BY DEF TypeOK, ThreadState
<1>2. \A u \in Threads : u # t =>
        /\ thread'[u].pc = "loading" <=> thread[u].pc = "loading"
        /\ thread'[u].model = thread[u].model
  BY <1>1, KeptThread DEF ThreadStates
<1>3. /\ At(m, "loading")' = At(m, "loading") \cup {t} /\ t \notin At(m, "loading")
      /\ \A n \in Models : n # m => At(n, "loading")' = At(n, "loading")
  BY <1>2 DEF At
<1>4. Cardinality(At(m, "loading") \cup {t}) = Cardinality(At(m, "loading")) + 1
  BY <1>3, AtFinite, FS_AddElement
<1>5. \A n \in Models : loadingSlots'[n] = Cardinality(At(n, "loading")')
  BY <1>1, <1>3, <1>4 DEF LoadingInv
<1>6. \A n \in Models : slots'[n] + loadingSlots'[n] <= maxReplicas
  BY <1>1, ReplicasType DEF LoadingInv, ReplicasBounded, Full
<1>7. QED BY <1>5, <1>6 DEF LoadingInv, ReplicasBounded, maxReplicas

LEMMA LoadingEnds ==
  ASSUME TypeOK, LoadingInv,
         NEW t \in Threads, \A u \in Threads : u # t => Kept(u),
         NEW m \in Models, m = thread[t].model,
         loadingSlots' = [loadingSlots EXCEPT ![m] = loadingSlots[m] - 1],
         slots' = slots \/ slots' = [slots EXCEPT ![m] = slots[m] + 1],
         thread[t].pc = "loading", thread'[t].pc # "loading"
  PROVE  /\ LoadingInv'
         /\ loadingSlots' \in [Models -> Nat] /\ slots' \in [Models -> Nat]
         /\ slots[m] + 1 \in Replicas
<1>1. /\ \A u \in Threads : thread[u] \in ThreadState
      /\ slots \in [Models -> Nat] /\ loadingSlots \in [Models -> Nat]
  BY DEF TypeOK, ThreadState
<1>2. \A u \in Threads : u # t =>
        /\ thread'[u].pc = "loading" <=> thread[u].pc = "loading"
        /\ thread'[u].model = thread[u].model
  BY <1>1, KeptThread DEF ThreadStates
<1>3. /\ At(m, "loading")' = At(m, "loading") \ {t} /\ t \in At(m, "loading")
      /\ \A n \in Models : n # m => At(n, "loading")' = At(n, "loading")
  BY <1>2 DEF At
<1>4. Cardinality(At(m, "loading") \ {t}) = Cardinality(At(m, "loading")) - 1
  BY <1>3, AtFinite, FS_RemoveElement
<1>5. loadingSlots[m] > 0
  BY <1>1, <1>3, AtFinite, FS_EmptySet DEF LoadingInv
<1>6. \A n \in Models : loadingSlots'[n] = Cardinality(At(n, "loading")')
  BY <1>1, <1>3, <1>4 DEF LoadingInv
<1>7. \A n \in Models : slots'[n] + loadingSlots'[n] <= maxReplicas
  BY <1>1, <1>5, ReplicasType DEF LoadingInv, ReplicasBounded
<1>8. slots[m] + 1 \in Replicas
  BY <1>1, <1>5, ReplicasType DEF LoadingInv, ReplicasBounded
<1>9. loadingSlots' \in [Models -> Nat] /\ slots' \in [Models -> Nat]
  BY <1>1, <1>5
<1>10. QED BY <1>6, <1>7, <1>8, <1>9 DEF LoadingInv, ReplicasBounded, maxReplicas

-----------------------------------------------------------------------------
(* Leases                                                                  *)

\* Who holds which voice.
Holds(t, m, s) == Leasing(t) /\ thread[t].model = m /\ thread[t].slot = s

LEMMA KeptHolds ==
  ASSUME TypeOK, NEW u \in Threads, Kept(u), NEW m, NEW s
  PROVE  (Holds(u, m, s)' <=> Holds(u, m, s)) /\ (Leasing(u)' <=> Leasing(u))
<1>1. thread[u] \in ThreadState
  BY DEF TypeOK, ThreadState
<1>2. QED BY <1>1, KeptThread DEF Holds, Leasing, ThreadStates

LEMMA LeaseFrame ==
  ASSUME TypeOK, LeaseInv, UNCHANGED inUse, slots' \in [Models -> Nat],
         \A m \in Models : slots[m] <= slots'[m],
         NEW t \in Threads, \A u \in Threads : u # t => Kept(u),
         thread'[t].model = thread[t].model, thread'[t].slot = thread[t].slot,
         Leasing(t)' <=> Leasing(t)
  PROVE  LeaseInv'
<1>1. \A u \in Threads : thread[u] \in ThreadState
  BY DEF TypeOK, ThreadState
<1>2. \A u \in Threads : /\ thread'[u].model = thread[u].model
                         /\ thread'[u].slot = thread[u].slot
                         /\ Leasing(u)' <=> Leasing(u)
  BY <1>1, KeptThread, KeptHolds
<1>3. LeaseExclusive'
  BY <1>2 DEF LeaseInv, LeaseExclusive
<1>4. \A m \in Models : inUse'[m] \subseteq 1..slots'[m]
  <2>1. slots \in [Models -> Nat]
    BY DEF TypeOK
  <2>2. \A m \in Models : 1..slots[m] \subseteq 1..slots'[m]
    BY <2>1
  <2>3. QED BY <2>2 DEF LeaseInv
<1>5. QED BY <1>3, <1>4 DEF LeaseInv

\* A thread that leases nothing may change its model.
LEMMA LeaseIdle ==
  ASSUME TypeOK, LeaseInv, UNCHANGED <<inUse, slots>>,
         NEW t \in Threads, \A u \in Threads : u # t => Kept(u),
         ~Leasing(t), ~Leasing(t)'
  PROVE  LeaseInv'
<1>1. \A u \in Threads : thread[u] \in ThreadState
  BY DEF TypeOK, ThreadState
<1>2. \A u \in Threads : u # t => /\ thread'[u].model = thread[u].model
                                  /\ thread'[u].slot = thread[u].slot
                                  /\ Leasing(u)' <=> Leasing(u)
  BY <1>1, KeptThread, KeptHolds
<1>3. LeaseExclusive'
  BY <1>2 DEF LeaseInv, LeaseExclusive
<1>4. QED BY <1>3 DEF LeaseInv

LEMMA LeaseAdded ==
  ASSUME TypeOK, LeaseInv, slots' \in [Models -> Nat],
         \A n \in Models : slots[n] <= slots'[n],
         NEW t \in Threads, \A u \in Threads : u # t => Kept(u), ~Leasing(t),
         NEW m \in Models, NEW s \in 1..slots'[m], s \notin inUse[m],
         inUse' = [inUse EXCEPT ![m] = inUse[m] \cup {s}],
         Holds(t, m, s)'
  PROVE  LeaseInv'
<1>1. /\ \A u \in Threads : thread[u] \in ThreadState
      /\ inUse \in [Models -> SUBSET Replicas] /\ slots \in [Models -> Nat]
  BY DEF TypeOK, ThreadState
<1>2. \A u \in Threads : u # t => /\ thread'[u].model = thread[u].model
                                  /\ thread'[u].slot = thread[u].slot
                                  /\ Leasing(u)' <=> Leasing(u)
  BY <1>1, KeptThread, KeptHolds
<1>3. Leasing(t)' /\ thread'[t].model = m /\ thread'[t].slot = s
  BY DEF Holds
<1>4. \A u \in Threads : u # t /\ Leasing(u) /\ thread[u].model = m => thread[u].slot # s
  BY DEF LeaseInv, LeaseExclusive
<1>5. \A u, v \in Threads :
        Leasing(u)' /\ Leasing(v)' /\ thread'[u].model = thread'[v].model
          /\ thread'[u].slot = thread'[v].slot => u = v
  BY <1>2, <1>3, <1>4 DEF LeaseInv, LeaseExclusive
<1>6. ASSUME NEW n \in Models
      PROVE  inUse'[n] = {thread'[u].slot : u \in {v \in Threads :
                                               Leasing(v)' /\ thread'[v].model = n}}
  <2>1. inUse[n] = {thread[u].slot : u \in {v \in Threads : Leasing(v) /\ thread[v].model = n}}
    BY DEF LeaseInv, LeaseExclusive
  <2>2. CASE n = m
    <3>1. {v \in Threads : Leasing(v)' /\ thread'[v].model = m}
            = {v \in Threads : Leasing(v) /\ thread[v].model = m} \cup {t}
      BY <1>2, <1>3
    <3>2. inUse'[m] = inUse[m] \cup {s}
      BY <1>1
    <3>3. QED BY <1>2, <1>3, <2>1, <2>2, <3>1, <3>2
  <2>3. CASE n # m
    <3>1. {v \in Threads : Leasing(v)' /\ thread'[v].model = n}
            = {v \in Threads : Leasing(v) /\ thread[v].model = n}
      BY <1>2, <1>3, <2>3
    <3>2. inUse'[n] = inUse[n] /\ t \notin {v \in Threads : Leasing(v) /\ thread[v].model = n}
      BY <1>1, <2>3
    <3>3. QED BY <1>2, <2>1, <3>1, <3>2
  <2>4. QED BY <2>2, <2>3
<1>7. \A n \in Models : inUse'[n] \subseteq 1..slots'[n]
  <2>1. \A n \in Models : 1..slots[n] \subseteq 1..slots'[n]
    BY <1>1
  <2>2. \A n \in Models : inUse'[n] \subseteq inUse[n] \cup (IF n = m THEN {s} ELSE {})
    BY <1>1
  <2>3. QED BY <2>1, <2>2 DEF LeaseInv
<1>8. QED BY <1>5, <1>6, <1>7 DEF LeaseInv, LeaseExclusive

LEMMA LeaseRemoved ==
  ASSUME TypeOK, LeaseInv, UNCHANGED slots,
         NEW t \in Threads, \A u \in Threads : u # t => Kept(u), ~Leasing(t)',
         NEW m \in Models, NEW s, Holds(t, m, s),
         inUse' = [inUse EXCEPT ![m] = inUse[m] \ {s}]
  PROVE  LeaseInv'
<1>1. /\ \A u \in Threads : thread[u] \in ThreadState
      /\ inUse \in [Models -> SUBSET Replicas]
  BY DEF TypeOK, ThreadState
<1>2. \A u \in Threads : u # t => /\ thread'[u].model = thread[u].model
                                  /\ thread'[u].slot = thread[u].slot
                                  /\ Leasing(u)' <=> Leasing(u)
  BY <1>1, KeptThread, KeptHolds
<1>3. Leasing(t) /\ thread[t].model = m /\ thread[t].slot = s
  BY DEF Holds
<1>4. \A u \in Threads : u # t /\ Leasing(u) /\ thread[u].model = m => thread[u].slot # s
  BY <1>3 DEF LeaseInv, LeaseExclusive
<1>5. \A u, v \in Threads :
        Leasing(u)' /\ Leasing(v)' /\ thread'[u].model = thread'[v].model
          /\ thread'[u].slot = thread'[v].slot => u = v
  BY <1>2 DEF LeaseInv, LeaseExclusive
<1>6. ASSUME NEW n \in Models
      PROVE  inUse'[n] = {thread'[u].slot : u \in {v \in Threads :
                                               Leasing(v)' /\ thread'[v].model = n}}
  <2>1. inUse[n] = {thread[u].slot : u \in {v \in Threads : Leasing(v) /\ thread[v].model = n}}
    BY DEF LeaseInv, LeaseExclusive
  <2>2. {v \in Threads : Leasing(v)' /\ thread'[v].model = n}
          = {v \in Threads : Leasing(v) /\ thread[v].model = n} \ {t}
    BY <1>2
  <2>3. CASE n = m
    <3>1. inUse'[m] = inUse[m] \ {s}
      BY <1>1
    <3>2. QED BY <1>2, <1>3, <1>4, <2>1, <2>2, <2>3, <3>1
  <2>4. CASE n # m
    <3>1. inUse'[n] = inUse[n] /\ t \notin {v \in Threads : Leasing(v) /\ thread[v].model = n}
      BY <1>1, <1>3, <2>4
    <3>2. QED BY <1>2, <2>1, <2>2, <3>1
  <2>5. QED BY <2>3, <2>4
<1>7. \A n \in Models : inUse'[n] \subseteq 1..slots'[n]
  BY <1>1 DEF LeaseInv
<1>8. QED BY <1>5, <1>6, <1>7 DEF LeaseInv, LeaseExclusive

-----------------------------------------------------------------------------
(* Settings                                                                *)

LEMMA KeptFit ==
  ASSUME TypeOK, NEW u \in Threads, Kept(u), NEW own, NEW base,
         SettingsFit(u, thread[u], own, base)
  PROVE  SettingsFit(u, thread'[u], own, base)
<1>1. thread[u] \in ThreadState
  BY DEF TypeOK, ThreadState
<1>2. /\ thread'[u].previous = thread[u].previous
      /\ thread'[u].overrides = thread[u].overrides
      /\ \A where \in {"leased", "releasing", "configured", "infer", "split"} :
           thread'[u].pc = where <=> thread[u].pc = where
  BY <1>1, KeptThread DEF ThreadStates
<1>3. QED BY <1>2 DEF SettingsFit

\* Nobody writes a setting.
LEMMA SettingsFrame ==
  ASSUME TypeOK, SettingsInv, UNCHANGED config,
         NEW t \in Threads, \A u \in Threads : u # t => Kept(u),
         SettingsFit(t, thread'[t], config[thread'[t].model][thread'[t].slot],
                     Baseline(thread'[t].model, thread'[t].slot)),
         \A m \in Models : \A s \in Replicas :
           s \notin inUse'[m] => s \notin inUse[m] \/ config[m][s] = Baseline(m, s)
  PROVE  SettingsInv'
<1>1. \A u \in Threads : thread[u] \in ThreadState
  BY DEF TypeOK, ThreadState
<1>2. ASSUME NEW u \in Threads
      PROVE  SettingsFit(u, thread'[u], Leased(u)', Baseline(thread'[u].model, thread'[u].slot))
  <2>1. CASE u = t
    BY <2>1 DEF Leased
  <2>2. CASE u # t
    <3>1. /\ thread'[u].model = thread[u].model /\ thread'[u].slot = thread[u].slot
          /\ Kept(u)
      BY <1>1, <2>2, KeptThread
    <3>2. SettingsFit(u, thread[u], Leased(u), Baseline(thread[u].model, thread[u].slot))
      BY DEF SettingsInv
    <3>3. SettingsFit(u, thread'[u], Leased(u), Baseline(thread[u].model, thread[u].slot))
      BY <3>1, <3>2, KeptFit
    <3>4. Leased(u)' = Leased(u)
      BY <3>1 DEF Leased
    <3>5. QED BY <3>1, <3>3, <3>4
  <2>3. QED BY <2>1, <2>2
<1>3. \A m \in Models : \A s \in Replicas :
        s \notin inUse'[m] => config'[m][s] = Baseline(m, s)
  BY DEF SettingsInv
<1>4. QED BY <1>2, <1>3 DEF SettingsInv, SettingsFit, Baseline

\* A thread writes the settings of the voice it holds.
LEMMA SettingsWritten ==
  ASSUME TypeOK, LeaseInv, SettingsInv, UNCHANGED inUse,
         NEW t \in Threads, Leasing(t), \A u \in Threads : u # t => thread'[u] = thread[u],
         thread'[t].model = thread[t].model, thread'[t].slot = thread[t].slot,
         NEW new, config' = [config EXCEPT ![thread[t].model][thread[t].slot] = new],
         SettingsFit(t, thread'[t], new, Baseline(thread[t].model, thread[t].slot))
  PROVE  SettingsInv'
<1> DEFINE m == thread[t].model
           s == thread[t].slot
<1>1. /\ \A u \in Threads : thread[u].model \in Models /\ thread[u].slot \in Replicas
      /\ config \in [Models -> [Replicas -> Settings]]
  BY DEF TypeOK
<1>2. /\ config'[m][s] = new
      /\ \A n \in Models, r \in Replicas : n # m \/ r # s => config'[n][r] = config[n][r]
  BY <1>1
<1>3. s \in inUse[m]
  BY <1>1 DEF LeaseInv, LeaseExclusive
<1>4. \A n \in Models : \A r \in Replicas :
        r \notin inUse'[n] => config'[n][r] = Baseline(n, r)
  BY <1>2, <1>3 DEF SettingsInv
<1>5. ASSUME NEW u \in Threads
      PROVE  SettingsFit(u, thread'[u], Leased(u)', Baseline(thread'[u].model, thread'[u].slot))
  <2>1. CASE u = t
    <3>1. Leased(t)' = new
      BY <1>2 DEF Leased
    <3>2. QED BY <2>1, <3>1
  <2>2. CASE u # t /\ Leasing(u)
    <3>1. thread[u].model # m \/ thread[u].slot # s
      BY <2>2 DEF LeaseInv, LeaseExclusive
    <3>2. Leased(u)' = Leased(u)
      BY <1>1, <1>2, <2>2, <3>1 DEF Leased
    <3>3. QED BY <2>2, <3>2 DEF SettingsInv
  <2>3. CASE u # t /\ ~Leasing(u)
    BY <2>3 DEF SettingsFit, Leasing
  <2>4. QED BY <2>1, <2>2, <2>3
<1>6. QED BY <1>4, <1>5 DEF SettingsInv, SettingsFit, Baseline

-----------------------------------------------------------------------------
(* The steps                                                               *)

\* A step that touches neither the pool nor the settings.
LEMMA IdleStep ==
  ASSUME IInv, UNCHANGED <<slots, loadingSlots, inUse, config>>,
         gone' \in [Threads -> BOOLEAN],
         NEW t \in Threads, NEW new \in ThreadState, thread' = [thread EXCEPT ![t] = new],
         thread[t].pc \in {"idle", "entering", "woken"}, new.pc \in {"entering", "asleep"}
  PROVE  IInv'
<1>0. thread \in [Threads -> ThreadState]
  BY DEF IInv, TypeOK, ThreadState
<1>1. /\ thread' \in [Threads -> ThreadState] /\ thread'[t] = new
      /\ \A u \in Threads : u # t => thread'[u] = thread[u]
  BY <1>0
<1>2. \A u \in Threads : u # t => Kept(u)
  BY <1>1 DEF Kept
<1>3. ~Leasing(t) /\ ~Leasing(t)'
  BY <1>1 DEF Leasing
<1>4. TypeOK'
  BY <1>1 DEF IInv, TypeOK, ThreadState
<1>5. LoadingInv'
  BY <1>1, <1>2, LoadingFrame DEF IInv
<1>6. LeaseInv'
  BY <1>2, <1>3, LeaseIdle DEF IInv
<1>7. SettingsFit(t, thread'[t], config[thread'[t].model][thread'[t].slot],
                  Baseline(thread'[t].model, thread'[t].slot))
  BY <1>1 DEF SettingsFit
<1>8. SettingsInv'
  BY <1>2, <1>7, SettingsFrame DEF IInv
<1>9. QED BY <1>4, <1>5, <1>6, <1>8 DEF IInv

LEMMA DisconnectStep ==
  ASSUME IInv, NEW t \in Threads, Disconnect(t)
  PROVE  IInv'
<1>0. thread \in [Threads -> ThreadState]
  BY DEF IInv, TypeOK, ThreadState
<1>1. UNCHANGED <<slots, loadingSlots, inUse, config, thread>>
  BY DEF Disconnect
<1>2. TypeOK'
  BY <1>1 DEF IInv, TypeOK, Disconnect
<1>3. LoadingInv'
  BY <1>1 DEF IInv, LoadingInv, ReplicasBounded, At
<1>4. LeaseInv'
  BY <1>1 DEF IInv, LeaseInv, LeaseExclusive, Leasing
<1>5. SettingsInv'
  BY <1>1 DEF IInv, SettingsInv, SettingsFit, Leased, Baseline
<1>6. QED BY <1>2, <1>3, <1>4, <1>5 DEF IInv

LEMMA CheckoutStep ==
  ASSUME IInv, NEW t \in Threads, NEW m \in Models, NEW o \in SUBSET Fields, Checkout(t, m, o)
  PROVE  IInv'
<1> DEFINE new == [thread[t] EXCEPT !.pc = "entering", !.model = m, !.overrides = o,
                                    !.left = thread[t].left - 1]
<1>1. thread[t] \in ThreadState /\ thread \in [Threads -> ThreadState]
      /\ gone \in [Threads -> BOOLEAN]
  BY DEF IInv, TypeOK, ThreadState
<1>2. new \in ThreadState /\ new.pc = "entering"
  BY <1>1 DEF Checkout, ThreadState, ThreadStates
<1>3. thread' = [thread EXCEPT ![t] = new]
  BY <1>1 DEF Checkout
<1> HIDE DEF new
<1>4. /\ thread[t].pc = "idle" /\ UNCHANGED <<slots, loadingSlots, inUse, config>>
      /\ gone' \in [Threads -> BOOLEAN]
  BY <1>1 DEF Checkout
<1>5. QED BY <1>2, <1>3, <1>4, IdleStep

LEMMA FallAsleepStep ==
  ASSUME IInv, NEW t \in Threads, thread[t].pc \in {"entering", "woken"},
         thread' = Goto(t, "asleep"), UNCHANGED <<slots, loadingSlots, inUse, config, gone>>
  PROVE  IInv'
<1> DEFINE new == [thread[t] EXCEPT !.pc = "asleep"]
<1>1. thread[t] \in ThreadState /\ thread \in [Threads -> ThreadState]
      /\ gone \in [Threads -> BOOLEAN]
  BY DEF IInv, TypeOK, ThreadState
<1>2. new \in ThreadState /\ new.pc = "asleep"
  BY <1>1 DEF ThreadState, ThreadStates
<1>3. thread' = [thread EXCEPT ![t] = new]
  BY <1>1 DEF Goto
<1> HIDE DEF new
<1>4. QED BY <1>1, <1>2, <1>3, IdleStep


\* A free voice is leased, by a thread that enters or one that was woken.
LEMMA LeaseStep ==
  ASSUME IInv, NEW t \in Threads, thread[t].pc \in {"entering", "woken"}, Lease(t),
         UNCHANGED <<config, gone>>
  PROVE  IInv'
<1>a. PICK m \in Models : m = thread[t].model
  BY DEF IInv, TypeOK
<1>0. /\ thread[t] \in ThreadState /\ thread \in [Threads -> ThreadState]
      /\ inUse \in [Models -> SUBSET Replicas] /\ slots \in [Models -> Nat]
  BY DEF IInv, TypeOK, ThreadState
<1>1. PICK s \in Free(m) : /\ inUse' = [inUse EXCEPT ![m] = inUse[m] \cup {s}]
                           /\ thread' = [thread EXCEPT ![t].pc = "leased", ![t].slot = s]
  BY <1>a DEF Lease
<1>2. UNCHANGED <<slots, loadingSlots>>
  BY DEF Lease
<1>3. s \in 1..slots[m] /\ s \notin inUse[m] /\ s \in Replicas
  <2>1. s \in 1..slots[m] /\ s \notin inUse[m]
    BY DEF Free
  <2>2. slots[m] + loadingSlots[m] <= maxReplicas /\ loadingSlots[m] \in Nat
    BY <1>0 DEF IInv, TypeOK, LoadingInv, ReplicasBounded
  <2>3. QED BY <1>0, <2>1, <2>2, ReplicasType DEF Replicas
<1> DEFINE new == [thread[t] EXCEPT !.pc = "leased", !.slot = s]
<1>4. new \in ThreadState /\ thread' = [thread EXCEPT ![t] = new]
  BY <1>0, <1>1, <1>3 DEF ThreadState, ThreadStates
<1>5. /\ thread' \in [Threads -> ThreadState]
      /\ thread'[t].pc = "leased" /\ thread'[t].slot = s /\ thread'[t].model = m
      /\ \A u \in Threads : u # t => thread'[u] = thread[u]
  BY <1>0, <1>4, <1>a DEF ThreadState
<1>6. \A u \in Threads : u # t => Kept(u)
  BY <1>5 DEF Kept
<1>7. TypeOK'
  BY <1>0, <1>1, <1>2, <1>3, <1>5 DEF IInv, TypeOK, ThreadState
<1>8. LoadingInv'
  BY <1>2, <1>5, <1>6, LoadingFrame DEF IInv
<1>9. LeaseInv'
  <2>1. ~Leasing(t) /\ Holds(t, m, s)'
    BY <1>5 DEF Leasing, Holds
  <2>2. slots' \in [Models -> Nat] /\ s \in 1..slots'[m] /\ \A n \in Models : slots[n] <= slots'[n]
    BY <1>0, <1>2, <1>3
  <2>3. QED BY <1>0, <1>1, <1>3, <1>6, <2>1, <2>2, LeaseAdded DEF IInv
<1>10. SettingsInv'
  <2>1. config[m][s] = Baseline(m, s)
    BY <1>0, <1>3 DEF IInv, SettingsInv
  <2>2. SettingsFit(t, thread'[t], config[thread'[t].model][thread'[t].slot],
                    Baseline(thread'[t].model, thread'[t].slot))
    BY <1>5, <2>1 DEF SettingsFit
  <2>3. \A n \in Models : \A r \in Replicas : r \notin inUse'[n] => r \notin inUse[n]
    BY <1>0, <1>1
  <2>4. QED BY <1>6, <2>2, <2>3, SettingsFrame DEF IInv
<1>11. QED BY <1>7, <1>8, <1>9, <1>10 DEF IInv

LEMMA EnterStep ==
  ASSUME IInv, NEW t \in Threads, Enter(t)
  PROVE  IInv'
<1> DEFINE m == thread[t].model
<1>0. /\ thread[t] \in ThreadState /\ thread \in [Threads -> ThreadState]
      /\ loadingSlots \in [Models -> Nat] /\ m \in Models
  BY DEF IInv, TypeOK, ThreadState
<1>1. thread[t].pc = "entering" /\ UNCHANGED <<config, gone>>
  BY DEF Enter
<1>2. CASE Lease(t)
  BY <1>1, <1>2, LeaseStep
<1>3. CASE thread' = Goto(t, "asleep") /\ UNCHANGED <<slots, loadingSlots, inUse>>
  BY <1>1, <1>3, FallAsleepStep
<1>4. CASE /\ ~Full(m) /\ UNCHANGED <<slots, inUse>>
           /\ loadingSlots' = [loadingSlots EXCEPT ![m] = loadingSlots[m] + 1]
           /\ thread' = Goto(t, "loading")
  <2> DEFINE new == [thread[t] EXCEPT !.pc = "loading"]
  <2>1. new \in ThreadState /\ thread' = [thread EXCEPT ![t] = new]
    BY <1>0, <1>4 DEF ThreadState, ThreadStates, Goto
  <2>2. /\ thread' \in [Threads -> ThreadState]
        /\ thread'[t].pc = "loading" /\ thread'[t].model = m
        /\ \A u \in Threads : u # t => thread'[u] = thread[u]
    BY <1>0, <2>1 DEF ThreadState
  <2>3. \A u \in Threads : u # t => Kept(u)
    BY <2>2 DEF Kept
  <2>4. ~Leasing(t) /\ ~Leasing(t)'
    BY <1>1, <2>2 DEF Leasing
  <2>5. TypeOK'
    BY <1>0, <1>1, <1>4, <2>2 DEF IInv, TypeOK, ThreadState
  <2>6. LoadingInv'
    <3> HIDE DEF m
    <3>1. QED BY <1>0, <1>1, <1>4, <2>2, <2>3, LoadingStarts DEF IInv
  <2>7. LeaseInv'
    BY <1>4, <2>3, <2>4, LeaseIdle DEF IInv
  <2>8. SettingsFit(t, thread'[t], config[thread'[t].model][thread'[t].slot],
                    Baseline(thread'[t].model, thread'[t].slot))
    BY <2>2 DEF SettingsFit
  <2>9. SettingsInv'
    BY <1>1, <1>4, <2>3, <2>8, SettingsFrame DEF IInv
  <2>10. QED BY <2>5, <2>6, <2>7, <2>9 DEF IInv
<1>5. QED BY <1>2, <1>3, <1>4 DEF Enter

LEMMA WakeStep ==
  ASSUME IInv, NEW t \in Threads, Wake(t)
  PROVE  IInv'
BY LeaseStep, FallAsleepStep DEF Wake

\* Both ends of a load notify every thread that waits for the model.
LEMMA LoadFailsStep ==
  ASSUME IInv, NEW t \in Threads, LoadFails(t)
  PROVE  IInv'
<1> DEFINE m == thread[t].model
           new == [thread[t] EXCEPT !.pc = "idle"]
<1>0. /\ thread[t] \in ThreadState /\ thread \in [Threads -> ThreadState]
      /\ loadingSlots \in [Models -> Nat] /\ m \in Models
      /\ gone \in [Threads -> BOOLEAN] /\ slots \in [Models -> Nat]
  BY DEF IInv, TypeOK, ThreadState
<1>1. /\ thread[t].pc = "loading" /\ UNCHANGED <<slots, inUse, config>>
      /\ loadingSlots' = [loadingSlots EXCEPT ![m] = loadingSlots[m] - 1]
      /\ gone' \in [Threads -> BOOLEAN]
      /\ thread' = NotifiedAll(m, Goto(t, "idle"))
  BY <1>0 DEF LoadFails
<1>2. new \in ThreadState /\ Goto(t, "idle") = [thread EXCEPT ![t] = new]
      /\ new.pc = "idle" /\ new.model = m /\ new.slot = thread[t].slot
  BY <1>0 DEF ThreadState, ThreadStates, Goto
<1> HIDE DEF new, m
<1>3. /\ thread' \in [Threads -> ThreadState] /\ thread'[t] = new
      /\ \A u \in Threads : u # t => Kept(u)
  BY <1>0, <1>1, <1>2, NotifyAllKeeps
<1>4. LoadingInv' /\ loadingSlots' \in [Models -> Nat]
  BY <1>0, <1>1, <1>2, <1>3, LoadingEnds DEF IInv, m
<1>5. TypeOK'
  BY <1>1, <1>3, <1>4 DEF IInv, TypeOK, ThreadState
<1>6. LeaseInv'
  <2>1. ~Leasing(t) /\ ~Leasing(t)'
    BY <1>1, <1>2, <1>3 DEF Leasing
  <2>2. QED BY <1>1, <1>3, <2>1, LeaseIdle DEF IInv
<1>7. SettingsInv'
  <2>1. SettingsFit(t, thread'[t], config[thread'[t].model][thread'[t].slot],
                    Baseline(thread'[t].model, thread'[t].slot))
    BY <1>2, <1>3 DEF SettingsFit
  <2>2. QED BY <1>1, <1>3, <2>1, SettingsFrame DEF IInv
<1>8. QED BY <1>4, <1>5, <1>6, <1>7 DEF IInv

LEMMA LoadDoneStep ==
  ASSUME IInv, NEW t \in Threads, LoadDone(t)
  PROVE  IInv'
<1>a. PICK m \in Models : m = thread[t].model
  BY DEF IInv, TypeOK
<1>b. PICK s : s = slots[m] + 1
  OBVIOUS
<1>c. PICK new : new = [thread[t] EXCEPT !.pc = "leased", !.slot = s]
  OBVIOUS
<1>0. /\ thread[t] \in ThreadState /\ thread \in [Threads -> ThreadState]
      /\ loadingSlots \in [Models -> Nat] 
      /\ slots \in [Models -> Nat] /\ inUse \in [Models -> SUBSET Replicas]
  BY DEF IInv, TypeOK, ThreadState
<1>1. /\ thread[t].pc = "loading" /\ UNCHANGED <<config, gone>>
      /\ loadingSlots' = [loadingSlots EXCEPT ![m] = loadingSlots[m] - 1]
      /\ slots' = [slots EXCEPT ![m] = slots[m] + 1]
      /\ inUse' = [inUse EXCEPT ![m] = inUse[m] \cup {s}]
      /\ thread' = NotifiedAll(m, [thread EXCEPT ![t].pc = "leased", ![t].slot = s])
  BY <1>0, <1>a, <1>b DEF LoadDone
<1>2. s \in Replicas
  <2>1. slots[m] + loadingSlots[m] <= maxReplicas /\ loadingSlots[m] = Cardinality(At(m, "loading"))
    BY <1>0 DEF IInv, LoadingInv, ReplicasBounded
  <2>2. t \in At(m, "loading")
    BY <1>1, <1>a DEF At
  <2>3. loadingSlots[m] > 0
    BY <1>0, <2>1, <2>2, AtFinite, FS_EmptySet
  <2>4. QED BY <1>0, <1>b, <2>1, <2>3, ReplicasType
<1>3. new \in ThreadState /\ [thread EXCEPT ![t].pc = "leased", ![t].slot = s] = [thread EXCEPT ![t] = new]
      /\ new.pc = "leased" /\ new.model = m /\ new.slot = s
  BY <1>0, <1>2, <1>a, <1>c DEF ThreadState, ThreadStates
<1>4. s \notin inUse[m] /\ s \in 1..(slots[m] + 1)
  BY <1>0, <1>b DEF IInv, LeaseInv
<1>5. /\ thread' \in [Threads -> ThreadState] /\ thread'[t] = new
      /\ \A u \in Threads : u # t => Kept(u)
  <2>1. PICK threads : threads = [thread EXCEPT ![t] = new]
    OBVIOUS
  <2>2. /\ thread' = NotifiedAll(m, threads) /\ thread[t].pc # "asleep"
        /\ thread \in [Threads -> ThreadState]
    BY <1>0, <1>1, <1>3, <2>1
  <2>3. new \in ThreadState
    BY <1>3
  <2>4. QED BY <2>1, <2>2, <2>3, NotifyAllKeeps
<1>6. /\ LoadingInv' /\ loadingSlots' \in [Models -> Nat] /\ slots' \in [Models -> Nat]
  BY <1>0, <1>1, <1>3, <1>5, <1>a, LoadingEnds DEF IInv
<1>7. TypeOK'
  <2>1. inUse' \in [Models -> SUBSET Replicas]
    BY <1>0, <1>1, <1>2
  <2>2. QED BY <1>1, <1>5, <1>6, <2>1 DEF IInv, TypeOK, ThreadState
<1>8. LeaseInv'
  <2>1. ~Leasing(t) /\ Holds(t, m, s)'
    BY <1>1, <1>3, <1>5 DEF Leasing, Holds
  <2>2. s \in 1..slots'[m] /\ \A n \in Models : slots[n] <= slots'[n]
    BY <1>0, <1>1, <1>4, <1>b
  <2>3. QED BY <1>0, <1>1, <1>4, <1>5, <1>6, <2>1, <2>2, LeaseAdded DEF IInv
<1>9. SettingsInv'
  <2>1. config[m][s] = Baseline(m, s)
    BY <1>0, <1>2, <1>4 DEF IInv, SettingsInv
  <2>2. SettingsFit(t, thread'[t], config[thread'[t].model][thread'[t].slot],
                    Baseline(thread'[t].model, thread'[t].slot))
    BY <1>3, <1>5, <2>1 DEF SettingsFit
  <2>3. \A n \in Models : \A r \in Replicas : r \notin inUse'[n] => r \notin inUse[n]
    BY <1>0, <1>1
  <2>4. QED BY <1>1, <1>5, <2>2, <2>3, SettingsFrame DEF IInv
<1>10. QED BY <1>6, <1>7, <1>8, <1>9 DEF IInv

-----------------------------------------------------------------------------
(* The steps of a thread that holds a voice                                *)

\* It keeps the voice and writes its settings, or leaves them.
LEMMA OwnStep ==
  ASSUME IInv, NEW t \in Threads, Leasing(t), UNCHANGED <<slots, loadingSlots, inUse, gone>>,
         NEW new \in ThreadState, thread' = [thread EXCEPT ![t] = new],
         new.pc \in {"configured", "infer", "split", "releasing"},
         new.model = thread[t].model, new.slot = thread[t].slot,
         NEW own \in Settings,
         \/ config' = [config EXCEPT ![thread[t].model][thread[t].slot] = own]
         \/ config' = config /\ own = Leased(t),
         SettingsFit(t, new, own, Baseline(thread[t].model, thread[t].slot))
  PROVE  IInv'
<1>0. /\ thread \in [Threads -> ThreadState] /\ thread[t] \in ThreadState
      /\ config \in [Models -> [Replicas -> Settings]]
      /\ thread[t].model \in Models /\ thread[t].slot \in Replicas
  BY DEF IInv, TypeOK, ThreadState
<1>1. /\ thread' \in [Threads -> ThreadState] /\ thread'[t] = new
      /\ \A u \in Threads : u # t => thread'[u] = thread[u]
  BY <1>0
<1>2. \A u \in Threads : u # t => Kept(u)
  BY <1>1 DEF Kept
<1>3. config' \in [Models -> [Replicas -> Settings]]
  BY <1>0
<1>4. TypeOK'
  BY <1>1, <1>3 DEF IInv, TypeOK, ThreadState
<1>5. LoadingInv'
  BY <1>1, <1>2, LoadingFrame DEF IInv, Leasing
<1>6. LeaseInv'
  <2>1. slots' \in [Models -> Nat] /\ \A m \in Models : slots[m] <= slots'[m]
    BY DEF IInv, TypeOK
  <2>2. Leasing(t)'
    BY <1>1 DEF Leasing
  <2>3. QED BY <1>1, <1>2, <2>1, <2>2, LeaseFrame DEF IInv
<1>7. CASE config' = [config EXCEPT ![thread[t].model][thread[t].slot] = own]
  <2>1. SettingsInv'
    BY <1>1, <1>7, SettingsWritten DEF IInv
  <2>2. QED BY <1>4, <1>5, <1>6, <2>1 DEF IInv
<1>8. CASE config' = config /\ own = Leased(t)
  <2>1. SettingsFit(t, thread'[t], config[thread'[t].model][thread'[t].slot],
                    Baseline(thread'[t].model, thread'[t].slot))
    BY <1>1, <1>8 DEF Leased
  <2>2. SettingsInv'
    BY <1>2, <1>8, <2>1, SettingsFrame DEF IInv
  <2>3. QED BY <1>4, <1>5, <1>6, <2>2 DEF IInv
<1>9. QED BY <1>7, <1>8

\* What the invariant says of a thread that holds a voice.
LEMMA LeasedFacts ==
  ASSUME IInv, NEW t \in Threads
  PROVE  /\ thread \in [Threads -> ThreadState] /\ thread[t] \in ThreadState
         /\ Leased(t) \in Settings /\ thread[t].previous \in Settings
         /\ Overridden(Leased(t), t) \in Settings
         /\ SettingsFit(t, thread[t], Leased(t), Baseline(thread[t].model, thread[t].slot))
<1>1. /\ thread \in [Threads -> ThreadState] /\ thread[t] \in ThreadState
      /\ config \in [Models -> [Replicas -> Settings]]
  BY DEF IInv, TypeOK, ThreadState
<1>2. Leased(t) \in Settings /\ thread[t].previous \in Settings
  BY <1>1 DEF Leased, ThreadState
<1>3. Overridden(Leased(t), t) \in Settings
  BY <1>2 DEF Overridden, Settings, Values
<1>4. QED BY <1>1, <1>2, <1>3 DEF IInv, SettingsInv

LEMMA OverrideStep ==
  ASSUME IInv, NEW t \in Threads, Override(t)
  PROVE  IInv'
<1>1. PICK base : base = Baseline(thread[t].model, thread[t].slot)
  OBVIOUS
<1>2. /\ thread[t].pc = "leased" /\ Leasing(t) /\ Leased(t) = base
      /\ UNCHANGED <<slots, loadingSlots, inUse, gone>>
  BY <1>1, LeasedFacts DEF Override, Leasing, SettingsFit
<1>3. CASE thread' = Goto(t, "releasing") /\ UNCHANGED config
  <2>1. PICK new : new = [thread[t] EXCEPT !.pc = "releasing"]
    OBVIOUS
  <2>2. PICK own : own = Leased(t)
    OBVIOUS
  <2>3. /\ new \in ThreadState /\ thread' = [thread EXCEPT ![t] = new]
        /\ new.pc = "releasing" /\ new.model = thread[t].model /\ new.slot = thread[t].slot
    BY <1>3, <2>1, LeasedFacts DEF Goto, ThreadState, ThreadStates
  <2>4. SettingsFit(t, new, own, Baseline(thread[t].model, thread[t].slot)) /\ own \in Settings
    BY <1>1, <1>2, <2>2, <2>3, LeasedFacts DEF SettingsFit
  <2>5. QED BY <1>2, <1>3, <2>2, <2>3, <2>4, OwnStep
<1>4. CASE /\ thread' = [thread EXCEPT ![t].pc = "configured", ![t].previous = Leased(t)]
           /\ Configure(t, Overridden(Leased(t), t))
  <2>1. PICK new : new = [thread[t] EXCEPT !.pc = "configured", !.previous = Leased(t)]
    OBVIOUS
  <2>2. PICK own : own = Overridden(Leased(t), t)
    OBVIOUS
  <2>3. /\ new \in ThreadState /\ thread' = [thread EXCEPT ![t] = new]
        /\ new.pc = "configured" /\ new.model = thread[t].model /\ new.slot = thread[t].slot
        /\ new.previous = base /\ new.overrides = thread[t].overrides
    BY <1>2, <1>4, <2>1, LeasedFacts DEF ThreadState, ThreadStates
  <2>4. own = [f \in Fields |-> IF f \in new.overrides THEN t ELSE base[f]]
    BY <1>2, <2>2, <2>3 DEF Overridden
  <2>5. SettingsFit(t, new, own, Baseline(thread[t].model, thread[t].slot))
    BY <1>1, <2>3, <2>4 DEF SettingsFit
  <2>6. config' = [config EXCEPT ![thread[t].model][thread[t].slot] = own] /\ own \in Settings
    BY <1>4, <2>2, LeasedFacts DEF Configure
  <2>7. QED BY <1>2, <2>3, <2>5, <2>6, OwnStep
<1>5. QED BY <1>3, <1>4 DEF Override

\* The chunk ends: the saved settings go back into the voice.
LEMMA RestoreStep ==
  ASSUME IInv, NEW t \in Threads, thread[t].pc \in {"configured", "infer", "split"},
         thread' = Goto(t, "releasing"), Restore(t),
         UNCHANGED <<slots, loadingSlots, inUse, gone>>
  PROVE  IInv'
<1>1. PICK new : new = [thread[t] EXCEPT !.pc = "releasing"]
  OBVIOUS
<1>2. PICK own : own = thread[t].previous
  OBVIOUS
<1>3. /\ new \in ThreadState /\ thread' = [thread EXCEPT ![t] = new]
      /\ new.pc = "releasing" /\ new.model = thread[t].model /\ new.slot = thread[t].slot
  BY <1>1, LeasedFacts DEF Goto, ThreadState, ThreadStates
<1>4. SettingsFit(t, new, own, Baseline(thread[t].model, thread[t].slot)) /\ own \in Settings
  BY <1>2, <1>3, LeasedFacts DEF SettingsFit
<1>5. config' = [config EXCEPT ![thread[t].model][thread[t].slot] = own] /\ Leasing(t)
  BY <1>2 DEF Restore, Configure, Leasing
<1>6. QED BY <1>3, <1>4, <1>5, OwnStep

LEMMA OpenStep ==
  ASSUME IInv, NEW t \in Threads, Open(t)
  PROVE  IInv'
<1>1. thread[t].pc = "configured" /\ Leasing(t) /\ UNCHANGED <<slots, loadingSlots, inUse, gone>>
  BY DEF Open, Leasing
<1>2. CASE thread' = Goto(t, "infer") /\ UNCHANGED config
  <2>1. PICK new : new = [thread[t] EXCEPT !.pc = "infer"]
    OBVIOUS
  <2>2. PICK own : own = Leased(t)
    OBVIOUS
  <2>3. /\ new \in ThreadState /\ thread' = [thread EXCEPT ![t] = new]
        /\ new.pc = "infer" /\ new.model = thread[t].model /\ new.slot = thread[t].slot
        /\ new.previous = thread[t].previous /\ new.overrides = thread[t].overrides
    BY <1>2, <2>1, LeasedFacts DEF Goto, ThreadState, ThreadStates
  <2>4. SettingsFit(t, new, own, Baseline(thread[t].model, thread[t].slot)) /\ own \in Settings
    BY <1>1, <2>2, <2>3, LeasedFacts DEF SettingsFit
  <2>5. QED BY <1>1, <1>2, <2>2, <2>3, <2>4, OwnStep
<1>3. CASE thread' = Goto(t, "releasing") /\ Restore(t)
  BY <1>1, <1>3, RestoreStep
<1>4. QED BY <1>2, <1>3 DEF Open

LEMMA SplitStep ==
  ASSUME IInv, NEW t \in Threads, Split(t)
  PROVE  IInv'
<1>1. PICK new : new = [thread[t] EXCEPT !.pc = "split"]
  OBVIOUS
<1>2. PICK own : own = [Leased(t) EXCEPT !["sentenceSilence"] = "zero"]
  OBVIOUS
<1>3. /\ thread[t].pc = "infer" /\ Leasing(t)
      /\ UNCHANGED <<slots, loadingSlots, inUse, gone>>
      /\ config' = [config EXCEPT ![thread[t].model][thread[t].slot] = own]
  BY <1>2 DEF Split, Leasing, Configure
<1>4. /\ new \in ThreadState /\ thread' = [thread EXCEPT ![t] = new]
      /\ new.pc = "split" /\ new.model = thread[t].model /\ new.slot = thread[t].slot
      /\ new.previous = thread[t].previous
  BY <1>1, LeasedFacts DEF Split, Goto, ThreadState, ThreadStates
<1>5. own \in Settings
  BY <1>2, LeasedFacts DEF Settings, Values
<1>6. SettingsFit(t, new, own, Baseline(thread[t].model, thread[t].slot))
  BY <1>3, <1>4, LeasedFacts DEF SettingsFit
<1>7. QED BY <1>3, <1>4, <1>5, <1>6, OwnStep

LEMMA EndInferenceStep ==
  ASSUME IInv, NEW t \in Threads, EndInference(t)
  PROVE  IInv'
BY RestoreStep DEF EndInference

LEMMA ResetStep ==
  ASSUME IInv, NEW t \in Threads, Reset(t)
  PROVE  IInv'
<1>1. PICK m \in Models : m = thread[t].model
  BY DEF IInv, TypeOK
<1>2. PICK s \in Replicas : s = thread[t].slot
  BY DEF IInv, TypeOK
<1>3. PICK new : new = [thread[t] EXCEPT !.pc = "idle"]
  OBVIOUS
<1>4. /\ thread[t].pc = "releasing" /\ UNCHANGED <<slots, loadingSlots, config>>
      /\ inUse' = [inUse EXCEPT ![m] = inUse[m] \ {s}]
      /\ thread' \in NotifiedOne(m, Goto(t, "idle"))
      /\ gone' \in [Threads -> BOOLEAN]
  <2>1. gone \in [Threads -> BOOLEAN]
    BY DEF IInv, TypeOK
  <2>2. QED BY <1>1, <1>2, <2>1 DEF Reset
<1>5. /\ new \in ThreadState /\ Goto(t, "idle") = [thread EXCEPT ![t] = new]
      /\ new.pc = "idle" /\ new.model = m /\ new.slot = s
  BY <1>1, <1>2, <1>3, LeasedFacts DEF ThreadState, ThreadStates, Goto
<1>6. /\ thread' \in [Threads -> ThreadState] /\ thread'[t] = new
      /\ \A u \in Threads : u # t => Kept(u)
  BY <1>4, <1>5, LeasedFacts, NotifyOneKeeps
<1>7. TypeOK'
  <2>1. inUse' \in [Models -> SUBSET Replicas]
    BY <1>4 DEF IInv, TypeOK
  <2>2. QED BY <1>4, <1>6, <2>1 DEF IInv, TypeOK, ThreadState
<1>8. LoadingInv'
  BY <1>4, <1>5, <1>6, LoadingFrame DEF IInv
<1>9. LeaseInv'
  <2>1. Holds(t, m, s) /\ ~Leasing(t)'
    BY <1>1, <1>2, <1>4, <1>5, <1>6 DEF Holds, Leasing
  <2>2. QED BY <1>4, <1>6, <2>1, LeaseRemoved DEF IInv
<1>10. SettingsInv'
  <2>1. config[m][s] = Baseline(m, s)
    BY <1>1, <1>2, <1>4, LeasedFacts DEF SettingsFit, Leased
  <2>2. \A n \in Models : \A r \in Replicas :
          r \notin inUse'[n] => r \notin inUse[n] \/ config[n][r] = Baseline(n, r)
    BY <1>4, <2>1 DEF IInv, TypeOK
  <2>3. SettingsFit(t, thread'[t], config[thread'[t].model][thread'[t].slot],
                    Baseline(thread'[t].model, thread'[t].slot))
    BY <1>5, <1>6 DEF SettingsFit
  <2>4. QED BY <1>4, <1>6, <2>2, <2>3, SettingsFrame DEF IInv
<1>11. QED BY <1>7, <1>8, <1>9, <1>10 DEF IInv

-----------------------------------------------------------------------------
(* The theorems                                                            *)

LEMMA IInvInit ==
  ASSUME Init
  PROVE  IInv
<1>1. \A m \in Models, where \in ThreadStates \ {"idle"} : At(m, where) = {}
  BY DEF Init, At
<1>2. Cardinality({}) = 0
  BY FS_EmptySet
<1>3. TypeOK
  <2>1. /\ slots \in [Models -> Nat] /\ loadingSlots \in [Models -> Nat]
        /\ inUse \in [Models -> SUBSET Replicas] /\ gone \in [Threads -> BOOLEAN]
    BY DEF Init
  <2>2. config \in [Models -> [Replicas -> Settings]]
    BY SettingsTypes DEF Init
  <2>3. thread \in [Threads -> ThreadState]
    BY SettingsTypes, ReplicasType, ModelCacheAssumption
       DEF Init, ThreadState, ThreadStates, ModelCacheAssumption
  <2>4. QED BY <2>1, <2>2, <2>3 DEF TypeOK, ThreadState
<1>4. LoadingInv
  <2>1. \A m \in Models : loadingSlots[m] = Cardinality(At(m, "loading"))
    BY <1>1, <1>2 DEF Init, ThreadStates
  <2>2. ReplicasBounded
    BY ReplicasType DEF Init, ReplicasBounded
  <2>3. QED BY <2>1, <2>2 DEF LoadingInv
<1>5. LeaseInv
  <2>1. \A t \in Threads : ~Leasing(t)
    BY DEF Init, Leasing
  <2>2. QED BY <2>1 DEF Init, LeaseInv, LeaseExclusive
<1>6. SettingsInv
  <2>1. \A t \in Threads : thread[t].pc = "idle"
    BY DEF Init
  <2>2. \A m \in Models : \A s \in Replicas : config[m][s] = Baseline(m, s)
    BY DEF Init
  <2>3. QED BY <2>1, <2>2 DEF SettingsInv, SettingsFit
<1>7. QED BY <1>3, <1>4, <1>5, <1>6 DEF IInv

LEMMA IInvStep ==
  ASSUME IInv, [Next]_vars
  PROVE  IInv'
<1>1. CASE UNCHANGED vars
  <2>1. TypeOK'
    BY <1>1 DEF IInv, TypeOK, vars
  <2>2. LoadingInv' /\ LeaseInv'
    BY <1>1 DEF IInv, LoadingInv, ReplicasBounded, LeaseInv, LeaseExclusive, Leasing, At, vars
  <2>3. SettingsInv'
    BY <1>1 DEF IInv, SettingsInv, SettingsFit, Leased, Baseline, vars
  <2>4. QED BY <2>1, <2>2, <2>3 DEF IInv
<1>2. CASE Next
  <2>1. PICK t \in Threads : Disconnect(t) \/ Worker(t)
    BY <1>2 DEF Next
  <2>2. QED BY <2>1, DisconnectStep, CheckoutStep, EnterStep, WakeStep, LoadFailsStep,
              LoadDoneStep, OverrideStep, OpenStep, SplitStep, EndInferenceStep, ResetStep
            DEF Worker
<1>3. QED BY <1>1, <1>2

THEOREM Inductive == Spec => []IInv
BY IInvInit, IInvStep, PTL DEF Spec

\* Type correctness of the pool.
THEOREM TypeCorrect == Spec => []TypeOK
<1>1. IInv => TypeOK
  BY DEF IInv
<1>2. QED BY <1>1, Inductive, PTL

\* The voices of a model, with those being loaded while the mutex is open, never
\* exceed --max-model-replicas.
THEOREM ReplicasBoundedHolds == Spec => []ReplicasBounded
<1>1. IInv => ReplicasBounded
  BY DEF IInv, LoadingInv
<1>2. QED BY <1>1, Inductive, PTL

\* No two workers hold the same voice, and inUse is exactly what is held.
THEOREM LeaseExclusiveHolds == Spec => []LeaseExclusive
<1>1. IInv => LeaseExclusive
  BY DEF IInv, LeaseInv
<1>2. QED BY <1>1, Inductive, PTL

\* A free voice has the settings it was loaded with, however the chunks it spoke
\* ended.
THEOREM FreeSlotPristineHolds == Spec => []FreeSlotPristine
<1>1. ASSUME IInv, NEW m \in Models
      PROVE  1..slots[m] \subseteq Replicas
  <2>1. /\ slots[m] \in Nat /\ loadingSlots[m] \in Nat
        /\ slots[m] + loadingSlots[m] <= maxReplicas
    BY <1>1 DEF IInv, TypeOK, LoadingInv, ReplicasBounded
  <2>2. QED BY <2>1, ReplicasType DEF Replicas
<1>2. IInv => FreeSlotPristine
  BY <1>1 DEF IInv, SettingsInv, FreeSlotPristine, Free
<1>3. QED BY <1>2, Inductive, PTL

\* A chunk is spoken with its own request's settings over those the voice was
\* loaded with.
THEOREM OwnSettingsHolds == Spec => []OwnSettings
<1>1. IInv => OwnSettings
  BY DEF IInv, SettingsInv, SettingsFit, OwnSettings, Overridden
<1>2. QED BY <1>1, Inductive, PTL

-----------------------------------------------------------------------------
(* No wake-up is lost                                                      *)

NoneLost(m) == At(m, "asleep") # {} => Cardinality(Free(m)) <= Cardinality(At(m, "woken"))

LEMMA FreeFinite ==
  ASSUME NEW n \in Nat, NEW S
  PROVE  IsFiniteSet((1..n) \ S) /\ Cardinality((1..n) \ S) \in Nat
<1>1. IsFiniteSet(1..n)
  BY FS_Interval
<1>2. (1..n) \ S \in SUBSET (1..n)
  OBVIOUS
<1>3. IsFiniteSet((1..n) \ S)
  BY <1>1, <1>2, FS_Subset
<1>4. QED BY <1>3, FS_CardinalityType

\* Fewer threads wait, more are on their way, fewer voices are free.
LEMMA NoneLostFrame ==
  ASSUME IInv, IInv', NEW n \in Models, NoneLost(n),
         At(n, "asleep")' \subseteq At(n, "asleep"), At(n, "woken") \subseteq At(n, "woken")',
         Free(n)' \subseteq Free(n)
  PROVE  NoneLost(n)'
<1>1. slots[n] \in Nat /\ slots'[n] \in Nat
  BY DEF IInv, TypeOK
<1>2. /\ IsFiniteSet(Free(n)) /\ Cardinality(Free(n)) \in Nat
      /\ IsFiniteSet(Free(n)') /\ Cardinality(Free(n)') \in Nat
  BY <1>1, FreeFinite DEF Free
<1>3. Cardinality(Free(n)') <= Cardinality(Free(n))
  BY <1>2, FS_Subset
<1>4. IsFiniteSet(Threads) /\ At(n, "woken")' \in SUBSET Threads
  BY ModelCacheAssumption DEF ModelCacheAssumption, At
<1>5. IsFiniteSet(At(n, "woken")') /\ Cardinality(At(n, "woken")') \in Nat
  BY <1>4, FS_Subset, FS_CardinalityType
<1>6. Cardinality(At(n, "woken")) <= Cardinality(At(n, "woken")')
  BY <1>5, FS_Subset
<1>7. Cardinality(At(n, "woken")) \in Nat
  BY AtFinite
<1>8. QED BY <1>2, <1>3, <1>5, <1>6, <1>7 DEF NoneLost

\* Nobody waits, or nothing is free.
LEMMA NoneLostTrivial ==
  ASSUME NEW n, At(n, "asleep")' = {} \/ Free(n)' = {}
  PROVE  NoneLost(n)'
<1>1. At(n, "woken")' \in SUBSET Threads /\ IsFiniteSet(Threads)
  BY ModelCacheAssumption DEF ModelCacheAssumption, At
<1>2. Cardinality(At(n, "woken")') \in Nat
  BY <1>1, FS_Subset, FS_CardinalityType
<1>3. QED BY <1>2, FS_EmptySet DEF NoneLost

\* A thread that is not asleep or woken before and after changes nothing.
LEMMA NoneLostElsewhere ==
  ASSUME IInv, IInv', NoWakeupLost, NEW t \in Threads,
         \A u \in Threads : u # t => thread'[u] = thread[u],
         thread[t].pc \notin {"asleep", "woken"}, thread'[t].pc \notin {"asleep", "woken"},
         \A n \in Models : Free(n)' \subseteq Free(n)
  PROVE  NoWakeupLost'
<1>1. ASSUME NEW n \in Models
      PROVE  NoneLost(n)'
  <2>1. At(n, "asleep")' \subseteq At(n, "asleep") /\ At(n, "woken") \subseteq At(n, "woken")'
    BY DEF At
  <2>2. NoneLost(n)
    BY DEF NoWakeupLost, NoneLost
  <2>3. QED BY <2>1, <2>2, NoneLostFrame
<1>2. QED BY <1>1 DEF NoWakeupLost, NoneLost

\* A load ends: everybody who waits for the model is woken.
LEMMA NoneLostNotified ==
  ASSUME IInv, IInv', NoWakeupLost, NEW t \in Threads, NEW m \in Models,
         thread[t].pc = "loading", thread'[t].pc \notin {"asleep", "woken"},
         \A u \in Threads : u # t => Kept(u),
         \A u \in Threads : u # t /\ u \notin At(m, "asleep") => thread'[u] = thread[u],
         \A u \in At(m, "asleep") : thread'[u].pc = "woken",
         \A n \in Models : n # m => Free(n)' = Free(n)
  PROVE  NoWakeupLost'
<1>1. \A u \in Threads : thread'[u].model = thread[u].model \/ u = t
  <2>1. \A u \in Threads : thread[u] \in ThreadState
    BY DEF IInv, TypeOK, ThreadState
  <2>2. QED BY <2>1, KeptThread
<1>2. At(m, "asleep")' = {}
  BY <1>1 DEF At
<1>3. ASSUME NEW n \in Models, n # m
      PROVE  NoneLost(n)'
  <2>1. At(n, "asleep")' \subseteq At(n, "asleep") /\ At(n, "woken") \subseteq At(n, "woken")'
    BY <1>1, <1>3 DEF At
  <2>2. NoneLost(n)
    BY DEF NoWakeupLost, NoneLost
  <2>3. QED BY <1>3, <2>1, <2>2, NoneLostFrame
<1>4. QED BY <1>2, <1>3, NoneLostTrivial DEF NoWakeupLost, NoneLost

LEMMA SleepLosesNone ==
  ASSUME IInv, IInv', NoWakeupLost, NEW t \in Threads, Free(thread[t].model) = {},
         thread' = Goto(t, "asleep"), UNCHANGED <<slots, inUse>>
  PROVE  NoWakeupLost'
<1>0. thread \in [Threads -> ThreadState]
  BY DEF IInv, TypeOK, ThreadState
<1>1. /\ \A u \in Threads : u # t => thread'[u] = thread[u]
      /\ thread'[t].model = thread[t].model
  BY <1>0 DEF Goto, ThreadState
<1>2. \A n \in Models : Free(n)' = Free(n)
  BY DEF Free
<1>3. ASSUME NEW n \in Models, n # thread[t].model
      PROVE  NoneLost(n)'
  <2>1. At(n, "asleep")' \subseteq At(n, "asleep") /\ At(n, "woken") \subseteq At(n, "woken")'
    BY <1>1, <1>3 DEF At
  <2>2. NoneLost(n)
    BY DEF NoWakeupLost, NoneLost
  <2>3. QED BY <1>2, <2>1, <2>2, NoneLostFrame
<1>4. ASSUME NEW n \in Models, n = thread[t].model
      PROVE  NoneLost(n)'
  BY <1>2, <1>4, NoneLostTrivial
<1>5. QED BY <1>3, <1>4 DEF NoWakeupLost, NoneLost

LEMMA LeaseLosesNone ==
  ASSUME IInv, IInv', NoWakeupLost, NEW t \in Threads,
         thread[t].pc \in {"entering", "woken"}, Lease(t)
  PROVE  NoWakeupLost'
<1>a. PICK m \in Models : m = thread[t].model
  BY DEF IInv, TypeOK
<1>0. /\ thread \in [Threads -> ThreadState] /\ slots \in [Models -> Nat]
      /\ inUse \in [Models -> SUBSET Replicas]
  BY DEF IInv, TypeOK, ThreadState
<1>1. PICK s \in Free(m) : /\ inUse' = [inUse EXCEPT ![m] = inUse[m] \cup {s}]
                           /\ thread' = [thread EXCEPT ![t].pc = "leased", ![t].slot = s]
  BY <1>a DEF Lease
<1>2. /\ \A u \in Threads : u # t => thread'[u] = thread[u]
      /\ thread'[t].pc = "leased"
  BY <1>0, <1>1 DEF ThreadState
<1>3. /\ Free(m)' = Free(m) \ {s}
      /\ \A n \in Models : n # m => Free(n)' = Free(n)
  BY <1>0, <1>1 DEF Free, Lease
<1>4. CASE thread[t].pc = "entering"
  <2>1. \A n \in Models : Free(n)' \subseteq Free(n)
    BY <1>3
  <2>2. QED BY <1>2, <1>4, <2>1, NoneLostElsewhere
<1>5. CASE thread[t].pc = "woken"
  <2>1. NoneLost(m)'
    <3>1. At(m, "asleep")' = At(m, "asleep") /\ At(m, "woken")' = At(m, "woken") \ {t}
          /\ t \in At(m, "woken")
      BY <1>a, <1>2, <1>5 DEF At
    <3>2. Cardinality(At(m, "woken") \ {t}) = Cardinality(At(m, "woken")) - 1
      BY <3>1, AtFinite, FS_RemoveElement
    <3>3. IsFiniteSet(Free(m)) /\ Cardinality(Free(m)) \in Nat
      BY <1>0, FreeFinite DEF Free
    <3>4. Cardinality(Free(m) \ {s}) = Cardinality(Free(m)) - 1
      BY <3>3, FS_RemoveElement
    <3>5. At(m, "asleep") # {} => Cardinality(Free(m)) <= Cardinality(At(m, "woken"))
      BY DEF NoWakeupLost
    <3>6. At(m, "asleep")' # {} => Cardinality(Free(m)') <= Cardinality(At(m, "woken")')
      BY <1>3, <3>1, <3>2, <3>3, <3>4, <3>5, AtFinite
    <3>7. QED BY <3>6 DEF NoneLost
  <2>2. ASSUME NEW n \in Models, n # m
        PROVE  NoneLost(n)'
    <3>1. At(n, "asleep")' \subseteq At(n, "asleep") /\ At(n, "woken") \subseteq At(n, "woken")'
      BY <1>a, <1>2, <2>2 DEF At
    <3>2. NoneLost(n) /\ Free(n)' \subseteq Free(n)
      BY <1>3, <2>2 DEF NoWakeupLost, NoneLost
    <3>3. QED BY <3>1, <3>2, NoneLostFrame
  <2>3. QED BY <2>1, <2>2 DEF NoWakeupLost, NoneLost
<1>6. QED BY <1>4, <1>5

LEMMA LoadsLoseNone ==
  ASSUME IInv, IInv', NoWakeupLost, NEW t \in Threads, LoadFails(t) \/ LoadDone(t)
  PROVE  NoWakeupLost'
<1>1. PICK m \in Models : m = thread[t].model
  BY DEF IInv, TypeOK
<1>2. PICK s : s = slots[m] + 1
  OBVIOUS
<1>3. PICK new : \/ LoadFails(t) /\ new = [thread[t] EXCEPT !.pc = "idle"]
                 \/ LoadDone(t) /\ new = [thread[t] EXCEPT !.pc = "leased", !.slot = s]
  OBVIOUS
<1>4. thread \in [Threads -> ThreadState] /\ thread[t].pc = "loading"
  BY DEF IInv, TypeOK, ThreadState, LoadFails, LoadDone
<1>5. s \in Replicas
  <2>1. /\ slots[m] \in Nat /\ slots[m] + loadingSlots[m] <= maxReplicas
        /\ loadingSlots[m] = Cardinality(At(m, "loading"))
    BY DEF IInv, TypeOK, LoadingInv, ReplicasBounded
  <2>2. t \in At(m, "loading")
    BY <1>1, <1>4 DEF At
  <2>3. loadingSlots[m] \in Nat /\ loadingSlots[m] > 0
    BY <2>1, <2>2, AtFinite, FS_EmptySet
  <2>4. QED BY <1>2, <2>1, <2>3, ReplicasType
<1>6. new \in ThreadState /\ new.pc \in {"idle", "leased"}
  BY <1>3, <1>4, <1>5 DEF ThreadState, ThreadStates
<1>7. PICK threads : threads = [thread EXCEPT ![t] = new]
  OBVIOUS
<1>8. thread' = NotifiedAll(m, threads)
  <2>1. CASE LoadFails(t) /\ new = [thread[t] EXCEPT !.pc = "idle"]
    BY <1>1, <1>4, <1>7, <2>1 DEF LoadFails, Goto, ThreadState
  <2>2. CASE LoadDone(t) /\ new = [thread[t] EXCEPT !.pc = "leased", !.slot = s]
    <3>1. thread' = NotifiedAll(m, [thread EXCEPT ![t].pc = "leased", ![t].slot = s])
      BY <1>1, <1>2, <2>2 DEF LoadDone
    <3>2. [thread EXCEPT ![t].pc = "leased", ![t].slot = s] = threads
      BY <1>4, <1>7, <2>2 DEF ThreadState
    <3>3. QED BY <3>1, <3>2
  <2>3. QED BY <1>3, <2>1, <2>2
<1>9. /\ thread'[t] = new /\ \A u \in Threads : u # t => Kept(u)
      /\ \A u \in Threads : u # t /\ u \notin At(m, "asleep") => thread'[u] = thread[u]
      /\ \A u \in At(m, "asleep") : thread'[u].pc = "woken"
  BY <1>4, <1>6, <1>7, <1>8, NotifyAllKeeps
<1>10. \A n \in Models : n # m => Free(n)' = Free(n)
  <2>1. slots \in [Models -> Nat] /\ inUse \in [Models -> SUBSET Replicas]
    BY DEF IInv, TypeOK
  <2>2. QED BY <1>1, <2>1 DEF LoadFails, LoadDone, Free
<1>11. QED BY <1>4, <1>6, <1>9, <1>10, NoneLostNotified

\* One voice becomes free and one thread that waits for the model is woken.
LEMMA ResetLosesNone ==
  ASSUME IInv, IInv', NoWakeupLost, NEW t \in Threads, Reset(t)
  PROVE  NoWakeupLost'
<1>1. PICK m \in Models : m = thread[t].model
  BY DEF IInv, TypeOK
<1>2. PICK s \in Replicas : s = thread[t].slot
  BY DEF IInv, TypeOK
<1>3. PICK new : new = [thread[t] EXCEPT !.pc = "idle"]
  OBVIOUS
<1>4. /\ thread[t].pc = "releasing" /\ UNCHANGED slots
      /\ inUse' = [inUse EXCEPT ![m] = inUse[m] \ {s}]
      /\ thread' \in NotifiedOne(m, Goto(t, "idle"))
  BY <1>1, <1>2 DEF Reset
<1>5. new \in ThreadState /\ Goto(t, "idle") = [thread EXCEPT ![t] = new] /\ new.pc = "idle"
  BY <1>3, LeasedFacts DEF ThreadState, ThreadStates, Goto
<1>6. /\ thread'[t] = new /\ \A u \in Threads : u # t => Kept(u)
      /\ \/ At(m, "asleep") = {} /\ \A u \in Threads : u # t => thread'[u] = thread[u]
         \/ \E v \in At(m, "asleep") :
              /\ thread'[v] = [thread[v] EXCEPT !.pc = "woken"]
              /\ \A u \in Threads : u # t /\ u # v => thread'[u] = thread[u]
  BY <1>4, <1>5, LeasedFacts, NotifyOneKeeps
<1>7. /\ Free(m)' \subseteq Free(m) \cup {s}
      /\ \A n \in Models : n # m => Free(n)' = Free(n)
  BY <1>4 DEF IInv, TypeOK, Free
<1>8. CASE At(m, "asleep") = {} /\ \A u \in Threads : u # t => thread'[u] = thread[u]
  <2>1. At(m, "asleep")' = {}
    BY <1>5, <1>6, <1>8 DEF At
  <2>2. ASSUME NEW n \in Models, n # m
        PROVE  NoneLost(n)'
    <3>1. At(n, "asleep")' \subseteq At(n, "asleep") /\ At(n, "woken") \subseteq At(n, "woken")'
      BY <1>4, <1>5, <1>6, <1>8 DEF At
    <3>2. NoneLost(n) /\ Free(n)' \subseteq Free(n)
      BY <1>7, <2>2 DEF NoWakeupLost, NoneLost
    <3>3. QED BY <3>1, <3>2, NoneLostFrame
  <2>3. QED BY <2>1, <2>2, NoneLostTrivial DEF NoWakeupLost, NoneLost
<1>9. ASSUME NEW v \in At(m, "asleep"), thread'[v] = [thread[v] EXCEPT !.pc = "woken"],
             \A u \in Threads : u # t /\ u # v => thread'[u] = thread[u]
      PROVE  NoWakeupLost'
  <2>1. /\ v \in Threads /\ v # t /\ thread[v] \in ThreadState
        /\ thread[v].pc = "asleep" /\ thread[v].model = m
    BY <1>4, LeasedFacts DEF At
  <2>2. thread'[v].pc = "woken" /\ thread'[v].model = m
    BY <1>9, <2>1 DEF ThreadState
  <2>3. NoneLost(m)'
    <3>1. At(m, "woken")' = At(m, "woken") \cup {v} /\ v \notin At(m, "woken")
      BY <1>4, <1>5, <1>6, <1>9, <2>1, <2>2 DEF At
    <3>2. Cardinality(At(m, "woken") \cup {v}) = Cardinality(At(m, "woken")) + 1
      BY <3>1, AtFinite, FS_AddElement
    <3>3. slots[m] \in Nat /\ slots'[m] \in Nat
      BY DEF IInv, TypeOK
    <3>4. /\ IsFiniteSet(Free(m)) /\ Cardinality(Free(m)) \in Nat
          /\ Cardinality(Free(m)') \in Nat
      BY <3>3, FreeFinite DEF Free
    <3>5. /\ IsFiniteSet(Free(m) \cup {s}) /\ Cardinality(Free(m) \cup {s}) \in Nat
          /\ Cardinality(Free(m) \cup {s}) <= Cardinality(Free(m)) + 1
      BY <3>4, FS_AddElement, FS_CardinalityType
    <3>6. Cardinality(Free(m)') <= Cardinality(Free(m) \cup {s})
      BY <1>7, <3>5, FS_Subset
    <3>7. Cardinality(Free(m)) <= Cardinality(At(m, "woken"))
      BY DEF NoWakeupLost
    <3>8. Cardinality(Free(m)') <= Cardinality(At(m, "woken")')
      BY <3>1, <3>2, <3>4, <3>5, <3>6, <3>7, AtFinite
    <3>9. QED BY <3>8 DEF NoneLost
  <2>4. ASSUME NEW n \in Models, n # m
        PROVE  NoneLost(n)'
    <3>1. At(n, "asleep")' \subseteq At(n, "asleep") /\ At(n, "woken") \subseteq At(n, "woken")'
      BY <1>4, <1>5, <1>6, <1>9, <2>1, <2>2, <2>4 DEF At
    <3>2. NoneLost(n) /\ Free(n)' \subseteq Free(n)
      BY <1>7, <2>4 DEF NoWakeupLost, NoneLost
    <3>3. QED BY <3>1, <3>2, NoneLostFrame
  <2>5. QED BY <2>3, <2>4 DEF NoWakeupLost, NoneLost
<1>10. QED BY <1>6, <1>8, <1>9

LEMMA NoWakeupLostStep ==
  ASSUME IInv, IInv', NoWakeupLost, [Next]_vars
  PROVE  NoWakeupLost'
<1>0. thread \in [Threads -> ThreadState]
  BY DEF IInv, TypeOK, ThreadState
<1>1. CASE UNCHANGED <<thread, slots, inUse>>
  BY <1>1 DEF NoWakeupLost, At, Free
<1>2. ASSUME NEW t \in Threads, Worker(t)
      PROVE  NoWakeupLost'
  <2>1. CASE UNCHANGED <<slots, inUse>> /\ thread[t].pc \notin {"asleep", "woken"}
             /\ thread'[t].pc \notin {"asleep", "woken"}
             /\ \A u \in Threads : u # t => thread'[u] = thread[u]
    <3>1. \A n \in Models : Free(n)' \subseteq Free(n)
      BY <2>1 DEF Free
    <3>2. QED BY <2>1, <3>1, NoneLostElsewhere
  <2>2. CASE \E m \in Models, o \in SUBSET Fields : Checkout(t, m, o)
    BY <1>0, <2>1, <2>2 DEF Checkout, ThreadState
  <2>3. CASE Enter(t)
    <3>1. CASE Lease(t)
      BY <2>3, <3>1, LeaseLosesNone DEF Enter
    <3>2. CASE /\ Free(thread[t].model) = {} /\ thread' = Goto(t, "asleep")
               /\ UNCHANGED <<slots, loadingSlots, inUse>>
      BY <3>2, SleepLosesNone
    <3>3. CASE thread' = Goto(t, "loading") /\ UNCHANGED <<slots, inUse>>
      BY <1>0, <2>1, <2>3, <3>3 DEF Enter, Goto, ThreadState
    <3>4. QED BY <2>3, <3>1, <3>2, <3>3 DEF Enter
  <2>4. CASE Wake(t)
    BY <2>4, LeaseLosesNone, SleepLosesNone DEF Wake
  <2>5. CASE LoadFails(t) \/ LoadDone(t)
    BY <2>5, LoadsLoseNone
  <2>6. CASE Override(t)
    BY <1>0, <2>1, <2>6 DEF Override, Goto, ThreadState
  <2>7. CASE Open(t) \/ Split(t) \/ EndInference(t)
    BY <1>0, <2>1, <2>7 DEF Open, Split, EndInference, Goto, ThreadState
  <2>8. CASE Reset(t)
    BY <2>8, ResetLosesNone
  <2>9. QED BY <1>2, <2>2, <2>3, <2>4, <2>5, <2>6, <2>7, <2>8 DEF Worker
<1>3. CASE \E t \in Threads : Disconnect(t)
  BY <1>1, <1>3 DEF Disconnect
<1>4. QED BY <1>1, <1>2, <1>3 DEF Next, vars

\* While threads wait for a model, every free voice of it has a woken thread on
\* its way: the single notify of a returned voice is enough.
THEOREM NoWakeupLostHolds == Spec => []NoWakeupLost
<1>1. Init => NoWakeupLost
  <2>1. ASSUME Init, NEW m \in Models
        PROVE  At(m, "asleep") = {}
    BY <2>1 DEF Init, At
  <2>2. QED BY <2>1 DEF NoWakeupLost
<1>2. NoWakeupLost /\ IInv /\ IInv' /\ [Next]_vars => NoWakeupLost'
  BY NoWakeupLostStep
<1>3. QED BY <1>1, <1>2, Inductive, PTL DEF Spec

-----------------------------------------------------------------------------
(* ModelCache implements VoicePool                                         *)

\* How a thread looks from outside.
SameLooks(u) ==
  /\ Stage(u)' = Stage(u) /\ Requested(u)' = Requested(u)
  /\ VoiceOf(u)' = VoiceOf(u) /\ SoundOf(u)' = SoundOf(u)

\* A notified thread looks the same, as long as nobody writes into its voice.
LEMMA KeptLooks ==
  ASSUME IInv, NEW u \in Threads, Kept(u), Leasing(u) => Leased(u)' = Leased(u)
  PROVE  SameLooks(u)
<1>1. thread[u] \in ThreadState
  BY LeasedFacts
<1>2. /\ thread'[u].model = thread[u].model /\ thread'[u].slot = thread[u].slot
      /\ thread'[u].overrides = thread[u].overrides
      /\ \A where \in ThreadStates \ {"asleep", "woken"} :
           thread'[u].pc = where <=> thread[u].pc = where
  BY <1>1, KeptThread
<1>3. Leasing(u)' <=> Leasing(u)
  BY KeptHolds DEF IInv
<1>4. Requested(u)' = Requested(u) /\ VoiceOf(u)' = VoiceOf(u)
  BY <1>2, <1>3 DEF Requested, VoiceOf
<1>5. SoundOf(u)' = SoundOf(u)
  BY <1>2 DEF SoundOf, Leasing, ThreadStates
<1>6. Stage(u)' = Stage(u)
  BY <1>1 DEF Kept, Stage, ThreadState
<1>7. QED BY <1>4, <1>5, <1>6 DEF SameLooks

\* The settings of a voice are written by its holder only.
LEMMA OthersLooks ==
  ASSUME IInv, NEW t \in Threads, \A u \in Threads : u # t => Kept(u),
         \/ UNCHANGED config
         \/ Leasing(t) /\ \E own : config' = [config EXCEPT ![thread[t].model][thread[t].slot] = own]
  PROVE  \A u \in Threads : u # t => SameLooks(u)
<1>1. SUFFICES ASSUME NEW u \in Threads, u # t, Leasing(u)
               PROVE  Leased(u)' = Leased(u)
  BY KeptLooks
<1>2. /\ thread[u] \in ThreadState /\ thread[t] \in ThreadState
      /\ config \in [Models -> [Replicas -> Settings]]
  BY LeasedFacts DEF IInv, TypeOK
<1>3. thread'[u].model = thread[u].model /\ thread'[u].slot = thread[u].slot
  BY <1>1, <1>2, KeptThread
<1>4. CASE UNCHANGED config
  BY <1>3, <1>4 DEF Leased
<1>5. CASE Leasing(t) /\ \E own : config' = [config EXCEPT ![thread[t].model][thread[t].slot] = own]
  <2>1. thread[u].model # thread[t].model \/ thread[u].slot # thread[t].slot
    BY <1>1, <1>5 DEF IInv, LeaseInv, LeaseExclusive
  <2>2. /\ thread[u].model \in Models /\ thread[u].slot \in Replicas
        /\ thread[t].model \in Models /\ thread[t].slot \in Replicas
    BY <1>2 DEF ThreadState
  <2>3. config'[thread[u].model][thread[u].slot] = config[thread[u].model][thread[u].slot]
    BY <1>2, <1>5, <2>1, <2>2
  <2>4. QED BY <1>3, <2>3 DEF Leased
<1>6. QED BY <1>4, <1>5

\* The pool moves on where the thread does.
LEMMA PoolMoves ==
  ASSUME NEW t \in Threads, \A u \in Threads : u # t => SameLooks(u)
  PROVE  /\ poolStage' = [poolStage EXCEPT ![t] = Stage(t)']
         /\ poolRequest' = [poolRequest EXCEPT ![t] = Requested(t)']
         /\ poolVoice' = [poolVoice EXCEPT ![t] = VoiceOf(t)']
         /\ poolSound' = [poolSound EXCEPT ![t] = SoundOf(t)']
BY DEF SameLooks, poolStage, poolRequest, poolVoice, poolSound

\* A step nobody can see.
LEMMA PoolStays ==
  ASSUME UNCHANGED slots, \A u \in Threads : SameLooks(u)
  PROVE  UNCHANGED Pool!vars
BY DEF SameLooks, poolStage, poolRequest, poolVoice, poolSound, Pool!vars

\* What the pool looks like at one thread.
LEMMA PoolAt ==
  ASSUME NEW t \in Threads
  PROVE  /\ poolStage[t] = Stage(t) /\ poolRequest[t] = Requested(t)
         /\ poolVoice[t] = VoiceOf(t) /\ poolSound[t] = SoundOf(t)
         /\ Pool!Wanted(t) = thread[t].model
BY DEF poolStage, poolRequest, poolVoice, poolSound, Requested, Pool!Wanted

-----------------------------------------------------------------------------

\* Entering, waiting, sleeping and loading are all the same from outside.
LEMMA SimulateWait ==
  ASSUME IInv, NEW t \in Threads,
         thread[t].pc \in {"entering", "woken"}, NEW where \in {"loading", "asleep"},
         thread' = Goto(t, where), UNCHANGED <<slots, config>>
  PROVE  UNCHANGED Pool!vars
<1>1. thread \in [Threads -> ThreadState] /\ thread[t] \in ThreadState
  BY LeasedFacts
<1>2. /\ thread'[t] = [thread[t] EXCEPT !.pc = where]
      /\ \A u \in Threads : u # t => Kept(u)
  BY <1>1 DEF Goto, Kept
<1>3. /\ thread'[t].pc = where /\ thread'[t].model = thread[t].model
      /\ thread'[t].overrides = thread[t].overrides
  BY <1>1, <1>2 DEF ThreadState
<1>4. SameLooks(t)
  BY <1>3 DEF SameLooks, Stage, Requested, VoiceOf, SoundOf, Leasing
<1>5. QED BY <1>2, <1>4, OthersLooks, PoolStays

\* A free slot is one that nobody holds.
LEMMA SimulateLease ==
  ASSUME IInv, NEW t \in Threads, thread[t].pc \in {"entering", "woken"}, Lease(t),
         UNCHANGED config
  PROVE  Pool!Take(t)
<1>1. PICK m \in Models : m = thread[t].model
  BY DEF IInv, TypeOK
<1>2. PICK s \in Free(m) : thread' = [thread EXCEPT ![t].pc = "leased", ![t].slot = s]
  BY <1>1 DEF Lease
<1>3. thread \in [Threads -> ThreadState] /\ thread[t] \in ThreadState
  BY LeasedFacts
<1>4. /\ thread'[t].pc = "leased" /\ thread'[t].slot = s /\ thread'[t].model = m
      /\ thread'[t].overrides = thread[t].overrides
      /\ \A u \in Threads : u # t => Kept(u)
  BY <1>1, <1>2, <1>3 DEF ThreadState, Kept
<1>5. /\ Stage(t) = "asking" /\ Stage(t)' = "holding" /\ Requested(t)' = Requested(t)
      /\ VoiceOf(t)' = {s} /\ SoundOf(t)' = SoundOf(t)
  BY <1>1, <1>4 DEF Stage, Requested, VoiceOf, SoundOf, Leasing
<1>6. s \in 1..slots[m] /\ s \notin inUse[m]
  BY DEF Free
<1>7. ASSUME NEW u \in Threads, s \in VoiceOf(u) PROVE thread[u].model # m
  BY <1>6, <1>7 DEF VoiceOf, IInv, LeaseInv, LeaseExclusive
<1>8. /\ poolStage' = [poolStage EXCEPT ![t] = "holding"]
      /\ poolVoice' = [poolVoice EXCEPT ![t] = {s}]
      /\ UNCHANGED <<slots, poolRequest, poolSound>>
  <2>1. \A u \in Threads : u # t => SameLooks(u)
    BY <1>4, OthersLooks
  <2>2. UNCHANGED slots
    BY DEF Lease
  <2>3. /\ poolStage' = [poolStage EXCEPT ![t] = "holding"]
        /\ poolVoice' = [poolVoice EXCEPT ![t] = {s}]
    BY <1>5, <2>1, PoolMoves
  <2>4. UNCHANGED <<poolRequest, poolSound>>
    BY <1>5, <2>1 DEF SameLooks, poolRequest, poolSound
  <2>5. QED BY <2>2, <2>3, <2>4
<1>9. \A u \in Threads : s \in poolVoice[u] => Pool!Wanted(u) # Pool!Wanted(t)
  BY <1>1, <1>7, PoolAt
<1>10. QED BY <1>1, <1>5, <1>6, <1>8, <1>9, PoolAt DEF Pool!Take, Pool!Get, Pool!Move

\* A step of a thread that changes its stage or what it sounds like.
LEMMA PoolStep ==
  ASSUME IInv, NEW t \in Threads, \A u \in Threads : u # t => Kept(u),
         \/ UNCHANGED config
         \/ Leasing(t) /\ \E own : config' = [config EXCEPT ![thread[t].model][thread[t].slot] = own]
  PROVE  /\ poolStage' = [poolStage EXCEPT ![t] = Stage(t)']
         /\ poolSound' = [poolSound EXCEPT ![t] = SoundOf(t)']
         /\ poolVoice' = [poolVoice EXCEPT ![t] = VoiceOf(t)']
         /\ poolRequest' = [poolRequest EXCEPT ![t] = Requested(t)']
         /\ SoundOf(t)' = SoundOf(t) => UNCHANGED poolSound
         /\ VoiceOf(t)' = VoiceOf(t) => UNCHANGED poolVoice
         /\ Requested(t)' = Requested(t) => UNCHANGED poolRequest
<1>1. \A u \in Threads : u # t => SameLooks(u)
  BY OthersLooks
<1>2. QED BY <1>1, PoolMoves DEF SameLooks, poolSound, poolVoice, poolRequest

\* A thread that holds a voice keeps it and writes its settings, or leaves them.
LEMMA OwnPool ==
  ASSUME IInv, NEW t \in Threads, Leasing(t), NEW where, thread'[t].pc = where,
         where \in {"configured", "infer", "split", "releasing"},
         \A u \in Threads : u # t => thread'[u] = thread[u],
         thread'[t].model = thread[t].model, thread'[t].slot = thread[t].slot,
         thread'[t].overrides = thread[t].overrides,
         NEW own,
         \/ config' = [config EXCEPT ![thread[t].model][thread[t].slot] = own]
         \/ config' = config /\ own = Leased(t)
  PROVE  /\ poolStage' = [poolStage EXCEPT ![t] = Stage(t)']
         /\ where \in {"infer", "split"} => poolSound' = [poolSound EXCEPT ![t] = {own}]
         /\ where \notin {"infer", "split"} => poolSound' = [poolSound EXCEPT ![t] = {}]
         /\ where \notin {"infer", "split"} /\ thread[t].pc \notin {"infer", "split"}
              => UNCHANGED poolSound
         /\ UNCHANGED <<poolRequest, poolVoice>>
<1>1. \A u \in Threads : u # t => Kept(u)
  BY DEF Kept
<1>2. /\ config \in [Models -> [Replicas -> Settings]]
      /\ thread[t].model \in Models /\ thread[t].slot \in Replicas
  BY LeasedFacts DEF IInv, TypeOK, ThreadState
<1>3. Leased(t)' = own
  BY <1>2 DEF Leased
<1>4. /\ Requested(t)' = Requested(t) /\ VoiceOf(t)' = VoiceOf(t)
      /\ where \in {"infer", "split"} => SoundOf(t)' = {own}
      /\ where \notin {"infer", "split"} => SoundOf(t)' = {}
      /\ thread[t].pc \notin {"infer", "split"} => SoundOf(t) = {}
  BY <1>3 DEF Requested, VoiceOf, SoundOf, Leasing
<1>5. \/ UNCHANGED config
      \/ \E new : config' = [config EXCEPT ![thread[t].model][thread[t].slot] = new]
  OBVIOUS
<1>6. QED BY <1>1, <1>4, <1>5, PoolStep

\* The chunk is spoken or given up, and the voice has its settings back.
LEMMA SimulateStop ==
  ASSUME IInv, NEW t \in Threads,
         thread[t].pc \in {"leased", "configured", "infer", "split"},
         thread' = Goto(t, "releasing"), UNCHANGED slots,
         UNCHANGED config \/ Restore(t)
  PROVE  Pool!Stop(t)
<1>1. PICK own : \/ config' = [config EXCEPT ![thread[t].model][thread[t].slot] = own]
                 \/ config' = config /\ own = Leased(t)
  BY DEF Restore, Configure
<1>2. /\ thread'[t].pc = "releasing" /\ thread'[t].model = thread[t].model
      /\ thread'[t].slot = thread[t].slot /\ thread'[t].overrides = thread[t].overrides
      /\ \A u \in Threads : u # t => thread'[u] = thread[u]
  BY LeasedFacts DEF Goto, ThreadState
<1>3. Leasing(t)
  BY DEF Leasing
<1>4. /\ poolStage' = [poolStage EXCEPT ![t] = Stage(t)']
      /\ poolSound' = [poolSound EXCEPT ![t] = {}] /\ UNCHANGED <<poolRequest, poolVoice>>
  BY <1>1, <1>2, <1>3, OwnPool
<1>5. Stage(t)' = "leaving" /\ poolStage[t] \in {"holding", "speaking", "apart"}
  BY <1>2, PoolAt DEF Stage
<1>6. QED BY <1>4, <1>5 DEF Pool!Stop, Pool!Move

LEMMA SimulateOverride ==
  ASSUME IInv, NEW t \in Threads, Override(t)
  PROVE  Pool!Stop(t) \/ UNCHANGED Pool!vars
<1>1. thread[t].pc = "leased" /\ UNCHANGED slots
  BY DEF Override
<1>2. CASE thread' = Goto(t, "releasing") /\ UNCHANGED config
  BY <1>1, <1>2, SimulateStop
<1>3. CASE /\ thread' = [thread EXCEPT ![t].pc = "configured", ![t].previous = Leased(t)]
           /\ Configure(t, Overridden(Leased(t), t))
  <2>1. PICK own : config' = [config EXCEPT ![thread[t].model][thread[t].slot] = own]
    BY <1>3 DEF Configure
  <2>2. /\ thread'[t].pc = "configured" /\ thread'[t].model = thread[t].model
        /\ thread'[t].slot = thread[t].slot /\ thread'[t].overrides = thread[t].overrides
        /\ \A u \in Threads : u # t => thread'[u] = thread[u]
    BY <1>3, LeasedFacts DEF ThreadState
  <2>3. /\ poolStage' = [poolStage EXCEPT ![t] = Stage(t)']
        /\ UNCHANGED <<poolSound, poolRequest, poolVoice>>
    BY <1>1, <2>1, <2>2, OwnPool DEF Leasing
  <2>4. Stage(t)' = poolStage[t]
    BY <1>1, <2>2, PoolAt DEF Stage
  <2>5. UNCHANGED poolStage
    BY <2>3, <2>4 DEF poolStage
  <2>6. QED BY <1>1, <2>3, <2>5 DEF Pool!vars
<1>4. QED BY <1>2, <1>3 DEF Override

\* The settings the inference starts with are those the chunk asked for.
LEMMA SimulateOpen ==
  ASSUME IInv, NEW t \in Threads, Open(t)
  PROVE  Pool!Speak(t) \/ Pool!Stop(t)
<1>1. thread[t].pc = "configured" /\ Leasing(t) /\ UNCHANGED slots
  BY DEF Open, Leasing
<1>2. CASE thread' = Goto(t, "releasing") /\ Restore(t)
  BY <1>1, <1>2, SimulateStop
<1>3. CASE thread' = Goto(t, "infer") /\ UNCHANGED config
  <2>1. /\ thread'[t].pc = "infer" /\ thread'[t].model = thread[t].model
        /\ thread'[t].slot = thread[t].slot /\ thread'[t].overrides = thread[t].overrides
        /\ \A u \in Threads : u # t => thread'[u] = thread[u]
    BY <1>3, LeasedFacts DEF Goto, ThreadState
  <2>2. /\ poolStage' = [poolStage EXCEPT ![t] = Stage(t)']
        /\ poolSound' = [poolSound EXCEPT ![t] = {Leased(t)}]
        /\ UNCHANGED <<poolRequest, poolVoice>>
    BY <1>1, <1>3, <2>1, OwnPool
  <2>3. Stage(t)' = "speaking" /\ poolStage[t] = "holding"
    BY <1>1, <2>1, PoolAt DEF Stage
  <2>4. Leased(t) = Pool!Chosen(t, thread[t].slot)
    <3>1. Leased(t) = [f \in Fields |-> IF f \in thread[t].overrides THEN t
                                        ELSE Baseline(thread[t].model, thread[t].slot)[f]]
      BY <1>1, LeasedFacts DEF SettingsFit
    <3>2. thread[t].model \in Models /\ thread[t].slot \in Replicas
      BY LeasedFacts DEF ThreadState
    <3>3. poolRequest[t].overrides = thread[t].overrides
      BY DEF poolRequest, Requested
    <3>4. QED BY <3>1, <3>2, <3>3, PoolAt DEF Pool!Chosen
  <2>5. poolVoice[t] = {thread[t].slot}
    BY <1>1, PoolAt DEF VoiceOf
  <2>6. {Pool!Chosen(t, v) : v \in poolVoice[t]} = {Leased(t)}
    BY <2>4, <2>5
  <2>7. QED BY <1>1, <2>2, <2>3, <2>6 DEF Pool!Speak, Pool!Move
<1>4. QED BY <1>2, <1>3 DEF Open

LEMMA SimulateSplit ==
  ASSUME IInv, NEW t \in Threads, Split(t)
  PROVE  Pool!SpeakApart(t)
<1>1. PICK own : own = [Leased(t) EXCEPT !["sentenceSilence"] = "zero"]
  OBVIOUS
<1>2. /\ thread[t].pc = "infer" /\ Leasing(t) /\ UNCHANGED slots
      /\ config' = [config EXCEPT ![thread[t].model][thread[t].slot] = own]
      /\ thread' = Goto(t, "split")
  BY <1>1 DEF Split, Leasing, Configure
<1>3. /\ thread'[t].pc = "split" /\ thread'[t].model = thread[t].model
      /\ thread'[t].slot = thread[t].slot /\ thread'[t].overrides = thread[t].overrides
      /\ \A u \in Threads : u # t => thread'[u] = thread[u]
  BY <1>2, LeasedFacts DEF Goto, ThreadState
<1>4. /\ poolStage' = [poolStage EXCEPT ![t] = Stage(t)']
      /\ poolSound' = [poolSound EXCEPT ![t] = {own}]
      /\ UNCHANGED <<poolRequest, poolVoice>>
  BY <1>2, <1>3, OwnPool
<1>5. Stage(t)' = "apart" /\ poolStage[t] = "speaking" /\ poolSound[t] = {Leased(t)}
  BY <1>2, <1>3, PoolAt DEF Stage, SoundOf
<1>6. {[s EXCEPT !["sentenceSilence"] = "zero"] : s \in poolSound[t]} = {own}
  BY <1>1, <1>5
<1>7. QED BY <1>2, <1>4, <1>5, <1>6 DEF Pool!SpeakApart, Pool!Move

LEMMA SimulateEnd ==
  ASSUME IInv, NEW t \in Threads, EndInference(t)
  PROVE  Pool!Stop(t)
BY SimulateStop DEF EndInference

LEMMA SimulateCheckout ==
  ASSUME IInv, NEW t \in Threads, NEW m \in Models, NEW o \in SUBSET Fields, Checkout(t, m, o)
  PROVE  Pool!Ask(t, m, o)
<1>1. thread[t].pc = "idle" /\ UNCHANGED <<slots, config>>
  BY DEF Checkout
<1>2. /\ thread'[t].pc = "entering" /\ thread'[t].model = m /\ thread'[t].overrides = o
      /\ \A u \in Threads : u # t => thread'[u] = thread[u]
  BY LeasedFacts DEF Checkout, ThreadState
<1>3. \A u \in Threads : u # t => Kept(u)
  BY <1>2 DEF Kept
<1>4. /\ Stage(t)' = "asking" /\ Requested(t)' = [model |-> m, overrides |-> o]
      /\ VoiceOf(t)' = VoiceOf(t) /\ SoundOf(t)' = SoundOf(t)
  BY <1>1, <1>2 DEF Stage, Requested, VoiceOf, SoundOf, Leasing
<1>5. /\ poolStage' = [poolStage EXCEPT ![t] = "asking"]
      /\ poolRequest' = [poolRequest EXCEPT ![t] = [model |-> m, overrides |-> o]]
      /\ UNCHANGED <<poolVoice, poolSound>>
  BY <1>1, <1>3, <1>4, PoolStep
<1>6. poolStage[t] = "outside"
  BY <1>1, PoolAt DEF Stage
<1>7. QED BY <1>1, <1>5, <1>6 DEF Pool!Ask, Pool!Move

LEMMA SimulateEnter ==
  ASSUME IInv, NEW t \in Threads, Enter(t) \/ Wake(t)
  PROVE  Pool!Take(t) \/ UNCHANGED Pool!vars
<1>1. thread[t].pc \in {"entering", "woken"} /\ UNCHANGED config
  BY DEF Enter, Wake
<1>2. CASE Lease(t)
  BY <1>1, <1>2, SimulateLease
<1>3. CASE \E where \in {"loading", "asleep"} : thread' = Goto(t, where) /\ UNCHANGED slots
  BY <1>1, <1>3, SimulateWait
<1>4. QED BY <1>2, <1>3 DEF Enter, Wake

LEMMA SimulateLoadFails ==
  ASSUME IInv, NEW t \in Threads, LoadFails(t)
  PROVE  Pool!Refuse(t)
<1>1. PICK m \in Models : m = thread[t].model
  BY DEF IInv, TypeOK
<1>2. PICK new : new = [thread[t] EXCEPT !.pc = "idle"]
  OBVIOUS
<1>3. /\ thread[t].pc = "loading" /\ UNCHANGED <<slots, config>>
      /\ thread' = NotifiedAll(m, Goto(t, "idle"))
  BY <1>1 DEF LoadFails
<1>4. /\ new \in ThreadState /\ Goto(t, "idle") = [thread EXCEPT ![t] = new]
      /\ new.pc = "idle" /\ new.model = thread[t].model /\ new.overrides = thread[t].overrides
  BY <1>2, LeasedFacts DEF ThreadState, ThreadStates, Goto
<1>5. thread'[t] = new /\ \A u \in Threads : u # t => Kept(u)
  BY <1>3, <1>4, LeasedFacts, NotifyAllKeeps
<1>6. /\ Stage(t)' = "outside" /\ Requested(t)' = Requested(t)
      /\ VoiceOf(t)' = VoiceOf(t) /\ SoundOf(t)' = SoundOf(t)
  BY <1>3, <1>4, <1>5 DEF Stage, Requested, VoiceOf, SoundOf, Leasing
<1>7. /\ poolStage' = [poolStage EXCEPT ![t] = "outside"]
      /\ UNCHANGED <<poolRequest, poolVoice, poolSound>>
  BY <1>3, <1>5, <1>6, PoolStep
<1>8. poolStage[t] = "asking"
  BY <1>3, PoolAt DEF Stage
<1>9. QED BY <1>3, <1>7, <1>8 DEF Pool!Refuse, Pool!Move

LEMMA SimulateLoadDone ==
  ASSUME IInv, NEW t \in Threads, LoadDone(t)
  PROVE  Pool!Grow(t)
<1>1. PICK m \in Models : m = thread[t].model
  BY DEF IInv, TypeOK
<1>2. PICK s : s = slots[m] + 1
  OBVIOUS
<1>3. PICK new : new = [thread[t] EXCEPT !.pc = "leased", !.slot = s]
  OBVIOUS
<1>4. /\ thread[t].pc = "loading" /\ UNCHANGED config
      /\ slots' = [slots EXCEPT ![m] = slots[m] + 1]
      /\ thread' = NotifiedAll(m, [thread EXCEPT ![t].pc = "leased", ![t].slot = s])
  BY <1>1, <1>2 DEF LoadDone
<1>5. s \in Replicas /\ slots[m] < maxReplicas
  <2>1. /\ slots[m] \in Nat /\ slots[m] + loadingSlots[m] <= maxReplicas
        /\ loadingSlots[m] = Cardinality(At(m, "loading"))
    BY DEF IInv, TypeOK, LoadingInv, ReplicasBounded
  <2>2. t \in At(m, "loading")
    BY <1>1, <1>4 DEF At
  <2>3. loadingSlots[m] \in Nat /\ loadingSlots[m] > 0
    BY <2>1, <2>2, AtFinite, FS_EmptySet
  <2>4. QED BY <1>2, <2>1, <2>3, ReplicasType
<1>6. /\ new \in ThreadState
      /\ [thread EXCEPT ![t].pc = "leased", ![t].slot = s] = [thread EXCEPT ![t] = new]
      /\ new.pc = "leased" /\ new.slot = s
      /\ new.model = thread[t].model /\ new.overrides = thread[t].overrides
  BY <1>3, <1>5, LeasedFacts DEF ThreadState, ThreadStates
<1>7. thread'[t] = new /\ \A u \in Threads : u # t => Kept(u)
  <2>1. PICK threads : threads = [thread EXCEPT ![t] = new]
    OBVIOUS
  <2>2. thread' = NotifiedAll(m, threads) /\ thread[t].pc # "asleep" /\ new \in ThreadState
    BY <1>4, <1>6, <2>1
  <2>3. QED BY <2>1, <2>2, LeasedFacts, NotifyAllKeeps
<1>8. /\ Stage(t)' = "holding" /\ Requested(t)' = Requested(t)
      /\ VoiceOf(t)' = {s} /\ SoundOf(t)' = SoundOf(t)
  BY <1>4, <1>6, <1>7 DEF Stage, Requested, VoiceOf, SoundOf, Leasing
<1>9. /\ poolStage' = [poolStage EXCEPT ![t] = "holding"]
      /\ poolVoice' = [poolVoice EXCEPT ![t] = {s}]
      /\ UNCHANGED <<poolRequest, poolSound>>
  BY <1>4, <1>7, <1>8, PoolStep
<1>10. poolStage[t] = "asking" /\ Pool!Wanted(t) = m
  BY <1>1, <1>4, PoolAt DEF Stage
<1>11. QED BY <1>2, <1>4, <1>5, <1>9, <1>10 DEF Pool!Grow, Pool!Get, Pool!Move

LEMMA SimulateReset ==
  ASSUME IInv, NEW t \in Threads, Reset(t)
  PROVE  Pool!Return(t)
<1>1. PICK m \in Models : m = thread[t].model
  BY DEF IInv, TypeOK
<1>2. PICK new : new = [thread[t] EXCEPT !.pc = "idle"]
  OBVIOUS
<1>3. /\ thread[t].pc = "releasing" /\ UNCHANGED <<slots, config>>
      /\ thread' \in NotifiedOne(m, Goto(t, "idle"))
  BY <1>1 DEF Reset
<1>4. /\ new \in ThreadState /\ Goto(t, "idle") = [thread EXCEPT ![t] = new]
      /\ new.pc = "idle" /\ new.model = thread[t].model /\ new.overrides = thread[t].overrides
  BY <1>2, LeasedFacts DEF ThreadState, ThreadStates, Goto
<1>5. thread'[t] = new /\ \A u \in Threads : u # t => Kept(u)
  BY <1>3, <1>4, LeasedFacts, NotifyOneKeeps
<1>6. /\ Stage(t)' = "outside" /\ Requested(t)' = Requested(t)
      /\ VoiceOf(t)' = {} /\ SoundOf(t)' = SoundOf(t)
  BY <1>3, <1>4, <1>5 DEF Stage, Requested, VoiceOf, SoundOf, Leasing
<1>7. /\ poolStage' = [poolStage EXCEPT ![t] = "outside"]
      /\ poolVoice' = [poolVoice EXCEPT ![t] = {}]
      /\ UNCHANGED <<poolRequest, poolSound>>
  BY <1>3, <1>5, <1>6, PoolStep
<1>8. poolStage[t] = "leaving"
  BY <1>3, PoolAt DEF Stage
<1>9. QED BY <1>3, <1>7, <1>8 DEF Pool!Return, Pool!Move

LEMMA PoolInit ==
  ASSUME Init
  PROVE  Pool!Init
<1>1. ASSUME NEW t \in Threads
      PROVE  /\ Stage(t) = "outside" /\ VoiceOf(t) = {} /\ SoundOf(t) = {}
             /\ Requested(t) = [model |-> DefaultModel, overrides |-> {}]
  BY DEF Init, Stage, VoiceOf, SoundOf, Requested, Leasing
<1>2. poolRequest \in [Threads -> [model : Models, overrides : {{}}]]
  BY <1>1, ModelCacheAssumption DEF poolRequest, ModelCacheAssumption
<1>3. /\ poolStage = [t \in Threads |-> "outside"]
      /\ poolVoice = [t \in Threads |-> {}] /\ poolSound = [t \in Threads |-> {}]
  BY <1>1 DEF poolStage, poolVoice, poolSound
<1>4. slots = [m \in Models |-> IF m = DefaultModel THEN 1 ELSE 0]
  BY DEF Init
<1>5. QED BY <1>2, <1>3, <1>4 DEF Pool!Init

LEMMA PoolSimulates ==
  ASSUME IInv, [Next]_vars
  PROVE  [Pool!Next]_(Pool!vars)
<1>1. CASE UNCHANGED <<slots, thread, config>>
  BY <1>1 DEF Pool!vars, poolStage, poolRequest, poolVoice, poolSound, Stage, Requested,
              VoiceOf, SoundOf, Leasing, Leased
<1>2. ASSUME NEW t \in Threads, Worker(t)
      PROVE  Pool!Next \/ UNCHANGED Pool!vars
  <2>1. CASE \E m \in Models, o \in SUBSET Fields : Checkout(t, m, o)
    BY <2>1, SimulateCheckout DEF Pool!Next
  <2>2. CASE Enter(t) \/ Wake(t)
    BY <2>2, SimulateEnter DEF Pool!Next
  <2>3. CASE LoadFails(t) \/ LoadDone(t)
    BY <2>3, SimulateLoadFails, SimulateLoadDone DEF Pool!Next
  <2>4. CASE Override(t) \/ Open(t)
    BY <2>4, SimulateOverride, SimulateOpen DEF Pool!Next
  <2>5. CASE Split(t) \/ EndInference(t) \/ Reset(t)
    BY <2>5, SimulateSplit, SimulateEnd, SimulateReset DEF Pool!Next
  <2>6. QED BY <1>2, <2>1, <2>2, <2>3, <2>4, <2>5 DEF Worker
<1>3. CASE \E t \in Threads : Disconnect(t)
  BY <1>1, <1>3 DEF Disconnect
<1>4. QED BY <1>1, <1>2, <1>3 DEF Next, vars

\* With loads that fail, workers that sleep and clients that leave, every chunk
\* sounds as if its voice were its own: checkout(), the lease and the saving and
\* restoring of synthesisConfig implement VoicePool.
THEOREM PoolImplemented == Spec => ImplementsPool
<1>1. Init => Pool!Init
  BY PoolInit
<1>2. IInv /\ [Next]_vars => [Pool!Next]_(Pool!vars)
  BY PoolSimulates
<1>3. QED BY <1>1, <1>2, Inductive, PTL DEF Spec, ImplementsPool, Pool!Spec
=============================================================================
