----------------------- MODULE FairTtsSchedulerProofs -----------------------
(***************************************************************************)
(* Safety of FairTtsScheduler, proved for every number of requests,        *)
(* workers and chunks and every setting of the limits.                     *)
(*                                                                         *)
(* The inductive invariant has three parts.  JobInv says, job by job, how  *)
(* its flags and counters relate to each other and to where its requester  *)
(* is; HoldInv relates the counter of chunks in flight to the workers;     *)
(* QueueInv says which jobs are in the two queues.                         *)
(***************************************************************************)
EXTENDS FairTtsSchedulerTypes

-----------------------------------------------------------------------------
(* The inductive invariant                                                 *)

HeldAt(where) == where \in {"announcing", "waiting"}

\* Flags and counters of a job whose requester is at "where".
PhaseOk(s, where) ==
  /\ where \in {"idle", "admitting"} =>
       /\ ~s.activated /\ ~Stopped(s) /\ ~s.done
       /\ s.next = 0 /\ s.inFlight = 0 /\ s.pending = s.chunks
  /\ where = "admitting" => s.chunks > 0
  /\ where \in {"activating", "settling", "assembling", "cleaning"} => s.done
  /\ where = "assembling" => ~Stopped(s)
  /\ s.activated => HeldAt(where) \/ s.done

\* pendingChunks counts the undispatched chunks and those in flight, until the
\* job is stopped and it counts only the latter.
LedgerOk(s, where) ==
  /\ s.inFlight <= s.next /\ s.next <= s.chunks
  /\ ~Stopped(s) => s.pending + s.next = s.inFlight + s.chunks
  /\ Stopped(s) => s.pending = s.inFlight
  /\ s.done => s.pending = 0 /\ s.inFlight = 0
  /\ HeldAt(where) /\ ~s.done => s.pending > 0

JobInv == \A j \in Jobs : PhaseOk(job[j], pc[j]) /\ LedgerOk(job[j], pc[j])

Holders(j) == {w \in Workers : Busy(w) /\ worker[w].job = j}

HoldInv ==
  /\ \A w \in Workers : Busy(w) => worker[w].job \in Jobs /\ Held(worker[w].job)
  /\ \A j \in Jobs : job[j].inFlight = Cardinality(Holders(j))

\* The job has been accepted: its request is still held, or it is done.
Entered(j) == Held(j) \/ job[j].done

InQueue(queue, j) == \E i \in DOMAIN queue : queue[i] = j

QueueInv ==
  /\ \A i \in DOMAIN activeRoundRobin :
       job[activeRoundRobin[i]].activated /\ Entered(activeRoundRobin[i])
  /\ \A i \in DOMAIN pendingJobs :
       ~job[pendingJobs[i]].activated /\ Entered(pendingJobs[i])
  /\ \A i, k \in DOMAIN pendingJobs : pendingJobs[i] = pendingJobs[k] => i = k
  /\ \A j \in Jobs : Held(j) /\ Dispatchable(job[j]) =>
       InQueue(activeRoundRobin, j) \/ InQueue(pendingJobs, j)

Accounts == JobInv /\ HoldInv /\ QueueInv

IInv == TypeInv /\ Accounts

-----------------------------------------------------------------------------
(* The operators on one JobState                                           *)

\* What every one of them leaves alone, and what it never takes back.
Kept(s, t) ==
  /\ t.chunks = s.chunks /\ t.next = s.next /\ t.activated = s.activated
  /\ Stopped(s) => Stopped(t)
  /\ s.done => t.done

\* A chunk in flight ends.
LEMMA FinishState ==
  ASSUME NEW s \in JobState, NEW where \in CallStates,
         LedgerOk(s, where), s.inFlight > 0
  PROVE  /\ LedgerOk(MarkChunkFinished(s), where)
         /\ Kept(s, MarkChunkFinished(s))
         /\ MarkChunkFinished(s).inFlight = s.inFlight - 1
         /\ MarkChunkFinished(s).written = s.written
         /\ (Stopped(MarkChunkFinished(s)) <=> Stopped(s))
<1> DEFINE t == MarkChunkFinished(s)
<1>1. /\ s.chunks \in Nat /\ s.next \in Nat /\ s.pending \in Nat /\ s.inFlight \in Nat
      /\ s.done \in BOOLEAN
  BY DEF JobState
<1>2. s.pending >= s.inFlight
  BY <1>1 DEF LedgerOk
<1>3. /\ t.chunks = s.chunks /\ t.next = s.next /\ t.activated = s.activated
      /\ t.cancelled = s.cancelled /\ t.failed = s.failed /\ t.written = s.written
  BY DEF MarkChunkFinished, JobState
<1>4. t.inFlight = s.inFlight - 1 /\ t.pending = s.pending - 1
  BY <1>1, <1>2 DEF MarkChunkFinished, JobState, Decrement
<1>5. t.done <=> (s.done \/ (s.pending - 1 = 0 /\ s.inFlight - 1 = 0))
  <2>1. t.done <=> (s.done \/ (Decrement(s.pending) = 0 /\ Decrement(s.inFlight) = 0))
    BY DEF MarkChunkFinished, JobState
  <2>2. Decrement(s.pending) = s.pending - 1 /\ Decrement(s.inFlight) = s.inFlight - 1
    BY <1>1, <1>2 DEF Decrement
  <2>3. QED BY <2>1, <2>2
<1> HIDE DEF t
<1>6. Stopped(t) <=> Stopped(s)
  BY <1>3 DEF Stopped
<1>7. LedgerOk(t, where)
  BY <1>1, <1>2, <1>3, <1>4, <1>5, <1>6 DEF LedgerOk
<1>8. Kept(s, t)
  BY <1>3, <1>5, <1>6 DEF Kept
<1>9. QED BY <1>3, <1>4, <1>6, <1>7, <1>8 DEF t

\* A stopped job drops the chunks that are not in flight.
LEMMA DropState ==
  ASSUME NEW s \in JobState, s.pending >= s.inFlight
  PROVE  LET t == DropUndispatched(s) IN
           /\ t.pending = s.inFlight /\ t.inFlight = s.inFlight
           /\ t.chunks = s.chunks /\ t.next = s.next /\ t.activated = s.activated
           /\ t.cancelled = s.cancelled /\ t.failed = s.failed /\ t.done = s.done
           /\ t.written = s.written
BY DEF DropUndispatched, JobState

\* An exception ends a chunk in flight.
LEMMA CatchState ==
  ASSUME NEW s \in JobState, NEW where \in CallStates, NEW x \in Exceptions,
         LedgerOk(s, where), s.inFlight > 0
  PROVE  LET t == MarkChunkFinished(DropUndispatched(MarkedByException(s, x))) IN
           /\ LedgerOk(t, where)
           /\ Kept(s, t)
           /\ t.inFlight = s.inFlight - 1
           /\ t.written = s.written
           /\ Stopped(t)
<1> DEFINE m == MarkedByException(s, x)
           d == DropUndispatched(m)
<1>1. m \in JobState /\ d \in JobState
  BY StateTypes
<1>2. /\ m.chunks = s.chunks /\ m.next = s.next /\ m.activated = s.activated
      /\ m.pending = s.pending /\ m.inFlight = s.inFlight /\ m.done = s.done
      /\ m.written = s.written
  BY DEF MarkedByException, JobState
<1>3. Stopped(m)
  BY DEF MarkedByException, Stopped, JobState
<1>4. s.chunks \in Nat /\ s.next \in Nat /\ s.pending \in Nat /\ s.inFlight \in Nat
  BY DEF JobState
<1>5. m.pending >= m.inFlight
  BY <1>2, <1>4 DEF LedgerOk
<1> HIDE DEF m
<1>6. /\ d.pending = s.inFlight /\ d.inFlight = s.inFlight
      /\ d.chunks = s.chunks /\ d.next = s.next /\ d.activated = s.activated
      /\ d.done = s.done /\ d.written = s.written
  BY <1>1, <1>2, <1>5, DropState
<1>7. Stopped(d)
  BY <1>1, <1>3, <1>5, DropState DEF Stopped
<1> HIDE DEF d
<1>8. LedgerOk(d, where)
  BY <1>4, <1>6, <1>7 DEF LedgerOk
<1>9. LedgerOk(MarkChunkFinished(d), where) /\ Kept(d, MarkChunkFinished(d))
      /\ MarkChunkFinished(d).inFlight = s.inFlight - 1
      /\ MarkChunkFinished(d).written = s.written
      /\ Stopped(MarkChunkFinished(d))
  BY <1>1, <1>6, <1>7, <1>8, FinishState
<1>10. Kept(s, MarkChunkFinished(d))
  BY <1>6, <1>7, <1>9 DEF Kept
<1>11. QED BY <1>9, <1>10 DEF m, d

\* A chunk of a job that was stopped before the chunk began.
LEMMA SkipState ==
  ASSUME NEW s \in JobState, NEW where \in CallStates,
         LedgerOk(s, where), s.inFlight > 0, Stopped(s)
  PROVE  LET t == MarkChunkFinished(DropUndispatched(s)) IN
           /\ LedgerOk(t, where)
           /\ Kept(s, t)
           /\ t.inFlight = s.inFlight - 1
           /\ t.written = s.written
           /\ Stopped(t)
<1> DEFINE d == DropUndispatched(s)
<1>1. d \in JobState
  BY StateTypes
<1>2. s.pending = s.inFlight /\ s.pending \in Nat
  BY DEF LedgerOk, JobState
<1>3. /\ d.pending = s.inFlight /\ d.inFlight = s.inFlight
      /\ d.chunks = s.chunks /\ d.next = s.next /\ d.activated = s.activated
      /\ d.cancelled = s.cancelled /\ d.failed = s.failed /\ d.done = s.done
      /\ d.written = s.written
  BY <1>2, DropState
<1> HIDE DEF d
<1>4. Stopped(d)
  BY <1>3 DEF Stopped
<1>5. LedgerOk(d, where)
  BY <1>2, <1>3, <1>4 DEF LedgerOk
<1>6. LedgerOk(MarkChunkFinished(d), where) /\ Kept(d, MarkChunkFinished(d))
      /\ MarkChunkFinished(d).inFlight = s.inFlight - 1
      /\ MarkChunkFinished(d).written = s.written
      /\ Stopped(MarkChunkFinished(d))
  BY <1>1, <1>3, <1>4, <1>5, FinishState
<1>7. Kept(s, MarkChunkFinished(d))
  BY <1>3, <1>4, <1>6 DEF Kept
<1>8. QED BY <1>6, <1>7 DEF d

\* A chunk is stored and ends.
LEMMA StoreState ==
  ASSUME NEW s \in JobState, NEW where \in CallStates, NEW n \in Nat,
         LedgerOk(s, where), s.inFlight > 0
  PROVE  LET t == MarkChunkFinished(Stored(s, n)) IN
           /\ LedgerOk(t, where)
           /\ Kept(s, t)
           /\ t.inFlight = s.inFlight - 1
           /\ t.written = s.written \cup {n}
           /\ (Stopped(t) <=> Stopped(s))
<1> DEFINE d == Stored(s, n)
<1>1. d \in JobState
  BY StoredTypes
<1>2. /\ d.pending = s.pending /\ d.inFlight = s.inFlight
      /\ d.chunks = s.chunks /\ d.next = s.next /\ d.activated = s.activated
      /\ d.cancelled = s.cancelled /\ d.failed = s.failed /\ d.done = s.done
      /\ d.written = s.written \cup {n}
  BY DEF Stored, JobState
<1> HIDE DEF d
<1>3. Stopped(d) <=> Stopped(s)
  BY <1>2 DEF Stopped
<1>4. LedgerOk(d, where)
  BY <1>2, <1>3 DEF LedgerOk
<1>5. LedgerOk(MarkChunkFinished(d), where) /\ Kept(d, MarkChunkFinished(d))
      /\ MarkChunkFinished(d).inFlight = s.inFlight - 1
      /\ MarkChunkFinished(d).written = s.written \cup {n}
      /\ (Stopped(MarkChunkFinished(d)) <=> Stopped(s))
  BY <1>1, <1>2, <1>3, <1>4, FinishState
<1>6. Kept(s, MarkChunkFinished(d))
  BY <1>2, <1>3, <1>5 DEF Kept
<1>7. QED BY <1>5, <1>6 DEF d

\* The client's disconnect, and the queue timeout.
LEMMA CancelState ==
  ASSUME NEW s \in JobState, NEW where \in CallStates, LedgerOk(s, where)
  PROVE  LET t == CancelledByClient(s) IN
           /\ LedgerOk(t, where)
           /\ Kept(s, t)
           /\ t.inFlight = s.inFlight
           /\ t.written = s.written
           /\ Stopped(t)
<1> DEFINE t == CancelledByClient(s)
<1>1. s.chunks \in Nat /\ s.next \in Nat /\ s.pending \in Nat /\ s.inFlight \in Nat
  BY DEF JobState
<1>2. /\ t.chunks = s.chunks /\ t.next = s.next /\ t.activated = s.activated
      /\ t.inFlight = s.inFlight /\ t.pending = s.inFlight /\ t.written = s.written
      /\ t.cancelled
  BY DEF CancelledByClient, JobState
<1>3. t.done <=> (s.done \/ s.inFlight = 0)
  BY DEF CancelledByClient, JobState
<1> HIDE DEF t
<1>4. Stopped(t)
  BY <1>2 DEF Stopped
<1>5. LedgerOk(t, where)
  BY <1>1, <1>2, <1>3, <1>4 DEF LedgerOk
<1>6. Kept(s, t)
  BY <1>2, <1>3, <1>4 DEF Kept
<1>7. QED BY <1>2, <1>4, <1>5, <1>6 DEF t

LEMMA TimeoutState ==
  ASSUME NEW s \in JobState, NEW where \in CallStates, LedgerOk(s, where), s.next = 0
  PROVE  LET t == TimedOut(s) IN
           /\ LedgerOk(t, where)
           /\ Kept(s, t)
           /\ t.inFlight = s.inFlight
           /\ t.written = s.written
           /\ Stopped(t)
<1> DEFINE t == TimedOut(s)
<1>1. s.chunks \in Nat /\ s.next \in Nat /\ s.pending \in Nat /\ s.inFlight \in Nat
  BY DEF JobState
<1>2. s.inFlight = 0
  BY <1>1 DEF LedgerOk
<1>3. /\ t.chunks = s.chunks /\ t.next = s.next /\ t.activated = s.activated
      /\ t.inFlight = s.inFlight /\ t.pending = 0 /\ t.written = s.written
      /\ t.cancelled /\ t.done
  BY DEF TimedOut, JobState
<1> HIDE DEF t
<1>4. Stopped(t)
  BY <1>3 DEF Stopped
<1>5. LedgerOk(t, where)
  BY <1>1, <1>2, <1>3, <1>4 DEF LedgerOk
<1>6. Kept(s, t)
  BY <1>3, <1>4 DEF Kept
<1>7. QED BY <1>3, <1>4, <1>5, <1>6 DEF t

\* A chunk is dispatched.
LEMMA DispatchState ==
  ASSUME NEW s \in JobState, NEW where \in CallStates,
         LedgerOk(s, where), Dispatchable(s)
  PROVE  LET t == Dispatched(s) IN
           /\ LedgerOk(t, where)
           /\ ~s.done /\ ~t.done
           /\ t.inFlight = s.inFlight + 1 /\ t.next = s.next + 1
           /\ t.chunks = s.chunks /\ t.activated = s.activated /\ t.written = s.written
           /\ ~Stopped(t)
<1> DEFINE t == Dispatched(s)
<1>1. s.chunks \in Nat /\ s.next \in Nat /\ s.pending \in Nat /\ s.inFlight \in Nat
  BY DEF JobState
<1>2. ~Stopped(s) /\ s.next < s.chunks /\ ~s.done
  BY <1>1 DEF Dispatchable, LedgerOk
<1>3. /\ t.chunks = s.chunks /\ t.next = s.next + 1 /\ t.activated = s.activated
      /\ t.inFlight = s.inFlight + 1 /\ t.pending = s.pending /\ t.written = s.written
      /\ t.cancelled = s.cancelled /\ t.failed = s.failed /\ t.done = s.done
  BY DEF Dispatched, JobState
<1> HIDE DEF t
<1>4. ~Stopped(t)
  BY <1>2, <1>3 DEF Stopped
<1>5. LedgerOk(t, where)
  BY <1>1, <1>2, <1>3, <1>4 DEF LedgerOk
<1>6. QED BY <1>2, <1>3, <1>4, <1>5 DEF t

-----------------------------------------------------------------------------
(* Workers and the chunks in flight                                        *)

LEMMA HoldersFinite ==
  ASSUME NEW j \in Jobs
  PROVE  IsFiniteSet(Holders(j)) /\ Cardinality(Holders(j)) \in Nat
<1>1. IsFiniteSet(Workers) /\ Holders(j) \in SUBSET Workers
  BY SchedulerAssumption DEF SchedulerAssumption, Holders
<1>2. QED BY <1>1, FS_Subset, FS_CardinalityType

\* A job with no chunk in flight is in no worker's hands.
LEMMA NoHolders ==
  ASSUME HoldInv, NEW j \in Jobs, job[j].inFlight = 0
  PROVE  \A w \in Workers : Busy(w) => worker[w].job # j
<1>1. Holders(j) = {}
  BY HoldersFinite, FS_EmptySet DEF HoldInv
<1>2. QED BY <1>1 DEF Holders

\* A worker holds a chunk only of a job that is waited for and not done.
LEMMA HeldByWorker ==
  ASSUME IInv, NEW w \in Workers, Busy(w)
  PROVE  /\ worker[w].job \in Jobs
         /\ Held(worker[w].job)
         /\ ~job[worker[w].job].done
         /\ job[worker[w].job].inFlight > 0
         /\ job[worker[w].job] \in JobState
<1> DEFINE j == worker[w].job
<1>1. j \in Jobs /\ Held(j) /\ job[j].inFlight = Cardinality(Holders(j))
  BY DEF IInv, Accounts, HoldInv
<1>2. w \in Holders(j)
  BY DEF Holders
<1>3. Cardinality(Holders(j)) # 0
  BY <1>1, <1>2, HoldersFinite, FS_EmptySet
<1>4. job[j].inFlight > 0
  BY <1>1, <1>3, HoldersFinite
<1>5. ~job[j].done
  BY <1>1, <1>4 DEF IInv, Accounts, JobInv, LedgerOk
<1>6. job[j] \in JobState
  BY <1>1 DEF IInv, TypeInv, TypeOK
<1>7. QED BY <1>1, <1>4, <1>5, <1>6

\* Steps after which the workers hold what they held before.
LEMMA HoldFrame ==
  ASSUME HoldInv,
         \A w \in Workers : Busy(w)' <=> Busy(w),
         \A w \in Workers : Busy(w) => worker'[w].job = worker[w].job,
         \A j \in Jobs : job'[j].inFlight = job[j].inFlight,
         \A w \in Workers : Busy(w) => Held(worker[w].job)'
  PROVE  HoldInv'
<1>1. ASSUME NEW w \in Workers, Busy(w)'
      PROVE  worker'[w].job \in Jobs /\ Held(worker[w].job)'
  BY <1>1 DEF HoldInv
<1>2. ASSUME NEW j \in Jobs PROVE Holders(j)' = Holders(j)
  BY DEF Holders
<1>3. \A j \in Jobs : Cardinality(Holders(j))' = Cardinality(Holders(j))
  BY <1>2
<1>4. QED BY <1>1, <1>3 DEF HoldInv

\* Steps after which a worker has put down its chunk.
LEMMA HoldFinish ==
  ASSUME HoldInv, NEW w \in Workers, Busy(w), UNCHANGED pc,
         worker \in [Workers -> WorkerState],
         worker' = [worker EXCEPT ![w] = Ready],
         job'[worker[w].job].inFlight = job[worker[w].job].inFlight - 1,
         \A j \in Jobs : j # worker[w].job => job'[j].inFlight = job[j].inFlight
  PROVE  HoldInv'
<1>1. \A v \in Workers : v # w => worker'[v] = worker[v]
  OBVIOUS
<1>2. ~Busy(w)'
  BY DEF Busy, Ready
<1>3. \A v \in Workers : v # w => (Busy(v)' <=> Busy(v))
  BY <1>1 DEF Busy
<1>4. ASSUME NEW v \in Workers, Busy(v)'
      PROVE  worker'[v].job \in Jobs /\ Held(worker[v].job)'
  BY <1>1, <1>2, <1>3, <1>4 DEF HoldInv, Held
<1>5. ASSUME NEW j \in Jobs, j # worker[w].job
      PROVE  job'[j].inFlight = Cardinality(Holders(j)')
  <2>1. Holders(j)' = Holders(j)
    BY <1>1, <1>2, <1>3, <1>5 DEF Holders
  <2>2. QED BY <1>5, <2>1 DEF HoldInv
<1>6. ASSUME NEW j \in Jobs, j = worker[w].job
      PROVE  job'[j].inFlight = Cardinality(Holders(j)')
  <2>1. Holders(j)' = Holders(j) \ {w}
    BY <1>1, <1>2, <1>3 DEF Holders
  <2>2. w \in Holders(j)
    BY <1>6 DEF Holders
  <2>3. Cardinality(Holders(j) \ {w}) = Cardinality(Holders(j)) - 1
    BY <2>2, HoldersFinite, FS_RemoveElement
  <2>4. QED BY <1>6, <2>1, <2>3 DEF HoldInv
<1>7. \A j \in Jobs : job'[j].inFlight = Cardinality(Holders(j)')
  BY <1>5, <1>6
<1>8. QED BY <1>4, <1>7 DEF HoldInv

\* Steps after which a worker holds one more chunk.
LEMMA HoldTake ==
  ASSUME HoldInv, NEW w \in Workers, ~Busy(w), UNCHANGED pc,
         worker \in [Workers -> WorkerState],
         NEW t, t.stage = "begin", t.job \in Jobs, Held(t.job),
         worker' = [worker EXCEPT ![w] = t],
         job'[t.job].inFlight = job[t.job].inFlight + 1,
         \A j \in Jobs : j # t.job => job'[j].inFlight = job[j].inFlight
  PROVE  HoldInv'
<1>1. worker'[w] = t /\ \A v \in Workers : v # w => worker'[v] = worker[v]
  OBVIOUS
<1>2. Busy(w)'
  BY <1>1 DEF Busy
<1>3. \A v \in Workers : v # w => (Busy(v)' <=> Busy(v))
  BY <1>1 DEF Busy
<1>4. ASSUME NEW v \in Workers, Busy(v)'
      PROVE  worker'[v].job \in Jobs /\ Held(worker[v].job)'
  BY <1>1, <1>3, <1>4 DEF HoldInv, Held
<1>5. ASSUME NEW j \in Jobs, j # t.job
      PROVE  job'[j].inFlight = Cardinality(Holders(j)')
  <2>1. Holders(j)' = Holders(j)
    BY <1>1, <1>3, <1>5 DEF Holders
  <2>2. QED BY <1>5, <2>1 DEF HoldInv
<1>6. ASSUME NEW j \in Jobs, j = t.job
      PROVE  job'[j].inFlight = Cardinality(Holders(j)')
  <2>1. Holders(j)' = Holders(j) \cup {w}
    BY <1>1, <1>2, <1>3, <1>6 DEF Holders
  <2>2. w \notin Holders(j)
    BY DEF Holders
  <2>3. Cardinality(Holders(j) \cup {w}) = Cardinality(Holders(j)) + 1
    BY <2>2, HoldersFinite, FS_AddElement
  <2>4. QED BY <1>6, <2>1, <2>3 DEF HoldInv
<1>7. \A j \in Jobs : job'[j].inFlight = Cardinality(Holders(j)')
  BY <1>5, <1>6
<1>8. QED BY <1>4, <1>7 DEF HoldInv

\* Steps that leave the queues alone and make no job dispatchable.
LEMMA QueueFrame ==
  ASSUME TypeOK, QueueInv, UNCHANGED <<activeRoundRobin, pendingJobs>>,
         \A j \in Jobs : Entered(j) => Entered(j)',
         \A j \in Jobs : Entered(j) => job'[j].activated = job[j].activated,
         \A j \in Jobs : (Held(j) /\ Dispatchable(job[j]))' => Held(j) /\ Dispatchable(job[j])
  PROVE  QueueInv'
<1>1. /\ \A i \in DOMAIN activeRoundRobin : activeRoundRobin[i] \in Jobs
      /\ \A i \in DOMAIN pendingJobs : pendingJobs[i] \in Jobs
  BY DEF TypeOK
<1>2. ASSUME NEW i \in DOMAIN activeRoundRobin
      PROVE  job'[activeRoundRobin[i]].activated /\ Entered(activeRoundRobin[i])'
  BY <1>1 DEF QueueInv, Entered, Held
<1>3. ASSUME NEW i \in DOMAIN pendingJobs
      PROVE  ~job'[pendingJobs[i]].activated /\ Entered(pendingJobs[i])'
  BY <1>1 DEF QueueInv, Entered, Held
<1>4. \A j \in Jobs : (Held(j) /\ Dispatchable(job[j]))' =>
        InQueue(activeRoundRobin', j) \/ InQueue(pendingJobs', j)
  BY DEF QueueInv, InQueue
<1>5. QED BY <1>2, <1>3, <1>4 DEF QueueInv

-----------------------------------------------------------------------------
(* Steps of the same shape                                                 *)

\* The workers hold what they held.
SameChunks ==
  /\ \A w \in Workers : Busy(w)' <=> Busy(w)
  /\ \A w \in Workers : Busy(w) => worker'[w].job = worker[w].job
                                    /\ worker'[w].chunk = worker[w].chunk

\* Nothing that the invariant speaks of changes.
LEMMA SilentStep ==
  ASSUME IInv, SameChunks, UNCHANGED <<job, pc, activeRoundRobin, pendingJobs>>
  PROVE  Accounts'
<1> USE DEF IInv, Accounts
<1>1. JobInv'
  BY DEF JobInv
<1>2. \A j \in Jobs : Held(j)' = Held(j)
  BY DEF Held
<1>3. HoldInv'
  <2>1. \A w \in Workers : Busy(w) => Held(worker[w].job)'
    BY DEF SameChunks, HoldInv, Held
  <2>2. QED BY <2>1, HoldFrame DEF SameChunks
<1>4. QueueInv'
  BY <1>2, QueueFrame DEF TypeInv, Entered
<1>5. QED BY <1>1, <1>3, <1>4

\* A requester moves on.
LEMMA MoveStep ==
  ASSUME IInv, SameChunks, UNCHANGED <<job, activeRoundRobin, pendingJobs>>,
         NEW j \in Jobs, NEW to \in CallStates, pc' = [pc EXCEPT ![j] = to],
         PhaseOk(job[j], to), LedgerOk(job[j], to),
         Held(j) /\ ~job[j].done => HeldAt(to),
         HeldAt(to) => Held(j)
  PROVE  Accounts'
<1> USE DEF IInv, Accounts
<1>1. pc'[j] = to /\ \A i \in Jobs : i # j => pc'[i] = pc[i]
  BY DEF TypeInv, TypeOK
<1>2. JobInv'
  BY <1>1 DEF JobInv
<1>3. \A i \in Jobs : i # j => Held(i)' = Held(i)
  BY <1>1 DEF Held
<1>4. Held(j)' <=> HeldAt(to)
  BY <1>1 DEF Held, HeldAt
<1>5. HoldInv'
  <2>1. ASSUME NEW w \in Workers, Busy(w) PROVE Held(worker[w].job)'
    <3>1. worker[w].job \in Jobs /\ Held(worker[w].job) /\ ~job[worker[w].job].done
      BY <2>1, HeldByWorker
    <3>2. worker'[w].job = worker[w].job
      BY <2>1 DEF SameChunks
    <3>3. QED BY <1>1, <3>1, <3>2 DEF Held, HeldAt
  <2>2. QED BY <2>1, HoldFrame DEF SameChunks
<1>6. QueueInv'
  <2>1. \A i \in Jobs : Entered(i) => Entered(i)'
    BY <1>3, <1>4 DEF Entered
  <2>2. \A i \in Jobs : (Held(i) /\ Dispatchable(job[i]))' => Held(i) /\ Dispatchable(job[i])
    BY <1>3, <1>4
  <2>3. QED BY <2>1, <2>2, QueueFrame DEF TypeInv
<1>7. QED BY <1>2, <1>5, <1>6

\* The state of a job that is waited for changes.
LEMMA JobStep ==
  ASSUME IInv, UNCHANGED <<pc, activeRoundRobin, pendingJobs>>,
         NEW j \in Jobs, NEW t, job' = [job EXCEPT ![j] = t],
         Held(j), Kept(job[j], t), LedgerOk(t, pc[j])
  PROVE  JobInv' /\ QueueInv'
<1> USE DEF IInv, Accounts
<1>1. job'[j] = t /\ \A i \in Jobs : i # j => job'[i] = job[i]
  BY DEF TypeInv, TypeOK
<1>2. \A i \in Jobs : Held(i)' = Held(i)
  BY DEF Held
<1>3. PhaseOk(t, pc[j])
  BY DEF PhaseOk, Held, HeldAt
<1>4. JobInv'
  BY <1>1, <1>3 DEF JobInv
<1>5. Dispatchable(t) => Dispatchable(job[j])
  BY DEF Kept, Dispatchable
<1>6. QueueInv'
  <2>1. \A i \in Jobs : Entered(i) => Entered(i)'
    BY <1>1, <1>2 DEF Entered, Kept
  <2>2. \A i \in Jobs : job'[i].activated = job[i].activated
    BY <1>1 DEF Kept
  <2>3. \A i \in Jobs : (Held(i) /\ Dispatchable(job[i]))' => Held(i) /\ Dispatchable(job[i])
    BY <1>1, <1>2, <1>5
  <2>4. QED BY <2>1, <2>2, <2>3, QueueFrame DEF TypeInv
<1>7. QED BY <1>4, <1>6

\* A worker puts down its chunk, which changes the state of the chunk's job.
LEMMA PutDownStep ==
  ASSUME IInv, UNCHANGED <<pc, activeRoundRobin, pendingJobs>>,
         NEW w \in Workers, Busy(w), worker' = [worker EXCEPT ![w] = Ready],
         NEW t, job' = [job EXCEPT ![worker[w].job] = t],
         Kept(job[worker[w].job], t), LedgerOk(t, pc[worker[w].job]),
         t.inFlight = job[worker[w].job].inFlight - 1
  PROVE  Accounts'
<1> DEFINE j == worker[w].job
<1>1. j \in Jobs /\ Held(j)
  BY HeldByWorker
<1>2. job \in [Jobs -> JobState] /\ worker \in [Workers -> WorkerState]
  BY DEF IInv, TypeInv, TypeOK
<1>3. job'[j] = t /\ \A i \in Jobs : i # j => job'[i] = job[i]
  BY <1>1, <1>2
<1>4. JobInv' /\ QueueInv'
  BY <1>1, JobStep
<1>5. HoldInv'
  BY <1>2, <1>3, HoldFinish DEF IInv, Accounts
<1>6. QED BY <1>4, <1>5 DEF Accounts

-----------------------------------------------------------------------------
(* One lemma per group of actions                                          *)

LEMMA NotifySame ==
  ASSUME TypeInv, NotifyWorkers PROVE SameChunks
BY NotifyTypes DEF SameChunks

LEMMA EnvironmentStep ==
  ASSUME IInv, NEW j \in Jobs, Environment(j)
  PROVE  Accounts'
<1>1. SameChunks /\ UNCHANGED <<job, pc, activeRoundRobin, pendingJobs>>
  BY DEF Environment, Disconnect, Expire, queueVars, callVars, SameChunks, Busy
<1>2. QED BY <1>1, SilentStep

LEMMA SubmitStep ==
  ASSUME IInv, NEW j \in Jobs, Submit(j)
  PROVE  Accounts'
<1> USE DEF IInv, Accounts
<1>0. /\ job \in [Jobs -> JobState] /\ pc \in [Jobs -> CallStates]
      /\ pc[j] = "idle" /\ PhaseOk(job[j], "idle") /\ LedgerOk(job[j], "idle")
  BY DEF Submit, TypeInv, TypeOK, JobInv
<1>1. SameChunks /\ UNCHANGED <<activeRoundRobin, pendingJobs>>
  BY DEF Submit, queueVars, SameChunks, Busy
<1>2. CASE UNCHANGED job /\ pc' = [pc EXCEPT ![j] = "returned"]
  <2>1. "returned" \in CallStates
    BY DEF CallStates
  <2>2. PhaseOk(job[j], "returned") /\ LedgerOk(job[j], "returned")
    BY <1>0 DEF PhaseOk, LedgerOk, HeldAt
  <2>3. ~Held(j) /\ ~HeldAt("returned")
    BY <1>0 DEF Held, HeldAt
  <2>4. QED BY <1>1, <1>2, <2>1, <2>2, <2>3, MoveStep
<1>3. CASE \E n \in 1..MaxChunks :
             /\ job' = [job EXCEPT ![j] = [NewJob EXCEPT !.chunks = n, !.pending = n]]
             /\ pc' = [pc EXCEPT ![j] = "admitting"]
  <2>1. PICK n \in 1..MaxChunks :
             /\ job' = [job EXCEPT ![j] = [NewJob EXCEPT !.chunks = n, !.pending = n]]
             /\ pc' = [pc EXCEPT ![j] = "admitting"]
    BY <1>3
  <2> DEFINE t == [NewJob EXCEPT !.chunks = n, !.pending = n]
  <2>2. n \in Nat /\ n > 0
    BY LimitsType
  <2>3. /\ t.chunks = n /\ t.pending = n /\ t.next = 0 /\ t.inFlight = 0
        /\ ~t.activated /\ ~t.cancelled /\ ~t.failed /\ ~t.done
    BY DEF NewJob
  <2> HIDE DEF t
  <2>4. /\ job'[j] = t /\ pc'[j] = "admitting"
        /\ \A i \in Jobs : i # j => job'[i] = job[i] /\ pc'[i] = pc[i]
    BY <1>0, <2>1 DEF t
  <2>5. PhaseOk(t, "admitting") /\ LedgerOk(t, "admitting")
    BY <2>2, <2>3 DEF PhaseOk, LedgerOk, HeldAt, Stopped
  <2>6. JobInv'
    BY <2>4, <2>5 DEF JobInv
  <2>7. \A i \in Jobs : Held(i)' <=> Held(i)
    BY <1>0, <2>4 DEF Held
  <2>8. job[j].inFlight = 0 /\ ~Entered(j) /\ ~Held(j)
    BY <1>0 DEF PhaseOk, Entered, Held
  <2>9. HoldInv'
    <3>1. \A i \in Jobs : job'[i].inFlight = job[i].inFlight
      BY <2>3, <2>4, <2>8
    <3>2. ASSUME NEW w \in Workers, Busy(w) PROVE Held(worker[w].job)'
      <4>1. worker[w].job \in Jobs /\ Held(worker[w].job)
        BY <3>2 DEF HoldInv
      <4>2. worker'[w].job = worker[w].job
        BY <1>1, <3>2 DEF SameChunks
      <4>3. QED BY <2>7, <4>1, <4>2 DEF Held
    <3>3. QED BY <1>1, <3>1, <3>2, HoldFrame DEF SameChunks
  <2>10. QueueInv'
    <3>1. \A i \in Jobs : Entered(i) => Entered(i)' /\ job'[i].activated = job[i].activated
      BY <2>4, <2>7, <2>8 DEF Entered
    <3>2. \A i \in Jobs :
            (Held(i) /\ Dispatchable(job[i]))' => Held(i) /\ Dispatchable(job[i])
      BY <2>4, <2>7, <2>8
    <3>3. QED BY <1>1, <3>1, <3>2, QueueFrame DEF TypeInv
  <2>11. QED BY <2>6, <2>9, <2>10
<1>4. QED BY <1>2, <1>3 DEF Submit, Return

\* The steps in which a requester does nothing but move on.
LEMMA MoveSteps ==
  ASSUME IInv, NEW j \in Jobs,
         \/ AnnounceAdmission(j) \/ Release(j) \/ EndRelease(j) \/ Settle(j)
         \/ AssembleWav(j) \/ CleanupFinish(j)
  PROVE  Accounts'
<1> USE DEF IInv, Accounts
<1>0. PhaseOk(job[j], pc[j]) /\ LedgerOk(job[j], pc[j]) /\ pc \in [Jobs -> CallStates]
  BY DEF TypeInv, TypeOK, JobInv
<1>1. CASE AnnounceAdmission(j)
  <2>1. SameChunks /\ UNCHANGED <<job, activeRoundRobin, pendingJobs>>
        /\ pc' = [pc EXCEPT ![j] = "waiting"] /\ pc[j] = "announcing"
    BY <1>1, NotifySame DEF AnnounceAdmission, queueVars
  <2>2. "waiting" \in CallStates
    BY DEF CallStates
  <2>3. PhaseOk(job[j], "waiting") /\ LedgerOk(job[j], "waiting")
    BY <1>0, <2>1 DEF PhaseOk, LedgerOk, HeldAt
  <2>4. Held(j) /\ HeldAt("waiting")
    BY <2>1 DEF Held, HeldAt
  <2>5. QED BY <2>1, <2>2, <2>3, <2>4, MoveStep
<1>2. ASSUME NEW to \in {"activating", "settling", "assembling", "cleaning", "returned"},
             SameChunks, UNCHANGED <<job, activeRoundRobin, pendingJobs>>,
             pc' = [pc EXCEPT ![j] = to],
             job[j].done, to = "assembling" => ~Stopped(job[j])
      PROVE  Accounts'
  <2>1. to \in CallStates /\ ~HeldAt(to)
    BY DEF CallStates, HeldAt
  <2>2. PhaseOk(job[j], to) /\ LedgerOk(job[j], to)
    BY <1>0, <1>2, <2>1 DEF PhaseOk, LedgerOk
  <2>3. QED BY <1>2, <2>1, <2>2, MoveStep
<1>3. CASE Release(j)
  <2>1. SameChunks /\ UNCHANGED <<job, activeRoundRobin, pendingJobs>> /\ job[j].done
        /\ pc' = [pc EXCEPT ![j] = "activating"]
    BY <1>3 DEF Release, SameChunks, Busy
  <2>2. QED BY <1>2, <2>1
<1>4. CASE EndRelease(j)
  <2>1. SameChunks /\ UNCHANGED <<job, activeRoundRobin, pendingJobs>> /\ job[j].done
        /\ pc' = [pc EXCEPT ![j] = "settling"]
    BY <1>0, <1>4 DEF EndRelease, SameChunks, Busy, queueVars, PhaseOk
  <2>2. QED BY <1>2, <2>1
<1>5. CASE Settle(j)
  <2>1. SameChunks /\ UNCHANGED <<job, activeRoundRobin, pendingJobs>> /\ job[j].done
    BY <1>0, <1>5, NotifySame DEF Settle, queueVars, PhaseOk
  <2>2. \/ pc' = [pc EXCEPT ![j] = "cleaning"]
        \/ pc' = [pc EXCEPT ![j] = "assembling"] /\ ~Stopped(job[j])
    BY <1>5 DEF Settle
  <2>3. QED BY <1>2, <2>1, <2>2
<1>6. CASE AssembleWav(j)
  <2>1. SameChunks /\ UNCHANGED <<job, activeRoundRobin, pendingJobs>> /\ job[j].done
    BY <1>0, <1>6 DEF AssembleWav, SameChunks, Busy, queueVars, PhaseOk
  <2>2. \E to \in {"cleaning", "returned"} : pc' = [pc EXCEPT ![j] = to]
    BY <1>6 DEF AssembleWav, Return
  <2>3. QED BY <1>2, <2>1, <2>2
<1>7. CASE CleanupFinish(j)
  <2>1. SameChunks /\ UNCHANGED <<job, activeRoundRobin, pendingJobs>> /\ job[j].done
        /\ pc' = [pc EXCEPT ![j] = "returned"]
    BY <1>0, <1>7 DEF CleanupFinish, SameChunks, Busy, queueVars, PhaseOk
  <2>2. QED BY <1>2, <2>1
<1>8. QED BY <1>1, <1>3, <1>4, <1>5, <1>6, <1>7

LEMMA WaitTurnStep ==
  ASSUME IInv, NEW j \in Jobs, WaitTurn(j)
  PROVE  Accounts'
<1> USE DEF IInv, Accounts
<1> DEFINE polled == IF clientGone[j] THEN CancelledByClient(job[j]) ELSE job[j]
           t == IF TimeoutDue(j, polled) THEN TimedOut(polled) ELSE polled
<1>1. /\ job[j] \in JobState /\ job \in [Jobs -> JobState] /\ pc[j] \in CallStates
      /\ LedgerOk(job[j], pc[j]) /\ Held(j)
  BY DEF WaitTurn, TypeInv, TypeOK, JobInv, Held
<1>2. /\ polled \in JobState /\ LedgerOk(polled, pc[j]) /\ Kept(job[j], polled)
      /\ polled.inFlight = job[j].inFlight
  <2>1. Kept(job[j], job[j])
    BY DEF Kept
  <2>2. QED BY <1>1, <2>1, CancelState, StateTypes
<1> HIDE DEF polled
<1>3. LedgerOk(t, pc[j]) /\ Kept(job[j], t) /\ t.inFlight = job[j].inFlight
  <2>1. CASE TimeoutDue(j, polled)
    <3>1. polled.next = 0
      BY <2>1 DEF TimeoutDue
    <3>2. /\ LedgerOk(TimedOut(polled), pc[j]) /\ Kept(polled, TimedOut(polled))
          /\ TimedOut(polled).inFlight = polled.inFlight
      BY <1>1, <1>2, <3>1, TimeoutState
    <3>3. QED BY <1>2, <2>1, <3>2 DEF Kept
  <2>2. CASE ~TimeoutDue(j, polled)
    BY <1>2, <2>2
  <2>3. QED BY <2>1, <2>2
<1>4. /\ job' = [job EXCEPT ![j] = t]
      /\ UNCHANGED <<pc, activeRoundRobin, pendingJobs>> /\ NotifyWorkers
  BY DEF WaitTurn, polled, queueVars, callVars
<1> HIDE DEF t
<1>5. JobInv' /\ QueueInv'
  BY <1>1, <1>3, <1>4, JobStep
<1>6. SameChunks
  BY <1>4, NotifySame
<1>7. HoldInv'
  <2>1. \A i \in Jobs : job'[i].inFlight = job[i].inFlight
    BY <1>1, <1>3, <1>4
  <2>2. \A w \in Workers : Busy(w) => Held(worker[w].job)'
    BY <1>4, <1>6 DEF SameChunks, HoldInv, Held
  <2>3. QED BY <1>6, <2>1, <2>2, HoldFrame DEF SameChunks
<1>8. QED BY <1>5, <1>7

LEMMA AdmitStep ==
  ASSUME IInv, NEW j \in Jobs, Admit(j)
  PROVE  Accounts'
<1> USE DEF IInv, Accounts
<1>0. /\ job \in [Jobs -> JobState] /\ pc \in [Jobs -> CallStates]
      /\ activeRoundRobin \in Seq(Jobs) /\ pendingJobs \in Seq(Jobs)
      /\ pc[j] = "admitting" /\ PhaseOk(job[j], "admitting") /\ LedgerOk(job[j], "admitting")
  BY DEF Admit, TypeInv, TypeOK, JobInv
<1>1. SameChunks
  BY DEF Admit, SameChunks, Busy
<1>2. ~Held(j) /\ ~Entered(j) /\ ~Stopped(job[j]) /\ ~job[j].activated
  BY <1>0 DEF Held, Entered, PhaseOk
<1>3. CASE pc' = [pc EXCEPT ![j] = "returned"] /\ UNCHANGED <<queueVars, job>>
  <2>1. "returned" \in CallStates
    BY DEF CallStates
  <2>2. PhaseOk(job[j], "returned") /\ LedgerOk(job[j], "returned") /\ ~HeldAt("returned")
    BY <1>0 DEF PhaseOk, LedgerOk, HeldAt
  <2>3. QED BY <1>1, <1>2, <1>3, <2>1, <2>2, MoveStep DEF queueVars
<1>4. ASSUME pc' = [pc EXCEPT ![j] = "announcing"],
             NEW t, job' = [job EXCEPT ![j] = t],
             \/ /\ t = job[j]
                /\ pendingJobs' = Append(pendingJobs, j) /\ UNCHANGED activeRoundRobin
             \/ /\ t = [job[j] EXCEPT !.activated = TRUE]
                /\ activeRoundRobin' = Append(activeRoundRobin, j) /\ UNCHANGED pendingJobs
      PROVE  Accounts'
  <2>1. /\ job'[j] = t /\ pc'[j] = "announcing"
        /\ \A i \in Jobs : i # j => job'[i] = job[i] /\ pc'[i] = pc[i]
    BY <1>0, <1>4
  <2>2. /\ t.chunks = job[j].chunks /\ t.next = job[j].next /\ t.pending = job[j].pending
        /\ t.inFlight = job[j].inFlight /\ t.done = job[j].done
        /\ t.cancelled = job[j].cancelled /\ t.failed = job[j].failed
    BY <1>0, <1>4 DEF JobState
  <2>3. ~Stopped(t)
    BY <1>2, <2>2 DEF Stopped
  <2>4. PhaseOk(t, "announcing") /\ LedgerOk(t, "announcing")
    <3>1. job[j].chunks \in Nat /\ job[j].chunks > 0 /\ job[j].pending = job[j].chunks
          /\ job[j].next = 0 /\ job[j].inFlight = 0 /\ ~job[j].done
      BY <1>0 DEF JobState, PhaseOk
    <3>2. QED BY <2>2, <2>3, <3>1 DEF PhaseOk, LedgerOk, HeldAt
  <2>5. JobInv'
    BY <2>1, <2>4 DEF JobInv
  <2>6. Held(j)' /\ \A i \in Jobs : i # j => (Held(i)' <=> Held(i))
    BY <2>1 DEF Held
  <2>7. HoldInv'
    <3>1. \A i \in Jobs : job'[i].inFlight = job[i].inFlight
      BY <2>1, <2>2
    <3>2. ASSUME NEW w \in Workers, Busy(w) PROVE Held(worker[w].job)'
      <4>1. worker[w].job \in Jobs /\ Held(worker[w].job) /\ worker'[w].job = worker[w].job
        BY <1>1, <3>2 DEF HoldInv, SameChunks
      <4>2. QED BY <2>6, <4>1 DEF Held
    <3>3. QED BY <1>1, <3>1, <3>2, HoldFrame DEF SameChunks
  <2>8. \A i \in Jobs : Entered(i) => Entered(i)' /\ job'[i] = job[i] /\ i # j
    BY <1>2, <2>1, <2>6 DEF Entered
  <2>9. /\ \A i \in DOMAIN activeRoundRobin : activeRoundRobin[i] \in Jobs
        /\ \A i \in DOMAIN pendingJobs : pendingJobs[i] \in Jobs
    BY <1>0
  <2>10. ASSUME NEW i \in Jobs, i # j, (Held(i) /\ Dispatchable(job[i]))'
         PROVE  InQueue(activeRoundRobin, i) \/ InQueue(pendingJobs, i)
    BY <2>1, <2>6, <2>10 DEF QueueInv
  <2>11. CASE /\ t = job[j]
              /\ pendingJobs' = Append(pendingJobs, j) /\ UNCHANGED activeRoundRobin
    <3>1. /\ Len(pendingJobs) \in Nat /\ DOMAIN pendingJobs = 1..Len(pendingJobs)
          /\ DOMAIN pendingJobs' = 1..(Len(pendingJobs) + 1)
          /\ \A i \in 1..Len(pendingJobs) : pendingJobs'[i] = pendingJobs[i]
          /\ pendingJobs'[Len(pendingJobs) + 1] = j
      BY <1>0, <2>11
    <3>2. \A i \in DOMAIN pendingJobs : pendingJobs[i] # j
      BY <2>8, <2>9 DEF QueueInv
    <3>3. \A i \in DOMAIN activeRoundRobin' :
            job'[activeRoundRobin'[i]].activated /\ Entered(activeRoundRobin[i])'
      BY <2>8, <2>9, <2>11 DEF QueueInv, Entered, Held
    <3>4. ASSUME NEW i \in DOMAIN pendingJobs'
          PROVE  ~job'[pendingJobs'[i]].activated /\ Entered(pendingJobs[i])'
      <4>1. CASE i = Len(pendingJobs) + 1
        BY <1>2, <2>1, <2>6, <2>11, <3>1, <4>1 DEF Entered, Held
      <4>2. CASE i \in 1..Len(pendingJobs)
        BY <2>8, <2>9, <3>1, <4>2 DEF QueueInv, Entered, Held
      <4>3. QED BY <3>1, <4>1, <4>2
    <3>5. \A i, k \in DOMAIN pendingJobs' : pendingJobs'[i] = pendingJobs'[k] => i = k
      BY <3>1, <3>2 DEF QueueInv
    <3>6. ASSUME NEW i \in Jobs, (Held(i) /\ Dispatchable(job[i]))'
          PROVE  InQueue(activeRoundRobin', i) \/ InQueue(pendingJobs', i)
      <4>1. CASE i = j
        BY <3>1, <4>1 DEF InQueue
      <4>2. CASE i # j
        BY <2>10, <2>11, <3>1, <3>6, <4>2 DEF InQueue
      <4>3. QED BY <4>1, <4>2
    <3>7. QueueInv'
      BY <3>3, <3>4, <3>5, <3>6 DEF QueueInv
    <3>8. QED BY <2>5, <2>7, <3>7
  <2>12. CASE /\ t = [job[j] EXCEPT !.activated = TRUE]
              /\ activeRoundRobin' = Append(activeRoundRobin, j) /\ UNCHANGED pendingJobs
    <3> DEFINE n == Len(activeRoundRobin)
    <3>1. /\ n \in Nat /\ DOMAIN activeRoundRobin = 1..n
          /\ DOMAIN activeRoundRobin' = 1..(n + 1)
          /\ \A i \in 1..n : activeRoundRobin'[i] = activeRoundRobin[i]
          /\ activeRoundRobin'[n + 1] = j
      BY <1>0, <2>12
    <3>2. t.activated
      BY <1>0, <2>12 DEF JobState
    <3> HIDE DEF n
    <3>3. \A i \in DOMAIN pendingJobs' :
            ~job'[pendingJobs'[i]].activated /\ Entered(pendingJobs[i])'
      BY <2>8, <2>9, <2>12 DEF QueueInv, Entered, Held
    <3>4. ASSUME NEW i \in DOMAIN activeRoundRobin'
          PROVE  job'[activeRoundRobin'[i]].activated /\ Entered(activeRoundRobin[i])'
      <4>1. CASE i = n + 1
        BY <2>1, <2>6, <3>1, <3>2, <4>1 DEF Entered, Held
      <4>2. CASE i \in 1..n
        BY <2>8, <2>9, <3>1, <4>2 DEF QueueInv, Entered, Held
      <4>3. QED BY <3>1, <4>1, <4>2
    <3>5. \A i, k \in DOMAIN pendingJobs' : pendingJobs'[i] = pendingJobs'[k] => i = k
      BY <2>12 DEF QueueInv
    <3>6. ASSUME NEW i \in Jobs, (Held(i) /\ Dispatchable(job[i]))'
          PROVE  InQueue(activeRoundRobin', i) \/ InQueue(pendingJobs', i)
      <4>1. CASE i = j
        BY <3>1, <4>1 DEF InQueue
      <4>2. CASE i # j
        BY <2>10, <2>12, <3>1, <3>6, <4>2 DEF InQueue
      <4>3. QED BY <4>1, <4>2
    <3>7. QueueInv'
      BY <3>3, <3>4, <3>5, <3>6 DEF QueueInv
    <3>8. QED BY <2>5, <2>7, <3>7
  <2>13. QED BY <1>4, <2>11, <2>12
<1>5. CASE /\ pc' = [pc EXCEPT ![j] = "announcing"] /\ UNCHANGED job
           /\ pendingJobs' = Append(pendingJobs, j) /\ UNCHANGED activeRoundRobin
  <2>1. job' = [job EXCEPT ![j] = job[j]]
    BY <1>0, <1>5
  <2>2. QED BY <1>4, <1>5, <2>1
<1>6. CASE /\ pc' = [pc EXCEPT ![j] = "announcing"]
           /\ job' = [job EXCEPT ![j].activated = TRUE]
           /\ activeRoundRobin' = Append(activeRoundRobin, j) /\ UNCHANGED pendingJobs
  <2>1. job' = [job EXCEPT ![j] = [job[j] EXCEPT !.activated = TRUE]]
    BY <1>6
  <2>2. QED BY <1>4, <1>6, <2>1
<1>7. QED BY <1>3, <1>5, <1>6 DEF Admit, Return

LEMMA ActivateNextStep ==
  ASSUME IInv, NEW j \in Jobs, ActivateNext(j)
  PROVE  Accounts'
<1> USE DEF IInv, Accounts
<1> DEFINE p == Head(pendingJobs)
           n == Len(activeRoundRobin)
<1>0. /\ job \in [Jobs -> JobState]
      /\ activeRoundRobin \in Seq(Jobs) /\ pendingJobs \in Seq(Jobs)
      /\ UNCHANGED <<pc, worker>>
  BY DEF ActivateNext, TypeInv, TypeOK, callVars
<1>1. /\ pendingJobs # <<>> /\ Len(pendingJobs) \in Nat /\ Len(pendingJobs) > 0
      /\ 1 \in DOMAIN pendingJobs /\ p = pendingJobs[1] /\ p \in Jobs
      /\ DOMAIN pendingJobs = 1..Len(pendingJobs)
      /\ DOMAIN pendingJobs' = 1..(Len(pendingJobs) - 1)
      /\ \A i \in DOMAIN pendingJobs' : pendingJobs'[i] = pendingJobs[i + 1]
  BY <1>0 DEF ActivateNext, MoreToActivate
<1>2. SameChunks /\ \A i \in Jobs : (Held(i)' <=> Held(i))
  BY <1>0 DEF SameChunks, Busy, Held
<1>3. ~job[p].activated /\ Entered(p)
  BY <1>1 DEF QueueInv
<1>4. \A i \in DOMAIN pendingJobs' : pendingJobs'[i] \in Jobs /\ pendingJobs'[i] # p
  BY <1>0, <1>1 DEF QueueInv
<1>5. \A i \in Jobs : InQueue(pendingJobs, i) => i = p \/ InQueue(pendingJobs', i)
  <2> SUFFICES ASSUME NEW i \in Jobs, NEW k \in DOMAIN pendingJobs, pendingJobs[k] = i, i # p
               PROVE  InQueue(pendingJobs', i)
    BY DEF InQueue
  <2>1. k # 1 /\ k - 1 \in DOMAIN pendingJobs' /\ pendingJobs'[k - 1] = pendingJobs[k]
    BY <1>1
  <2>2. QED BY <2>1 DEF InQueue
<1>6. \A i, k \in DOMAIN pendingJobs' : pendingJobs'[i] = pendingJobs'[k] => i = k
  BY <1>1 DEF QueueInv
<1>7. \A i \in DOMAIN activeRoundRobin : activeRoundRobin[i] \in Jobs
  BY <1>0
<1>8. CASE /\ job[p].done \/ Stopped(job[p])
           /\ UNCHANGED <<activeRoundRobin, job>>
  <2>1. JobInv'
    BY <1>0, <1>8 DEF JobInv
  <2>2. HoldInv'
    <3>1. \A w \in Workers : Busy(w) => Held(worker[w].job)'
      BY <1>0 DEF HoldInv, Held
    <3>2. QED BY <1>2, <1>8, <3>1, HoldFrame DEF SameChunks
  <2>3. ~Dispatchable(job[p])
    <3>1. LedgerOk(job[p], pc[p]) /\ job[p] \in JobState
      BY <1>0, <1>1 DEF JobInv
    <3>2. QED BY <1>8, <3>1 DEF LedgerOk, Dispatchable, JobState
  <2>4. \A i \in DOMAIN pendingJobs' :
          ~job'[pendingJobs'[i]].activated /\ Entered(pendingJobs[i])'
    BY <1>0, <1>1, <1>8 DEF QueueInv, Entered, Held
  <2>5. \A i \in DOMAIN activeRoundRobin' :
          job'[activeRoundRobin'[i]].activated /\ Entered(activeRoundRobin[i])'
    BY <1>0, <1>8 DEF QueueInv, Entered, Held
  <2>6. ASSUME NEW i \in Jobs, (Held(i) /\ Dispatchable(job[i]))'
        PROVE  InQueue(activeRoundRobin', i) \/ InQueue(pendingJobs', i)
    <3>1. Held(i) /\ Dispatchable(job[i])
      BY <1>2, <1>8, <2>6
    <3>2. i # p
      BY <2>3, <3>1
    <3>3. QED BY <1>5, <1>8, <3>1, <3>2 DEF QueueInv
  <2>7. QueueInv'
    BY <1>6, <2>4, <2>5, <2>6 DEF QueueInv
  <2>8. QED BY <2>1, <2>2, <2>7
<1>9. CASE /\ ~job[p].done /\ ~Stopped(job[p])
           /\ job' = [job EXCEPT ![p].activated = TRUE]
           /\ activeRoundRobin' = Append(activeRoundRobin, p)
  <2> DEFINE t == [job[p] EXCEPT !.activated = TRUE]
  <2>1. job'[p] = t /\ \A i \in Jobs : i # p => job'[i] = job[i]
    BY <1>0, <1>1, <1>9
  <2>2. /\ t.chunks = job[p].chunks /\ t.next = job[p].next /\ t.pending = job[p].pending
        /\ t.inFlight = job[p].inFlight /\ t.done = job[p].done /\ t.activated
        /\ t.cancelled = job[p].cancelled /\ t.failed = job[p].failed
    BY <1>0, <1>1 DEF JobState
  <2> HIDE DEF t, p, n
  <2>3. Held(p)
    BY <1>3, <1>9 DEF Entered
  <2>4. LedgerOk(t, pc[p]) /\ PhaseOk(t, pc[p])
    <3>1. LedgerOk(job[p], pc[p]) /\ pc[p] \in {"announcing", "waiting"}
      BY <1>1, <2>3 DEF JobInv, Held
    <3>2. Stopped(t) <=> Stopped(job[p])
      BY <2>2 DEF Stopped
    <3>3. QED BY <2>2, <3>1, <3>2 DEF LedgerOk, PhaseOk, HeldAt
  <2>5. JobInv'
    BY <1>0, <2>1, <2>4 DEF JobInv
  <2>6. HoldInv'
    <3>1. \A w \in Workers : Busy(w) => Held(worker[w].job)'
      BY <1>0 DEF HoldInv, Held
    <3>2. \A i \in Jobs : job'[i].inFlight = job[i].inFlight
      BY <2>1, <2>2
    <3>3. QED BY <1>2, <3>1, <3>2, HoldFrame DEF SameChunks
  <2>7. \A i \in Jobs : Entered(i) => Entered(i)'
    BY <1>2, <2>1, <2>2 DEF Entered
  <2>8. \A i \in DOMAIN pendingJobs' :
          ~job'[pendingJobs'[i]].activated /\ Entered(pendingJobs[i])'
    <3>1. ASSUME NEW i \in DOMAIN pendingJobs'
          PROVE  ~job[pendingJobs'[i]].activated
                 /\ (Held(pendingJobs[i])' \/ job[pendingJobs'[i]].done)
      BY <1>0, <1>1, <3>1 DEF QueueInv, Entered, Held
    <3>2. QED BY <1>4, <2>1, <3>1 DEF Entered
  <2>9. ASSUME NEW i \in DOMAIN activeRoundRobin'
        PROVE  job'[activeRoundRobin'[i]].activated /\ Entered(activeRoundRobin[i])'
    <3>1. /\ n \in Nat /\ DOMAIN activeRoundRobin = 1..n
          /\ DOMAIN activeRoundRobin' = 1..(n + 1)
          /\ \A k \in 1..n : activeRoundRobin'[k] = activeRoundRobin[k]
          /\ activeRoundRobin'[n + 1] = p
      BY <1>0, <1>1, <1>9 DEF n
    <3>2. CASE i = n + 1
      BY <1>1, <1>2, <2>1, <2>2, <2>3, <3>1, <3>2 DEF Entered, Held
    <3>3. CASE i \in 1..n
      <4>1. activeRoundRobin'[i] \in Jobs /\ activeRoundRobin'[i] = activeRoundRobin[i]
            /\ job[activeRoundRobin[i]].activated /\ Entered(activeRoundRobin[i])
        BY <1>7, <3>1, <3>3 DEF QueueInv
      <4>2. QED BY <1>0, <2>1, <2>2, <4>1 DEF Entered, Held
    <3>4. QED BY <3>1, <3>2, <3>3
  <2>10. ASSUME NEW i \in Jobs, (Held(i) /\ Dispatchable(job[i]))'
         PROVE  InQueue(activeRoundRobin', i) \/ InQueue(pendingJobs', i)
    <3>1. /\ n \in Nat /\ DOMAIN activeRoundRobin = 1..n
          /\ DOMAIN activeRoundRobin' = 1..(n + 1)
          /\ \A k \in 1..n : activeRoundRobin'[k] = activeRoundRobin[k]
          /\ activeRoundRobin'[n + 1] = p
      BY <1>0, <1>1, <1>9 DEF n
    <3>2. CASE i = p
      BY <3>1, <3>2 DEF InQueue
    <3>3. CASE i # p
      <4>1. Held(i) /\ Dispatchable(job[i])
        BY <1>2, <2>1, <2>10, <3>3
      <4>2. CASE InQueue(activeRoundRobin, i)
        BY <3>1, <4>2 DEF InQueue
      <4>3. CASE InQueue(pendingJobs, i)
        BY <1>5, <3>3, <4>3
      <4>4. QED BY <4>1, <4>2, <4>3 DEF QueueInv
    <3>4. QED BY <3>2, <3>3
  <2>11. QueueInv'
    BY <1>6, <2>8, <2>9, <2>10 DEF QueueInv
  <2>12. QED BY <2>5, <2>6, <2>11
<1>10. QED BY <1>8, <1>9 DEF ActivateNext

LEMMA TakeChunkStep ==
  ASSUME IInv, NEW w \in Workers, TakeChunk(w)
  PROVE  Accounts'
<1> USE DEF IInv, Accounts
<1> DEFINE n == Len(activeRoundRobin)
<1>0. /\ job \in [Jobs -> JobState] /\ worker \in [Workers -> WorkerState]
      /\ activeRoundRobin \in Seq(Jobs) /\ n \in Nat
      /\ DOMAIN activeRoundRobin = 1..n
      /\ \A i \in 1..n : activeRoundRobin[i] \in Jobs
      /\ UNCHANGED <<pc, pendingJobs>>
      /\ ~Busy(w)
  BY DEF TakeChunk, TypeInv, TypeOK, callVars, Busy
<1>1. PICK k \in 1..n :
        LET j    == activeRoundRobin[k]
            rest == SubSeq(activeRoundRobin, k + 1, Len(activeRoundRobin))
        IN  /\ Dispatchable(job[j])
            /\ \A i \in 1..(k - 1) : ~Dispatchable(job[activeRoundRobin[i]])
            /\ job' = [job EXCEPT ![j] = Dispatched(job[j])]
            /\ activeRoundRobin' = Requeued(rest, j)
            /\ worker' = [worker EXCEPT ![w] =
                            [Ready EXCEPT !.stage = "begin", !.job = j,
                                          !.chunk = job[j].next + 1]]
  BY DEF TakeChunk
<1> DEFINE j == activeRoundRobin[k]
           rest == SubSeq(activeRoundRobin, k + 1, Len(activeRoundRobin))
           s == Dispatched(job[j])
           t == [Ready EXCEPT !.stage = "begin", !.job = j, !.chunk = job[j].next + 1]
<1>2. /\ j \in Jobs /\ Dispatchable(job[j]) /\ job[j].activated /\ Entered(j)
      /\ job[j] \in JobState /\ LedgerOk(job[j], pc[j]) /\ pc[j] \in CallStates
  BY <1>0, <1>1 DEF QueueInv, JobInv, TypeInv, TypeOK
<1>3. /\ LedgerOk(s, pc[j]) /\ ~job[j].done /\ ~s.done /\ ~Stopped(s)
      /\ s.inFlight = job[j].inFlight + 1 /\ s.next = job[j].next + 1
      /\ s.chunks = job[j].chunks /\ s.activated = job[j].activated
  BY <1>2, DispatchState
<1>4. Held(j) /\ \A i \in Jobs : (Held(i)' <=> Held(i))
  BY <1>0, <1>2, <1>3 DEF Entered, Held
<1>5. job'[j] = s /\ \A i \in Jobs : i # j => job'[i] = job[i]
  BY <1>0, <1>1, <1>2
<1>6. t.stage = "begin" /\ t.job = j
  BY DEF Ready
<1>7. worker' = [worker EXCEPT ![w] = t]
  BY <1>1
<1>8. /\ rest \in Seq(Jobs) /\ Len(rest) = n - k /\ Len(rest) \in Nat
      /\ \A i \in 1..(n - k) : rest[i] = activeRoundRobin[k + i]
  <2>1. /\ k + 1 \in Int /\ n \in Int
        /\ \A i \in (k + 1)..n : activeRoundRobin[i] \in Jobs
    BY <1>0
  <2>2. /\ rest \in Seq(Jobs)
        /\ Len(rest) = IF k + 1 <= n THEN n - (k + 1) + 1 ELSE 0
        /\ \A i \in 1..(n - (k + 1) + 1) : rest[i] = activeRoundRobin[(k + 1) + i - 1]
    BY <2>1, SubSeqProperties
  <2>3. QED BY <1>0, <2>2
<1>9. /\ activeRoundRobin' = IF job[j].next + 1 < job[j].chunks THEN Append(rest, j) ELSE rest
      /\ \A i \in 1..(k - 1) : ~Dispatchable(job[activeRoundRobin[i]])
  BY <1>1 DEF Requeued
<1> HIDE DEF j, rest, s, t, n
<1>10. JobInv'
  <2>1. PhaseOk(s, pc[j])
    BY <1>4 DEF PhaseOk, Held, HeldAt
  <2>2. QED BY <1>0, <1>3, <1>5, <2>1 DEF JobInv
<1>11. HoldInv'
  <2>1. \A i \in Jobs : i # j => job'[i].inFlight = job[i].inFlight
    BY <1>5
  <2>2. job'[j].inFlight = job[j].inFlight + 1
    BY <1>3, <1>5
  <2>3. QED BY <1>0, <1>2, <1>4, <1>6, <1>7, <2>1, <2>2, HoldTake
<1>12. \A i \in Jobs : Entered(i) => Entered(i)' /\ job'[i].activated = job[i].activated
  BY <1>3, <1>4, <1>5 DEF Entered
<1>13. /\ Len(activeRoundRobin') \in Nat
       /\ DOMAIN activeRoundRobin' = 1..Len(activeRoundRobin')
       /\ \A i \in 1..(n - k) : i \in DOMAIN activeRoundRobin'
                                /\ activeRoundRobin'[i] = activeRoundRobin[k + i]
       /\ \A i \in DOMAIN activeRoundRobin' : i \in 1..(n - k) \/ activeRoundRobin'[i] = j
       /\ job[j].next + 1 < job[j].chunks => InQueue(activeRoundRobin', j)
  <2>1. CASE job[j].next + 1 < job[j].chunks
    <3>1. activeRoundRobin' = Append(rest, j)
      BY <1>9, <2>1
    <3>2. /\ Len(activeRoundRobin') = n - k + 1
          /\ DOMAIN activeRoundRobin' = 1..(n - k + 1)
          /\ \A i \in 1..(n - k) : activeRoundRobin'[i] = rest[i]
          /\ activeRoundRobin'[n - k + 1] = j
      BY <1>8, <1>2, <3>1
    <3>3. n - k + 1 \in DOMAIN activeRoundRobin' /\ n - k + 1 \in Nat
      BY <1>0, <1>8, <3>2
    <3>4. InQueue(activeRoundRobin', j)
      BY <3>2, <3>3 DEF InQueue
    <3>5. \A i \in 1..(n - k) : i \in DOMAIN activeRoundRobin'
                               /\ activeRoundRobin'[i] = activeRoundRobin[k + i]
      BY <1>0, <1>8, <3>2
    <3>6. \A i \in DOMAIN activeRoundRobin' : i \in 1..(n - k) \/ i = n - k + 1
      BY <1>0, <1>8, <3>2
    <3>7. QED BY <3>2, <3>3, <3>4, <3>5, <3>6
  <2>2. CASE ~(job[j].next + 1 < job[j].chunks)
    BY <1>0, <1>8, <1>9, <2>2
  <2>3. QED BY <2>1, <2>2
<1>14. ASSUME NEW i \in DOMAIN activeRoundRobin'
       PROVE  job'[activeRoundRobin'[i]].activated /\ Entered(activeRoundRobin[i])'
  <2>1. activeRoundRobin'[i] \in Jobs /\ job[activeRoundRobin'[i]].activated
        /\ (Held(activeRoundRobin[i])' \/ job'[activeRoundRobin'[i]].done)
    <3>1. CASE activeRoundRobin'[i] = j
      BY <1>0, <1>2, <1>4, <3>1 DEF Held
    <3>2. CASE i \in 1..(n - k)
      <4>1. k + i \in 1..n /\ activeRoundRobin'[i] = activeRoundRobin[k + i]
        BY <1>0, <1>13, <3>2
      <4>2. activeRoundRobin[k + i] \in Jobs /\ job[activeRoundRobin[k + i]].activated
            /\ Entered(activeRoundRobin[k + i])
        BY <1>0, <4>1 DEF QueueInv
      <4>3. Held(activeRoundRobin[k + i]) => Held(activeRoundRobin[i])'
        BY <1>0, <4>1 DEF Held
      <4>4. job[activeRoundRobin[k + i]].done => job'[activeRoundRobin'[i]].done
        BY <1>3, <1>5, <4>1, <4>2
      <4>5. activeRoundRobin'[i] \in Jobs /\ job[activeRoundRobin'[i]].activated
        BY <4>1, <4>2
      <4>6. Held(activeRoundRobin[i])' \/ job'[activeRoundRobin'[i]].done
        BY <4>2, <4>3, <4>4 DEF Entered
      <4>7. QED BY <4>5, <4>6
    <3>3. QED BY <1>13, <3>1, <3>2
  <2>2. job'[activeRoundRobin'[i]].activated
    BY <1>3, <1>5, <2>1
  <2>3. Entered(activeRoundRobin[i])'
    BY <2>1 DEF Entered, Held
  <2>4. QED BY <2>2, <2>3
<1>15. ASSUME NEW i \in DOMAIN pendingJobs'
       PROVE  ~job'[pendingJobs'[i]].activated /\ Entered(pendingJobs[i])'
  <2>1. pendingJobs'[i] \in Jobs /\ pendingJobs'[i] = pendingJobs[i]
        /\ ~job[pendingJobs[i]].activated /\ Entered(pendingJobs[i])
    BY <1>0, <1>15 DEF QueueInv, TypeInv, TypeOK
  <2>2. QED BY <1>0, <1>3, <1>5, <1>12, <2>1 DEF Entered, Held
<1>16. ASSUME NEW i \in Jobs, (Held(i) /\ Dispatchable(job[i]))'
       PROVE  InQueue(activeRoundRobin', i) \/ InQueue(pendingJobs', i)
  <2>1. CASE i = j
    <3>1. job[j].next + 1 < job[j].chunks
      BY <1>3, <1>5, <1>16, <1>2, <2>1 DEF Dispatchable
    <3>2. QED BY <1>13, <2>1, <3>1
  <2>2. CASE i # j
    <3>1. Held(i) /\ Dispatchable(job[i])
      BY <1>4, <1>5, <1>16, <2>2
    <3>2. CASE InQueue(pendingJobs, i)
      BY <1>0, <3>2
    <3>3. CASE InQueue(activeRoundRobin, i)
      <4>1. PICK m \in 1..n : activeRoundRobin[m] = i
        BY <1>0, <3>3 DEF InQueue
      <4>2. m # k
        BY <2>2, <4>1 DEF j
      <4>3. ~(m \in 1..(k - 1))
        BY <1>9, <3>1, <4>1
      <4>4. m - k \in 1..(n - k) /\ k + (m - k) = m
        BY <1>0, <4>2, <4>3
      <4>5. m - k \in DOMAIN activeRoundRobin' /\ activeRoundRobin'[m - k] = i
        BY <1>13, <4>1, <4>4
      <4>6. QED BY <4>5 DEF InQueue
    <3>4. QED BY <3>1, <3>2, <3>3 DEF QueueInv
  <2>3. QED BY <2>1, <2>2
<1>17. QueueInv'
  BY <1>0, <1>14, <1>15, <1>16 DEF QueueInv
<1>18. QED BY <1>10, <1>11, <1>17

LEMMA DropAllStep ==
  ASSUME IInv, NEW w \in Workers, DropAll(w)
  PROVE  Accounts'
<1> USE DEF IInv, Accounts
<1>1. /\ SameChunks /\ UNCHANGED <<job, pc, pendingJobs, worker>>
      /\ activeRoundRobin' = <<>>
  BY DEF DropAll, SameChunks, Busy, callVars
<1>2. JobInv'
  BY <1>1 DEF JobInv
<1>3. \A i \in Jobs : Held(i)' <=> Held(i)
  BY <1>1 DEF Held
<1>4. HoldInv'
  <2>1. \A v \in Workers : Busy(v) => Held(worker[v].job)'
    BY <1>1 DEF HoldInv, Held
  <2>2. QED BY <1>1, <2>1, HoldFrame DEF SameChunks
<1>5. DOMAIN activeRoundRobin' = {}
  BY <1>1
<1>6. ASSUME NEW i \in DOMAIN pendingJobs'
      PROVE  ~job'[pendingJobs'[i]].activated /\ Entered(pendingJobs[i])'
  BY <1>1, <1>6 DEF QueueInv, Entered, Held
<1>7. ASSUME NEW i \in Jobs, (Held(i) /\ Dispatchable(job[i]))'
      PROVE  InQueue(pendingJobs', i)
  <2>1. Held(i) /\ Dispatchable(job[i])
    BY <1>1, <1>3, <1>7
  <2>2. ~InQueue(activeRoundRobin, i)
    <3>1. DOMAIN activeRoundRobin = 1..Len(activeRoundRobin)
      BY DEF TypeInv, TypeOK
    <3>2. \A k \in DOMAIN activeRoundRobin : ~Dispatchable(job[activeRoundRobin[k]])
      BY <3>1 DEF DropAll
    <3>3. QED BY <2>1, <3>2 DEF InQueue
  <2>3. QED BY <1>1, <2>1, <2>2 DEF QueueInv
<1>8. QueueInv'
  BY <1>1, <1>5, <1>6, <1>7 DEF QueueInv
<1>9. QED BY <1>2, <1>4, <1>8

\* The steps in which a worker puts its chunk down.
LEMMA EndChunkStep ==
  ASSUME IInv, NEW w \in Workers,
         \/ Begin(w) /\ Stopped(job[worker[w].job])
         \/ FinishChunk(w)
         \/ CatchChunk(w)
  PROVE  Accounts'
<1> DEFINE j == worker[w].job
           s == job[j]
<1>1. Busy(w)
  BY DEF Begin, FinishChunk, CatchChunk, Busy
<1>2. /\ j \in Jobs /\ s.inFlight > 0 /\ s \in JobState
      /\ LedgerOk(s, pc[j]) /\ pc[j] \in CallStates
  BY <1>1, HeldByWorker DEF IInv, Accounts, JobInv, TypeInv, TypeOK
<1>3. /\ worker[w].chunk \in Nat /\ worker[w].thrown \in Exceptions
  BY DEF IInv, TypeInv, TypeOK, WorkerState
<1>4. /\ UNCHANGED <<pc, activeRoundRobin, pendingJobs>>
      /\ worker' = [worker EXCEPT ![w] = Ready]
  BY DEF Begin, FinishChunk, CatchChunk, queueVars, callVars, Throw, Advance, ShouldCancel
<1>5. ASSUME NEW t, job' = [job EXCEPT ![j] = t],
             LedgerOk(t, pc[j]), Kept(s, t), t.inFlight = s.inFlight - 1
      PROVE  Accounts'
  BY <1>1, <1>4, <1>5, PutDownStep
<1>6. CASE Begin(w) /\ Stopped(s)
  <2> DEFINE t == MarkChunkFinished(DropUndispatched(s))
  <2>1. job' = [job EXCEPT ![j] = t]
    BY <1>6 DEF Begin, ShouldCancel
  <2>2. LedgerOk(t, pc[j]) /\ Kept(s, t) /\ t.inFlight = s.inFlight - 1
    BY <1>2, <1>6, SkipState
  <2>3. QED BY <1>5, <2>1, <2>2
<1>7. CASE FinishChunk(w)
  <2> DEFINE t == MarkChunkFinished(Stored(s, worker[w].chunk))
  <2>1. job' = [job EXCEPT ![j] = t]
    BY <1>7 DEF FinishChunk
  <2>2. LedgerOk(t, pc[j]) /\ Kept(s, t) /\ t.inFlight = s.inFlight - 1
    BY <1>2, <1>3, StoreState
  <2>3. QED BY <1>5, <2>1, <2>2
<1>8. CASE CatchChunk(w)
  <2> DEFINE t == MarkChunkFinished(DropUndispatched(MarkedByException(s, worker[w].thrown)))
  <2>1. job' = [job EXCEPT ![j] = t]
    BY <1>8 DEF CatchChunk
  <2>2. LedgerOk(t, pc[j]) /\ Kept(s, t) /\ t.inFlight = s.inFlight - 1
    BY <1>2, <1>3, CatchState
  <2>3. QED BY <1>5, <2>1, <2>2
<1>9. QED BY <1>6, <1>7, <1>8

\* The steps between taking a chunk and putting it down, and falling asleep.
QuietWorker(w) ==
  \/ Sleep(w) \/ Checkout(w) \/ OpenChunkFile(w) \/ Infer(w)
  \/ AudioCallback(w) \/ CountJobBytes(w)
  \/ Begin(w) /\ ~Stopped(job[worker[w].job])

LEMMA QuietWorkerSame ==
  ASSUME TypeInv, NEW w \in Workers, QuietWorker(w)
  PROVE  SameChunks /\ UNCHANGED <<job, pc, activeRoundRobin, pendingJobs>>
<1> USE DEF QuietWorker
<1>0. worker \in [Workers -> WorkerState]
  BY DEF TypeInv, TypeOK
<1>1. UNCHANGED <<job, pc, activeRoundRobin, pendingJobs>>
  BY DEF Sleep, Checkout, OpenChunkFile, Infer, AudioCallback, CountJobBytes, Begin,
     queueVars, callVars
<1>2. \A v \in Workers : v # w => worker'[v] = worker[v]
  BY <1>0 DEF Sleep, Checkout, OpenChunkFile, Infer, AudioCallback, CountJobBytes, Begin,
     Throw, Advance
<1>3. worker'[w].job = worker[w].job /\ worker'[w].chunk = worker[w].chunk
  BY <1>0 DEF Sleep, Checkout, OpenChunkFile, Infer, AudioCallback, CountJobBytes, Begin,
     Throw, Advance, WorkerState, ShouldCancel
<1>4. Busy(w)' <=> Busy(w)
  <2>1. CASE Sleep(w)
    BY <1>0, <2>1 DEF Sleep, Busy, WorkerState
  <2>2. CASE ~Sleep(w)
    <3>1. Busy(w)
      BY <2>2 DEF Checkout, OpenChunkFile, Infer, AudioCallback, CountJobBytes, Begin, Busy
    <3>2. worker'[w].stage \in Stages \ {"ready", "asleep"}
      BY <1>0, <2>2 DEF Checkout, OpenChunkFile, Infer, AudioCallback, CountJobBytes,
         Begin, Throw, Advance, WorkerState, Stages, ShouldCancel
    <3>3. QED BY <3>1, <3>2 DEF Busy
  <2>3. QED BY <2>1, <2>2
<1>5. SameChunks
  BY <1>2, <1>3, <1>4 DEF SameChunks, Busy
<1>6. QED BY <1>1, <1>5

LEMMA CleanupTakeStep ==
  ASSUME IInv, NEW j \in Jobs, CleanupTake(j)
  PROVE  Accounts'
<1>1. SameChunks /\ UNCHANGED <<job, pc, activeRoundRobin, pendingJobs>>
  BY DEF CleanupTake, SameChunks, Busy, queueVars, callVars
<1>2. QED BY <1>1, SilentStep

-----------------------------------------------------------------------------
(* The invariant                                                           *)

LEMMA IInvInit == Init => IInv
<1> SUFFICES ASSUME Init PROVE IInv
  OBVIOUS
<1>1. TypeInv
  BY TypeInit
<1>2. JobInv
  BY DEF Init, JobInv, PhaseOk, LedgerOk, HeldAt, Stopped, NewJob
<1>3. \A w \in Workers : ~Busy(w)
  BY DEF Init, Busy, Ready
<1>4. HoldInv
  <2>1. ASSUME NEW j \in Jobs PROVE job[j].inFlight = Cardinality(Holders(j))
    <3>1. Holders(j) = {}
      BY <1>3 DEF Holders
    <3>2. QED BY <3>1, FS_EmptySet DEF Init, NewJob
  <2>2. QED BY <1>3, <2>1 DEF HoldInv
<1>5. QueueInv
  BY DEF Init, QueueInv, Held
<1>6. QED BY <1>1, <1>2, <1>4, <1>5 DEF IInv, Accounts

LEMMA IInvStep == IInv /\ [Next]_vars => IInv'
<1> SUFFICES ASSUME IInv, [Next]_vars PROVE IInv'
  OBVIOUS
<1>1. TypeInv'
  BY TypeStep DEF IInv
<1>2. ASSUME NEW j \in Jobs, Requester(j) PROVE Accounts'
  BY <1>2, SubmitStep, AdmitStep, MoveSteps, WaitTurnStep, ActivateNextStep,
     CleanupTakeStep DEF Requester
<1>3. ASSUME NEW w \in Workers, Worker(w) PROVE Accounts'
  <2>1. CASE QuietWorker(w)
    BY <2>1, QuietWorkerSame, SilentStep DEF IInv
  <2>2. CASE ~QuietWorker(w)
    BY <1>3, <2>2, TakeChunkStep, DropAllStep, EndChunkStep DEF Worker, QuietWorker
  <2>3. QED BY <2>1, <2>2
<1>4. ASSUME UNCHANGED vars PROVE Accounts'
  <2>1. SameChunks /\ UNCHANGED <<job, pc, activeRoundRobin, pendingJobs>>
    BY <1>4 DEF vars, queueVars, callVars, SameChunks, Busy
  <2>2. QED BY <2>1, SilentStep
<1>5. Accounts'
  BY <1>2, <1>3, <1>4, EnvironmentStep DEF Next, Quiescent
<1>6. QED BY <1>1, <1>5 DEF IInv

THEOREM Inductive == Spec => []IInv
BY IInvInit, IInvStep, PTL DEF Spec

-----------------------------------------------------------------------------
(* What follows from it                                                    *)

\* As long as a worker holds a chunk, the chunk's request is in the wait loop
\* and its job is not done: the socket that shouldCancel polls and the chunk's
\* directory exist.
THEOREM RequestOutlivesChunksHolds == Spec => []RequestOutlivesChunks
<1>1. IInv => RequestOutlivesChunks
  BY HeldByWorker DEF RequestOutlivesChunks
<1>2. QED BY <1>1, Inductive, PTL

\* A job that is waited for and not done is in a queue or with a worker.
THEOREM NoJobStrandedHolds == Spec => []NoJobStranded
<1>1. ASSUME IInv PROVE NoJobStranded
  <2> SUFFICES ASSUME NEW j \in Jobs, Held(j), ~job[j].done,
                      ~InQueue(activeRoundRobin, j), ~InQueue(pendingJobs, j)
               PROVE  \E w \in Workers : Busy(w) /\ worker[w].job = j
    BY DEF NoJobStranded, InQueue
  <2>1. /\ LedgerOk(job[j], pc[j]) /\ job[j] \in JobState
        /\ job[j].inFlight = Cardinality(Holders(j)) /\ HeldAt(pc[j])
    BY <1>1 DEF IInv, Accounts, JobInv, HoldInv, TypeInv, TypeOK, Held, HeldAt
  <2>2. ~Dispatchable(job[j])
    BY <1>1 DEF IInv, Accounts, QueueInv
  <2>3. job[j].inFlight # 0
    BY <2>1, <2>2 DEF LedgerOk, Dispatchable, JobState
  <2>4. Holders(j) # {}
    BY <2>1, <2>3, FS_EmptySet
  <2>5. QED BY <2>4 DEF Holders
<1>2. QED BY <1>1, Inductive, PTL

\* No step changes the state of a job that is done.
THEOREM DoneIsFinalHolds == Spec => DoneIsFinal
<1>1. ASSUME IInv, [Next]_vars, NEW j \in Jobs, job[j].done
      PROVE  job'[j] = job[j]
  <2>0. /\ job \in [Jobs -> JobState]
        /\ PhaseOk(job[j], pc[j]) /\ LedgerOk(job[j], pc[j]) /\ job[j] \in JobState
    BY <1>1 DEF IInv, Accounts, JobInv, TypeInv, TypeOK
  <2>1. pc[j] \notin {"idle", "admitting"} /\ ~Dispatchable(job[j])
    BY <1>1, <2>0 DEF PhaseOk, LedgerOk, Dispatchable, JobState
  <2>2. \A w \in Workers : Busy(w) => worker[w].job # j
    BY <1>1, HeldByWorker
  <2>3. ASSUME NEW i \in Jobs, Environment(i) \/ Requester(i) PROVE job'[j] = job[j]
    <3>1. CASE i = j /\ (Submit(i) \/ Admit(i) \/ WaitTurn(i))
      BY <1>1, <2>1, <3>1 DEF Submit, Admit, WaitTurn
    <3>2. CASE i # j /\ (Submit(i) \/ Admit(i) \/ WaitTurn(i))
      BY <2>0, <3>2 DEF Submit, Admit, WaitTurn
    <3>3. CASE ActivateNext(i)
      <4>1. job' = job \/ (Head(pendingJobs) # j
                           /\ job' = [job EXCEPT ![Head(pendingJobs)].activated = TRUE])
        BY <1>1, <3>3 DEF ActivateNext
      <4>2. QED BY <2>0, <4>1
    <3>4. CASE ~(Submit(i) \/ Admit(i) \/ WaitTurn(i) \/ ActivateNext(i))
      BY <2>3, <3>4 DEF Environment, Requester, Disconnect, Expire, AnnounceAdmission,
         Release, EndRelease, Settle, AssembleWav, CleanupTake, CleanupFinish
    <3>5. QED BY <3>1, <3>2, <3>3, <3>4
  <2>4. ASSUME NEW w \in Workers, Worker(w) PROVE job'[j] = job[j]
    <3>1. CASE TakeChunk(w)
      <4>1. PICK k \in 1..Len(activeRoundRobin) :
              /\ Dispatchable(job[activeRoundRobin[k]])
              /\ job' = [job EXCEPT ![activeRoundRobin[k]] =
                           Dispatched(job[activeRoundRobin[k]])]
        BY <3>1 DEF TakeChunk
      <4>2. activeRoundRobin[k] # j
        BY <2>1, <4>1
      <4>3. QED BY <2>0, <4>1, <4>2
    <3>2. CASE Begin(w) \/ FinishChunk(w) \/ CatchChunk(w)
      <4>1. worker[w].job # j
        BY <2>2, <3>2 DEF Begin, FinishChunk, CatchChunk, Busy
      <4>2. QED BY <2>0, <3>2, <4>1 DEF Begin, FinishChunk, CatchChunk
    <3>3. CASE ~(TakeChunk(w) \/ Begin(w) \/ FinishChunk(w) \/ CatchChunk(w))
      BY <2>4, <3>3 DEF Worker, Sleep, DropAll, Checkout, OpenChunkFile, Infer,
         AudioCallback, CountJobBytes
    <3>4. QED BY <3>1, <3>2, <3>3
  <2>5. QED BY <1>1, <2>3, <2>4 DEF Next, Quiescent, vars
<1>2. IInv /\ [Next]_vars => [\A j \in Jobs : job[j].done => job'[j] = job[j]]_vars
  BY <1>1
<1>3. QED BY <1>2, Inductive, PTL DEF Spec, DoneIsFinal

-----------------------------------------------------------------------------
(* The limit on active jobs                                                *)

LEMMA ActivatedKept ==
  ASSUME NEW s \in JobState
  PROVE  /\ MarkChunkFinished(s).activated = s.activated
         /\ DropUndispatched(s).activated = s.activated
         /\ Dispatched(s).activated = s.activated
         /\ CancelledByClient(s).activated = s.activated
         /\ TimedOut(s).activated = s.activated
         /\ \A t : MarkedByException(s, t).activated = s.activated
         /\ \A n : Stored(s, n).activated = s.activated
BY DEF MarkChunkFinished, DropUndispatched, Dispatched, CancelledByClient, TimedOut,
       MarkedByException, Stored, JobState

LEMMA ActiveFinite ==
  IsFiniteSet(ActiveJobs) /\ Cardinality(ActiveJobs) \in Nat
<1>1. IsFiniteSet(Jobs) /\ ActiveJobs \in SUBSET Jobs
  BY SchedulerAssumption DEF SchedulerAssumption, ActiveJobs
<1>2. QED BY <1>1, FS_Subset, FS_CardinalityType

\* Steps that neither activate nor release a job.
LEMMA ActiveFrame ==
  ASSUME ActiveJobsExact, UNCHANGED activeJobs,
         \A i \in Jobs : (Held(i) /\ job[i].activated)' <=> (Held(i) /\ job[i].activated)
  PROVE  ActiveJobsExact'
<1>1. ActiveJobs' = ActiveJobs
  BY DEF ActiveJobs
<1>2. QED BY <1>1 DEF ActiveJobsExact

\* No step of a worker changes who is activated.
LEMMA WorkerKeepsActive ==
  ASSUME IInv, NEW w \in Workers, Worker(w), NEW i \in Jobs
  PROVE  job'[i].activated = job[i].activated
<1>0. job \in [Jobs -> JobState]
  BY DEF IInv, TypeInv, TypeOK
<1>1. CASE TakeChunk(w)
  <2>1. PICK k \in 1..Len(activeRoundRobin) :
          job' = [job EXCEPT ![activeRoundRobin[k]] = Dispatched(job[activeRoundRobin[k]])]
    BY <1>1 DEF TakeChunk
  <2>2. QED BY <1>0, <2>1, ActivatedKept
<1>2. CASE Begin(w) \/ FinishChunk(w) \/ CatchChunk(w)
  <2> DEFINE j == worker[w].job
  <2>1. j \in Jobs
    BY <1>2, HeldByWorker DEF Begin, FinishChunk, CatchChunk, Busy
  <2>2. worker[w].chunk \in Nat
    BY DEF IInv, TypeInv, TypeOK, WorkerState
  <2>3. ASSUME NEW t \in JobState PROVE MarkChunkFinished(t).activated = t.activated
    BY ActivatedKept
  <2> DEFINE skipped == DropUndispatched(job[j])
             stored == Stored(job[j], worker[w].chunk)
             marked == MarkedByException(job[j], worker[w].thrown)
             caught == DropUndispatched(marked)
  <2>4. /\ skipped \in JobState /\ stored \in JobState /\ marked \in JobState
        /\ caught \in JobState
    BY <1>0, <2>1, <2>2, StateTypes, StoredTypes
  <2>5. /\ skipped.activated = job[j].activated /\ stored.activated = job[j].activated
        /\ marked.activated = job[j].activated
    BY <1>0, <2>1, ActivatedKept
  <2>6. caught.activated = marked.activated
    BY <2>4, ActivatedKept
  <2>7. \/ job' = job
        \/ job' = [job EXCEPT ![j] = MarkChunkFinished(skipped)]
        \/ job' = [job EXCEPT ![j] = MarkChunkFinished(stored)]
        \/ job' = [job EXCEPT ![j] = MarkChunkFinished(caught)]
    BY <1>2 DEF Begin, FinishChunk, CatchChunk
  <2> HIDE DEF skipped, stored, marked, caught
  <2>8. QED BY <1>0, <2>1, <2>3, <2>4, <2>5, <2>6, <2>7
<1>3. CASE ~(TakeChunk(w) \/ Begin(w) \/ FinishChunk(w) \/ CatchChunk(w))
  BY <1>3 DEF Worker, Sleep, DropAll, Checkout, OpenChunkFile, Infer, AudioCallback,
     CountJobBytes
<1>4. QED BY <1>1, <1>2, <1>3

LEMMA ActiveStep == IInv /\ ActiveJobsExact /\ [Next]_vars => ActiveJobsExact'
<1> SUFFICES ASSUME IInv, ActiveJobsExact, [Next]_vars PROVE ActiveJobsExact'
  OBVIOUS
<1>0. /\ job \in [Jobs -> JobState] /\ pc \in [Jobs -> CallStates]
      /\ activeJobs \in Nat /\ maxJobs \in Nat
  BY LimitsType DEF IInv, TypeInv, TypeOK
<1>1. ASSUME NEW w \in Workers, Worker(w) PROVE ActiveJobsExact'
  <2>1. UNCHANGED <<activeJobs, pc>>
    BY <1>1 DEF Worker, Sleep, TakeChunk, DropAll, Begin, Checkout, OpenChunkFile, Infer,
       AudioCallback, CountJobBytes, FinishChunk, CatchChunk, queueVars, callVars
  <2>2. \A i \in Jobs : (Held(i) /\ job[i].activated)' <=> (Held(i) /\ job[i].activated)
    BY <1>1, <2>1, WorkerKeepsActive DEF Held
  <2>3. QED BY <2>1, <2>2, ActiveFrame
<1>2. ASSUME NEW j \in Jobs,
             Environment(j) \/ AnnounceAdmission(j) \/ EndRelease(j) \/ Settle(j)
             \/ AssembleWav(j) \/ CleanupTake(j) \/ CleanupFinish(j)
      PROVE  ActiveJobsExact'
  <2>1. UNCHANGED <<activeJobs, job>>
    BY <1>2 DEF Environment, Disconnect, Expire, AnnounceAdmission, EndRelease, Settle,
       AssembleWav, CleanupTake, CleanupFinish, queueVars
  <2>2. \A i \in Jobs : Held(i)' <=> Held(i)
    BY <1>0, <1>2 DEF Environment, Disconnect, Expire, AnnounceAdmission, EndRelease,
       Settle, AssembleWav, CleanupTake, CleanupFinish, Return, callVars, Held
  <2>3. QED BY <2>1, <2>2, ActiveFrame
<1>3. ASSUME NEW j \in Jobs, Submit(j) PROVE ActiveJobsExact'
  <2>1. UNCHANGED activeJobs /\ \A i \in Jobs : i # j => job'[i] = job[i]
    BY <1>0, <1>3 DEF Submit, queueVars
  <2>2. ~Held(j) /\ ~Held(j)' /\ \A i \in Jobs : i # j => (Held(i)' <=> Held(i))
    BY <1>0, <1>3 DEF Submit, Return, Held
  <2>3. QED BY <2>1, <2>2, ActiveFrame
<1>4. ASSUME NEW j \in Jobs, WaitTurn(j) PROVE ActiveJobsExact'
  <2> DEFINE polled == IF clientGone[j] THEN CancelledByClient(job[j]) ELSE job[j]
             t == IF TimeoutDue(j, polled) THEN TimedOut(polled) ELSE polled
  <2>1. job' = [job EXCEPT ![j] = t] /\ UNCHANGED <<activeJobs, pc>>
    BY <1>4 DEF WaitTurn, queueVars, callVars
  <2>2. t.activated = job[j].activated
    BY <1>0, ActivatedKept, StateTypes
  <2> HIDE DEF t
  <2>3. \A i \in Jobs : job'[i].activated = job[i].activated
    BY <1>0, <2>1, <2>2
  <2>4. QED BY <2>1, <2>3, ActiveFrame DEF Held
<1>5. ASSUME NEW j \in Jobs, j \notin ActiveJobs, activeJobs < maxJobs,
             activeJobs' = activeJobs + 1, Held(j)',
             job' = [job EXCEPT ![j].activated = TRUE],
             \A i \in Jobs : i # j => (Held(i)' <=> Held(i))
      PROVE  ActiveJobsExact'
  <2>1. job'[j].activated /\ \A i \in Jobs : i # j => job'[i] = job[i]
    BY <1>0, <1>5 DEF JobState
  <2>2. ActiveJobs' = ActiveJobs \cup {j}
    BY <1>5, <2>1 DEF ActiveJobs
  <2>3. Cardinality(ActiveJobs \cup {j}) = Cardinality(ActiveJobs) + 1
    BY <1>5, ActiveFinite, FS_AddElement
  <2>4. QED BY <1>0, <1>5, <2>2, <2>3 DEF ActiveJobsExact, maxJobs
<1>6. ASSUME NEW j \in Jobs, Admit(j) PROVE ActiveJobsExact'
  <2>1. ~Held(j) /\ ~job[j].activated /\ j \notin ActiveJobs
    BY <1>6 DEF Admit, Held, IInv, Accounts, JobInv, PhaseOk, ActiveJobs
  <2>2. \A i \in Jobs : i # j => (Held(i)' <=> Held(i))
    BY <1>0, <1>6 DEF Admit, Return, Held
  <2>3. CASE UNCHANGED <<activeJobs, job>>
    BY <2>1, <2>2, <2>3, ActiveFrame
  <2>4. CASE /\ activeJobs < maxJobs /\ activeJobs' = activeJobs + 1
             /\ job' = [job EXCEPT ![j].activated = TRUE]
             /\ pc' = [pc EXCEPT ![j] = "announcing"]
    <3>1. Held(j)'
      BY <1>0, <2>4 DEF Held
    <3>2. QED BY <1>5, <2>1, <2>2, <2>4, <3>1
  <2>5. QED BY <1>6, <2>3, <2>4 DEF Admit, queueVars
<1>7. ASSUME NEW j \in Jobs, ActivateNext(j) PROVE ActiveJobsExact'
  <2>1. \A i \in Jobs : Held(i)' <=> Held(i)
    BY <1>7 DEF ActivateNext, callVars, Held
  <2>2. PICK p \in Jobs : p = Head(pendingJobs) /\ ~job[p].activated /\ Entered(p)
    <3>1. pendingJobs \in Seq(Jobs) /\ pendingJobs # <<>>
      BY <1>7 DEF IInv, TypeInv, TypeOK, ActivateNext, MoreToActivate
    <3>2. /\ 1 \in DOMAIN pendingJobs /\ Head(pendingJobs) = pendingJobs[1]
          /\ pendingJobs[1] \in Jobs
      BY <3>1
    <3>3. QED BY <3>2 DEF IInv, Accounts, QueueInv
  <2>3. CASE UNCHANGED <<activeJobs, job>>
    BY <2>1, <2>3, ActiveFrame
  <2>4. CASE /\ ~job[p].done /\ activeJobs' = activeJobs + 1
             /\ job' = [job EXCEPT ![p].activated = TRUE]
    <3>1. Held(p)' /\ p \notin ActiveJobs /\ activeJobs < maxJobs
      BY <1>7, <2>1, <2>2, <2>4 DEF Entered, ActiveJobs, ActivateNext, MoreToActivate
    <3>2. QED BY <1>5, <2>1, <2>4, <3>1
  <2>5. QED BY <1>7, <2>2, <2>3, <2>4 DEF ActivateNext
<1>8. ASSUME NEW j \in Jobs, Release(j) PROVE ActiveJobsExact'
  <2>1. /\ Held(j) /\ ~Held(j)' /\ UNCHANGED job
        /\ \A i \in Jobs : i # j => (Held(i)' <=> Held(i))
    BY <1>0, <1>8 DEF Release, Held
  <2>2. CASE job[j].activated
    <3>1. j \in ActiveJobs
      BY <2>1, <2>2 DEF ActiveJobs
    <3>2. ActiveJobs' = ActiveJobs \ {j}
      BY <2>1 DEF ActiveJobs
    <3>3. Cardinality(ActiveJobs \ {j}) = Cardinality(ActiveJobs) - 1
      BY <3>1, ActiveFinite, FS_RemoveElement
    <3>4. Cardinality(ActiveJobs) > 0
      BY <3>1, ActiveFinite, FS_EmptySet
    <3>5. activeJobs' = activeJobs - 1
      BY <1>0, <1>8, <2>2, <3>4 DEF Release, HoldsPlace, Decrement, ActiveJobsExact
    <3>6. QED BY <1>0, <3>2, <3>3, <3>5 DEF ActiveJobsExact, maxJobs
  <2>3. CASE ~job[j].activated
    <3>1. UNCHANGED activeJobs
      BY <1>8, <2>3 DEF Release, HoldsPlace
    <3>2. QED BY <2>1, <2>3, <3>1, ActiveFrame
  <2>4. QED BY <2>2, <2>3
<1>9. CASE UNCHANGED vars
  BY <1>9, ActiveFrame DEF vars, queueVars, callVars, Held
<1>10. QED
  BY <1>1, <1>2, <1>3, <1>4, <1>6, <1>7, <1>8, <1>9 DEF Next, Requester, Quiescent

\* activeJobs counts the activated requests that are still held, and
\* --max-concurrent-jobs bounds them.
THEOREM ActiveJobsExactHolds == Spec => []ActiveJobsExact
<1>1. Init => ActiveJobsExact
  <2> SUFFICES ASSUME Init PROVE ActiveJobsExact
    OBVIOUS
  <2>1. ActiveJobs = {}
    BY DEF Init, ActiveJobs, Held
  <2>2. QED BY <2>1, FS_EmptySet, LimitsType DEF Init, ActiveJobsExact
<1>2. QED BY <1>1, ActiveStep, Inductive, PTL DEF Spec

LEMMA CapacityStep ==
  IInv /\ ActiveJobsExact /\ CapacityUsed /\ [Next]_vars => CapacityUsed'
<1> SUFFICES ASSUME IInv, ActiveJobsExact, CapacityUsed, [Next]_vars,
                    QueueMutexFree'
             PROVE  pendingJobs' = <<>> \/ activeJobs' = maxJobs
  BY DEF CapacityUsed, maxJobs
<1>0. pc \in [Jobs -> CallStates] /\ activeJobs \in Nat /\ maxJobs \in Nat
      /\ activeJobs <= maxJobs
  BY LimitsType DEF IInv, TypeInv, TypeOK, ActiveJobsExact
<1>1. CASE QueueMutexFree /\ UNCHANGED <<activeJobs, pendingJobs>>
  BY <1>1 DEF CapacityUsed
<1>2. ASSUME NEW w \in Workers, Worker(w)
      PROVE  QueueMutexFree /\ UNCHANGED <<activeJobs, pendingJobs>>
  <2>1. UNCHANGED <<activeJobs, pendingJobs, pc>>
    BY <1>2 DEF Worker, Sleep, TakeChunk, DropAll, Begin, Checkout, OpenChunkFile, Infer,
       AudioCallback, CountJobBytes, FinishChunk, CatchChunk, queueVars, callVars
  <2>2. QED BY <2>1 DEF QueueMutexFree
<1>3. ASSUME NEW j \in Jobs,
             Environment(j) \/ Submit(j) \/ AnnounceAdmission(j) \/ WaitTurn(j) \/ Settle(j)
             \/ AssembleWav(j) \/ CleanupTake(j) \/ CleanupFinish(j)
      PROVE  QueueMutexFree /\ UNCHANGED <<activeJobs, pendingJobs>>
  <2>1. /\ UNCHANGED <<activeJobs, pendingJobs>>
        /\ UNCHANGED pc
           \/ (pc[j] # "activating" /\ \E to : pc' = [pc EXCEPT ![j] = to])
    BY <1>3 DEF Environment, Disconnect, Expire, Submit, AnnounceAdmission, WaitTurn,
       Settle, AssembleWav, CleanupTake, CleanupFinish, Return, queueVars, callVars
  <2>2. QED BY <1>0, <2>1 DEF QueueMutexFree
<1>4. ASSUME NEW j \in Jobs, Admit(j)
      PROVE  pendingJobs' = <<>> \/ activeJobs' = maxJobs
  BY <1>0, <1>4 DEF Admit, CapacityUsed, queueVars
<1>5. ASSUME NEW j \in Jobs, Release(j) \/ ActivateNext(j) PROVE FALSE
  <2>1. pc'[j] = "activating"
    BY <1>0, <1>5 DEF Release, ActivateNext, callVars
  <2>2. QED BY <2>1 DEF QueueMutexFree
<1>6. ASSUME NEW j \in Jobs, EndRelease(j)
      PROVE  pendingJobs' = <<>> \/ activeJobs' = maxJobs
  BY <1>0, <1>6 DEF EndRelease, MoreToActivate, queueVars
<1>7. CASE UNCHANGED vars
  BY <1>1, <1>7 DEF vars, queueVars, callVars, QueueMutexFree
<1>8. QED
  BY <1>1, <1>2, <1>3, <1>4, <1>5, <1>6, <1>7 DEF Next, Requester, Quiescent

\* Whenever queueMutex is free, a waiting queue means that every place is taken.
THEOREM CapacityUsedHolds == Spec => []CapacityUsed
<1>1. Init => CapacityUsed
  BY DEF Init, CapacityUsed
<1>2. QED BY <1>1, CapacityStep, ActiveJobsExactHolds, Inductive, PTL DEF Spec
=============================================================================
