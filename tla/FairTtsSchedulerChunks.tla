----------------------- MODULE FairTtsSchedulerChunks -----------------------
(***************************************************************************)
(* The chunks of the jobs, for every value of the constants of             *)
(* FairTtsScheduler: which are on disk and which in a worker's hands, what *)
(* the temporary-storage counter holds for them, who is awake to take the  *)
(* next one, and whose turn it is.                                         *)
(***************************************************************************)
EXTENDS FairTtsSchedulerProofs

\* The chunks dispatched so far are 1..next; the job's files are among them,
\* and so is what a worker holds.  Until the job is stopped none is missing.
Located ==
  /\ \A j \in Jobs : job[j].written \subseteq 1..job[j].next
  /\ \A w \in Workers : Busy(w) => worker[w].chunk \in 1..job[worker[w].job].next
  /\ \A j \in Jobs : ~Stopped(job[j]) =>
       \A c \in 1..job[j].next :
         \/ c \in job[j].written
         \/ \E w \in Workers : Busy(w) /\ worker[w].job = j /\ worker[w].chunk = c

ChunkInv == Located /\ ChunksDisjoint

-----------------------------------------------------------------------------
(* Steps of the same shape                                                 *)

\* No chunk changes hands and no file is added.
LEMMA ChunkFrame ==
  ASSUME IInv, ChunkInv, SameChunks,
         \A i \in Jobs : /\ job'[i].next = job[i].next
                         /\ job'[i].written = job[i].written
                         /\ Stopped(job[i]) => Stopped(job'[i])
  PROVE  ChunkInv'
<1>1. \A w \in Workers : Busy(w) => worker[w].job \in Jobs
  BY HeldByWorker
<1>2. \A w \in Workers : Busy(w) =>
        /\ worker'[w].job = worker[w].job /\ worker'[w].chunk = worker[w].chunk
        /\ worker'[w].job \in Jobs
  BY <1>1 DEF SameChunks
<1>3. \A w \in Workers : Busy(w)' <=> Busy(w)
  BY DEF SameChunks
<1>4. ChunksDisjoint'
  BY <1>2, <1>3 DEF ChunkInv, ChunksDisjoint
<1>5. \A j \in Jobs : job'[j].written \subseteq 1..job'[j].next
  BY DEF ChunkInv, Located
<1>6. \A w \in Workers : Busy(w)' => worker'[w].chunk \in 1..job'[worker'[w].job].next
  BY <1>2, <1>3 DEF ChunkInv, Located
<1>7. ASSUME NEW j \in Jobs, ~Stopped(job'[j]), NEW c \in 1..job'[j].next
      PROVE  \/ c \in job'[j].written
             \/ \E w \in Workers : Busy(w)' /\ worker'[w].job = j /\ worker'[w].chunk = c
  BY <1>2, <1>3, <1>7 DEF ChunkInv, Located
<1>8. Located'
  BY <1>5, <1>6, <1>7 DEF Located, Stopped
<1>9. QED BY <1>4, <1>8 DEF ChunkInv

\* A worker puts down its chunk: the job is stopped, or the chunk is stored.
LEMMA ChunkPutDown ==
  ASSUME IInv, ChunkInv, NEW w \in Workers, Busy(w), worker' = [worker EXCEPT ![w] = Ready],
         NEW t, job' = [job EXCEPT ![worker[w].job] = t],
         t.next = job[worker[w].job].next,
         \/ Stopped(t) /\ t.written = job[worker[w].job].written
         \/ /\ t.written = job[worker[w].job].written \cup {worker[w].chunk}
            /\ Stopped(job[worker[w].job]) => Stopped(t)
  PROVE  ChunkInv'
<1> DEFINE j == worker[w].job
<1>1. /\ j \in Jobs /\ worker \in [Workers -> WorkerState] /\ job \in [Jobs -> JobState]
      /\ \A v \in Workers : Busy(v) => worker[v].job \in Jobs
  BY HeldByWorker DEF IInv, TypeInv, TypeOK
<1>2. job'[j] = t /\ \A i \in Jobs : i # j => job'[i] = job[i]
  BY <1>1
<1>3. ~Busy(w)' /\ \A v \in Workers : v # w => worker'[v] = worker[v] /\ (Busy(v)' <=> Busy(v))
  BY <1>1 DEF Busy, Ready
<1>4. worker[w].chunk \in 1..job[j].next
  BY DEF ChunkInv, Located
<1>5. \A i \in Jobs : /\ job'[i].next = job[i].next
                      /\ job[i].written \subseteq job'[i].written
                      /\ \A c \in job'[i].written : c \in job[i].written
                                                    \/ (i = j /\ c = worker[w].chunk)
  BY <1>2
<1>6. \A i \in Jobs : job'[i].written \subseteq 1..job'[i].next
  BY <1>4, <1>5 DEF ChunkInv, Located
<1>7. \A v \in Workers : Busy(v)' => worker'[v].chunk \in 1..job'[worker'[v].job].next
  BY <1>1, <1>3, <1>5 DEF ChunkInv, Located
<1>8. ASSUME NEW i \in Jobs, ~Stopped(job'[i]), NEW c \in 1..job'[i].next
      PROVE  \/ c \in job'[i].written
             \/ \E v \in Workers : Busy(v)' /\ worker'[v].job = i /\ worker'[v].chunk = c
  <2>1. ~Stopped(job[i]) /\ (i = j => worker[w].chunk \in job'[i].written)
    BY <1>2, <1>8
  <2>2. \/ c \in job[i].written
        \/ \E v \in Workers : Busy(v) /\ worker[v].job = i /\ worker[v].chunk = c
    BY <1>5, <1>8, <2>1 DEF ChunkInv, Located
  <2>3. QED BY <1>3, <1>5, <2>1, <2>2
<1>9. Located'
  BY <1>6, <1>7, <1>8 DEF Located, Stopped
<1>10. ASSUME NEW u \in Workers, NEW v \in Workers, Busy(u)', Busy(v)',
              worker'[u].job = worker'[v].job
       PROVE  /\ u # v => worker'[u].chunk # worker'[v].chunk
              /\ worker'[v].chunk \notin job'[worker'[v].job].written
  <2>1. /\ u # w /\ v # w /\ Busy(u) /\ Busy(v)
        /\ worker'[u] = worker[u] /\ worker'[v] = worker[v]
    BY <1>3, <1>10
  <2>2. /\ u # v => worker[u].chunk # worker[v].chunk
        /\ worker[v].chunk \notin job[worker[v].job].written
        /\ worker[v].job = j => worker[v].chunk # worker[w].chunk
    BY <1>10, <2>1 DEF ChunkInv, ChunksDisjoint
  <2>3. QED BY <1>1, <1>5, <2>1, <2>2
<1>11. ChunksDisjoint'
  BY <1>10 DEF ChunksDisjoint
<1>12. QED BY <1>9, <1>11 DEF ChunkInv

-----------------------------------------------------------------------------
(* The steps                                                               *)

LEMMA ChunkRequester ==
  ASSUME IInv, ChunkInv, NEW j \in Jobs, Environment(j) \/ Requester(j)
  PROVE  ChunkInv'
<1>0. /\ job \in [Jobs -> JobState] /\ TypeInv
      /\ PhaseOk(job[j], pc[j]) /\ LedgerOk(job[j], pc[j]) /\ pc[j] \in CallStates
      /\ pendingJobs \in Seq(Jobs)
  BY DEF IInv, Accounts, JobInv, TypeInv, TypeOK
<1>1. SameChunks
  <2>1. UNCHANGED worker \/ NotifyWorkers
    BY DEF Environment, Disconnect, Expire, Requester, Submit, Admit, AnnounceAdmission,
       WaitTurn, Release, ActivateNext, EndRelease, Settle, AssembleWav, CleanupTake,
       CleanupFinish
  <2>2. CASE UNCHANGED worker
    BY <2>2 DEF SameChunks, Busy
  <2>3. QED BY <1>0, <2>1, <2>2, NotifySame
<1>2. ASSUME NEW i \in Jobs, NEW t, job' = [job EXCEPT ![i] = t],
             t.next = job[i].next, t.written = job[i].written,
             Stopped(job[i]) => Stopped(t)
      PROVE  ChunkInv'
  <2>1. job'[i] = t /\ \A k \in Jobs : k # i => job'[k] = job[k]
    BY <1>0, <1>2
  <2>2. \A k \in Jobs : /\ job'[k].next = job[k].next
                        /\ job'[k].written = job[k].written
                        /\ Stopped(job[k]) => Stopped(job'[k])
    BY <1>2, <2>1
  <2>3. QED BY <1>1, <2>2, ChunkFrame
<1>3. CASE UNCHANGED job
  BY <1>1, <1>3, ChunkFrame
<1>4. CASE Submit(j)
  <2>1. job[j].next = 0 /\ job[j].written = {} /\ ~Stopped(job[j])
    <3>1. job[j].next = 0 /\ ~Stopped(job[j])
      BY <1>0, <1>4 DEF Submit, PhaseOk
    <3>2. job[j].written \subseteq 1..0
      BY <3>1 DEF ChunkInv, Located
    <3>3. QED BY <3>1, <3>2
  <2>2. ASSUME NEW n, job' = [job EXCEPT ![j] = [NewJob EXCEPT !.chunks = n, !.pending = n]]
        PROVE  ChunkInv'
    <3>1. /\ [NewJob EXCEPT !.chunks = n, !.pending = n].next = 0
          /\ [NewJob EXCEPT !.chunks = n, !.pending = n].written = {}
      BY DEF NewJob
    <3>2. QED BY <1>2, <2>1, <2>2, <3>1
  <2>3. QED BY <1>3, <1>4, <2>2 DEF Submit
<1>5. ASSUME NEW i \in Jobs, job' = [job EXCEPT ![i].activated = TRUE]
      PROVE  ChunkInv'
  <2> DEFINE t == [job[i] EXCEPT !.activated = TRUE]
  <2>1. /\ t.next = job[i].next /\ t.written = job[i].written
        /\ t.cancelled = job[i].cancelled /\ t.failed = job[i].failed
    BY <1>0 DEF JobState
  <2>2. job' = [job EXCEPT ![i] = t]
    BY <1>5
  <2> HIDE DEF t
  <2>3. QED BY <1>2, <2>1, <2>2 DEF Stopped
<1>6. CASE Admit(j)
  BY <1>3, <1>5, <1>6 DEF Admit
<1>7. CASE ActivateNext(j)
  <2>1. pendingJobs # <<>> /\ Head(pendingJobs) \in Jobs
    BY <1>0, <1>7 DEF ActivateNext, MoreToActivate
  <2>2. QED BY <1>3, <1>5, <1>7, <2>1 DEF ActivateNext
<1>8. CASE WaitTurn(j)
  <2> DEFINE polled == IF clientGone[j] THEN CancelledByClient(job[j]) ELSE job[j]
             t == IF TimeoutDue(j, polled) THEN TimedOut(polled) ELSE polled
  <2>1. /\ polled \in JobState /\ polled.next = job[j].next
        /\ polled.written = job[j].written /\ (Stopped(job[j]) => Stopped(polled))
        /\ LedgerOk(polled, pc[j])
    <3>1. job[j] \in JobState
      BY <1>0
    <3>2. CASE clientGone[j]
      BY <1>0, <3>1, <3>2, CancelState, StateTypes DEF Kept
    <3>3. CASE ~clientGone[j]
      BY <1>0, <3>1, <3>3
    <3>4. QED BY <3>2, <3>3
  <2>2. TimeoutDue(j, polled) =>
          /\ TimedOut(polled).next = polled.next /\ TimedOut(polled).written = polled.written
          /\ Stopped(TimedOut(polled))
    BY <1>0, <2>1, TimeoutState DEF TimeoutDue, Kept
  <2>3. job' = [job EXCEPT ![j] = t]
    BY <1>8 DEF WaitTurn
  <2>4. t.next = job[j].next /\ t.written = job[j].written
        /\ (Stopped(job[j]) => Stopped(t))
    BY <2>1, <2>2
  <2> HIDE DEF t
  <2>5. QED BY <1>2, <2>3, <2>4
<1>9. CASE ~(Submit(j) \/ Admit(j) \/ ActivateNext(j) \/ WaitTurn(j))
  <2>1. UNCHANGED job
    BY <1>9 DEF Environment, Disconnect, Expire, Requester, AnnounceAdmission, Release,
       EndRelease, Settle, AssembleWav, CleanupTake, CleanupFinish
  <2>2. QED BY <1>3, <2>1
<1>10. QED BY <1>4, <1>6, <1>7, <1>8, <1>9

LEMMA ChunkTake ==
  ASSUME IInv, ChunkInv, NEW w \in Workers, TakeChunk(w)
  PROVE  ChunkInv'
<1>0. /\ job \in [Jobs -> JobState] /\ worker \in [Workers -> WorkerState]
      /\ \A i \in 1..Len(activeRoundRobin) : activeRoundRobin[i] \in Jobs
      /\ ~Busy(w) /\ \A v \in Workers : Busy(v) => worker[v].job \in Jobs
  <2>1. /\ job \in [Jobs -> JobState] /\ worker \in [Workers -> WorkerState]
        /\ activeRoundRobin \in Seq(Jobs)
    BY DEF IInv, TypeInv, TypeOK
  <2>2. \A i \in 1..Len(activeRoundRobin) : activeRoundRobin[i] \in Jobs
    BY <2>1
  <2>3. ~Busy(w)
    BY DEF TakeChunk, Busy
  <2>4. QED BY <2>1, <2>2, <2>3, HeldByWorker
<1>1. PICK k \in 1..Len(activeRoundRobin) :
        /\ Dispatchable(job[activeRoundRobin[k]])
        /\ job' = [job EXCEPT ![activeRoundRobin[k]] = Dispatched(job[activeRoundRobin[k]])]
        /\ worker' = [worker EXCEPT ![w] =
                        [Ready EXCEPT !.stage = "begin", !.job = activeRoundRobin[k],
                                      !.chunk = job[activeRoundRobin[k]].next + 1]]
  BY DEF TakeChunk
<1>2. PICK j \in Jobs : j = activeRoundRobin[k]
  BY <1>0
<1> DEFINE s == Dispatched(job[j])
           t == [Ready EXCEPT !.stage = "begin", !.job = j, !.chunk = job[j].next + 1]
<1>3. /\ s.next = job[j].next + 1 /\ s.written = job[j].written
      /\ ~Stopped(s) /\ ~Stopped(job[j]) /\ job[j].next \in Nat
  <2>1. LedgerOk(job[j], pc[j]) /\ pc[j] \in CallStates /\ job[j] \in JobState
    BY <1>0 DEF IInv, Accounts, JobInv, TypeInv, TypeOK
  <2>2. QED BY <1>1, <1>2, <2>1, DispatchState DEF JobState, Dispatchable
<1>4. t.stage = "begin" /\ t.job = j /\ t.chunk = job[j].next + 1
  BY DEF Ready
<1>5. job'[j] = s /\ \A i \in Jobs : i # j => job'[i] = job[i]
  BY <1>0, <1>1, <1>2
<1>6. worker'[w] = t /\ \A v \in Workers : v # w => worker'[v] = worker[v]
  BY <1>0, <1>1, <1>2
<1> HIDE DEF s, t
<1>7. Busy(w)' /\ \A v \in Workers : v # w => (Busy(v)' <=> Busy(v))
  BY <1>4, <1>6 DEF Busy
<1>8. \A i \in Jobs : job'[i].written = job[i].written
  BY <1>3, <1>5
<1>9. \A i \in Jobs : 1..job[i].next \subseteq 1..job'[i].next
  <2>1. \A i \in Jobs : job[i].next \in Nat
    BY <1>0 DEF JobState
  <2>2. QED BY <1>3, <1>5, <2>1
<1>10. \A i \in Jobs : job'[i].written \subseteq 1..job'[i].next
  BY <1>8, <1>9 DEF ChunkInv, Located
<1>11. ASSUME NEW v \in Workers, Busy(v)'
       PROVE  worker'[v].chunk \in 1..job'[worker'[v].job].next
  <2>1. CASE v = w
    <3>1. worker'[v].job = j /\ worker'[v].chunk = job[j].next + 1
      BY <1>4, <1>6, <2>1
    <3>2. job'[j].next = job[j].next + 1 /\ job[j].next \in Nat
      BY <1>3, <1>5
    <3>3. job[j].next + 1 \in 1..(job[j].next + 1)
      BY <3>2
    <3>4. QED BY <3>1, <3>2, <3>3
  <2>2. CASE v # w
    <3>1. Busy(v) /\ worker'[v] = worker[v] /\ worker[v].job \in Jobs
      BY <1>0, <1>6, <1>7, <1>11, <2>2
    <3>2. QED BY <1>9, <3>1 DEF ChunkInv, Located
  <2>3. QED BY <2>1, <2>2
<1>12. ASSUME NEW i \in Jobs, ~Stopped(job'[i]), NEW c \in 1..job'[i].next
       PROVE  \/ c \in job'[i].written
              \/ \E v \in Workers : Busy(v)' /\ worker'[v].job = i /\ worker'[v].chunk = c
  <2>1. CASE c \in 1..job[i].next
    <3>1. ~Stopped(job[i])
      BY <1>3, <1>5, <1>12
    <3>2. \/ c \in job[i].written
          \/ \E v \in Workers : Busy(v) /\ worker[v].job = i /\ worker[v].chunk = c
      BY <2>1, <3>1 DEF ChunkInv, Located
    <3>3. QED BY <1>0, <1>6, <1>7, <1>8, <3>2
  <2>2. CASE c \notin 1..job[i].next
    <3>1. i = j /\ c = job[j].next + 1
      BY <1>3, <1>5, <1>12, <2>2
    <3>2. QED BY <1>4, <1>6, <1>7, <3>1
  <2>3. QED BY <2>1, <2>2
<1>13. Located'
  BY <1>10, <1>11, <1>12 DEF Located, Stopped
<1>14. ASSUME NEW u \in Workers, NEW v \in Workers, Busy(u)', Busy(v)',
              worker'[u].job = worker'[v].job
       PROVE  /\ u # v => worker'[u].chunk # worker'[v].chunk
              /\ worker'[v].chunk \notin job'[worker'[v].job].written
  <2>1. \A x \in Workers : x # w /\ Busy(x)' =>
          /\ Busy(x) /\ worker'[x] = worker[x] /\ worker[x].job \in Jobs
          /\ worker[x].chunk \in 1..job[worker[x].job].next
          /\ worker[x].chunk \notin job[worker[x].job].written
    BY <1>0, <1>6, <1>7 DEF ChunkInv, Located, ChunksDisjoint
  <2>2. \A x \in Workers : x # w /\ Busy(x)' /\ worker'[x].job = j =>
          worker'[x].chunk # worker'[w].chunk
    BY <1>3, <1>4, <1>6, <2>1
  <2>3. u # v => worker'[u].chunk # worker'[v].chunk
    <3>1. CASE u # w /\ v # w
      BY <1>14, <2>1, <3>1 DEF ChunkInv, ChunksDisjoint
    <3>2. CASE u = w \/ v = w
      BY <1>4, <1>6, <1>14, <2>2, <3>2
    <3>3. QED BY <3>1, <3>2
  <2>4. worker'[v].chunk \notin job'[worker'[v].job].written
    <3>1. CASE v = w
      <4>1. job[j].next + 1 \notin 1..job[j].next /\ job[j].written \subseteq 1..job[j].next
        BY <1>3 DEF ChunkInv, Located
      <4>2. QED BY <1>4, <1>6, <1>8, <3>1, <4>1
    <3>2. CASE v # w
      BY <1>8, <1>14, <2>1, <3>2
    <3>3. QED BY <3>1, <3>2
  <2>5. QED BY <2>3, <2>4
<1>15. ChunksDisjoint'
  BY <1>14 DEF ChunksDisjoint
<1>16. QED BY <1>13, <1>15 DEF ChunkInv

LEMMA ChunkWorker ==
  ASSUME IInv, ChunkInv, NEW w \in Workers, Worker(w)
  PROVE  ChunkInv'
<1> DEFINE j == worker[w].job
           s == job[j]
<1>0. TypeInv /\ job \in [Jobs -> JobState]
  BY DEF IInv, TypeInv, TypeOK
<1>1. CASE QuietWorker(w)
  BY <1>0, <1>1, QuietWorkerSame, ChunkFrame
<1>2. CASE TakeChunk(w)
  BY <1>2, ChunkTake
<1>3. CASE DropAll(w)
  <2>1. SameChunks /\ UNCHANGED job
    BY <1>3 DEF DropAll, SameChunks, Busy
  <2>2. QED BY <2>1, ChunkFrame
<1>4. ASSUME Busy(w)
      PROVE  /\ j \in Jobs /\ s \in JobState /\ s.inFlight > 0
             /\ LedgerOk(s, pc[j]) /\ pc[j] \in CallStates
             /\ worker[w].chunk \in Nat /\ worker[w].thrown \in Exceptions
  BY <1>4, HeldByWorker DEF IInv, Accounts, JobInv, TypeInv, TypeOK, WorkerState
<1>5. CASE Begin(w) /\ Stopped(s)
  <2> DEFINE t == MarkChunkFinished(DropUndispatched(s))
  <2>1. Busy(w) /\ job' = [job EXCEPT ![j] = t] /\ worker' = [worker EXCEPT ![w] = Ready]
    BY <1>5 DEF Begin, Busy, ShouldCancel
  <2>2. t.next = s.next /\ t.written = s.written /\ Stopped(t)
    BY <1>4, <1>5, <2>1, SkipState DEF Kept
  <2>3. QED BY <2>1, <2>2, ChunkPutDown
<1>6. CASE FinishChunk(w)
  <2> DEFINE t == MarkChunkFinished(Stored(s, worker[w].chunk))
  <2>1. Busy(w) /\ job' = [job EXCEPT ![j] = t] /\ worker' = [worker EXCEPT ![w] = Ready]
    BY <1>6 DEF FinishChunk, Busy
  <2>2. /\ t.next = s.next /\ t.written = s.written \cup {worker[w].chunk}
        /\ Stopped(s) => Stopped(t)
    BY <1>4, <2>1, StoreState DEF Kept
  <2>3. QED BY <2>1, <2>2, ChunkPutDown
<1>7. CASE CatchChunk(w)
  <2> DEFINE t == MarkChunkFinished(DropUndispatched(MarkedByException(s, worker[w].thrown)))
  <2>1. Busy(w) /\ job' = [job EXCEPT ![j] = t] /\ worker' = [worker EXCEPT ![w] = Ready]
    BY <1>7 DEF CatchChunk, Busy
  <2>2. t.next = s.next /\ t.written = s.written /\ Stopped(t)
    BY <1>4, <2>1, CatchState DEF Kept
  <2>3. QED BY <2>1, <2>2, ChunkPutDown
<1>8. QED
  BY <1>1, <1>2, <1>3, <1>5, <1>6, <1>7 DEF Worker, QuietWorker

LEMMA ChunkInvariant == Spec => []ChunkInv
<1>1. Init => ChunkInv
  <2> SUFFICES ASSUME Init PROVE ChunkInv
    OBVIOUS
  <2>1. \A w \in Workers : ~Busy(w)
    BY DEF Init, Busy, Ready
  <2>2. \A j \in Jobs : job[j].written = {} /\ job[j].next = 0
    BY DEF Init, NewJob
  <2>3. QED BY <2>1, <2>2 DEF ChunkInv, Located, ChunksDisjoint
<1>2. IInv /\ ChunkInv /\ [Next]_vars => ChunkInv'
  <2> SUFFICES ASSUME IInv, ChunkInv, [Next]_vars PROVE ChunkInv'
    OBVIOUS
  <2>1. CASE UNCHANGED vars
    <3>1. SameChunks /\ UNCHANGED job
      BY <2>1 DEF vars, SameChunks, Busy
    <3>2. QED BY <3>1, ChunkFrame
  <2>2. QED BY <2>1, ChunkRequester, ChunkWorker DEF Next, Quiescent
<1>3. QED BY <1>1, <1>2, Inductive, PTL DEF Spec

-----------------------------------------------------------------------------

\* No two workers hold the same chunk of a job, and nobody writes the file of
\* a chunk that has been stored.
THEOREM ChunksDisjointHolds == Spec => []ChunksDisjoint
BY ChunkInvariant, PTL DEF ChunkInv

\* A job that goes to assembleWav() has the files of all its chunks.
THEOREM CompleteWhenAssemblingHolds == Spec => []CompleteWhenAssembling
<1>1. ASSUME IInv, ChunkInv PROVE CompleteWhenAssembling
  <2> SUFFICES ASSUME NEW j \in Jobs, pc[j] = "assembling"
               PROVE  job[j].written = 1..job[j].chunks
    BY DEF CompleteWhenAssembling
  <2>1. /\ PhaseOk(job[j], pc[j]) /\ LedgerOk(job[j], pc[j]) /\ job[j] \in JobState
    BY <1>1 DEF IInv, Accounts, JobInv, TypeInv, TypeOK
  <2>2. job[j].done /\ ~Stopped(job[j])
    BY <2>1 DEF PhaseOk
  <2>3. job[j].inFlight = 0 /\ job[j].next = job[j].chunks
    BY <2>1, <2>2 DEF LedgerOk, JobState
  <2>4. \A w \in Workers : Busy(w) => worker[w].job # j
    BY <1>1, <2>3, NoHolders DEF IInv, Accounts
  <2>5. 1..job[j].next \subseteq job[j].written /\ job[j].written \subseteq 1..job[j].next
    BY <1>1, <2>2, <2>4 DEF ChunkInv, Located
  <2>6. QED BY <2>3, <2>5
<1>2. QED BY <1>1, Inductive, ChunkInvariant, PTL

-----------------------------------------------------------------------------
(* The ledger of temporary buffers                                         *)

Entries(j, n) == {j} \X (1..n)

LEMMA EntriesCount ==
  ASSUME NEW j, NEW n \in Nat
  PROVE  IsFiniteSet(Entries(j, n)) /\ Cardinality(Entries(j, n)) = n
<1>1. IsFiniteSet({j}) /\ Cardinality({j}) = 1
  BY FS_Singleton
<1>2. IsFiniteSet(1..n) /\ Cardinality(1..n) = n
  BY FS_Interval
<1>3. /\ IsFiniteSet(Entries(j, n))
      /\ Cardinality(Entries(j, n)) = Cardinality({j}) * Cardinality(1..n)
  BY <1>1, <1>2, FS_Product DEF Entries
<1>4. QED BY <1>1, <1>2, <1>3

LEMMA LedgerEntries ==
  ASSUME NEW c \in [Jobs -> Nat]
  PROVE  \A e : e \in Ledger(c) <=> \E j \in Jobs : e \in Entries(j, c[j])
BY DEF Ledger, Entries

LEMMA LedgerFinite ==
  ASSUME NEW c \in [Jobs -> Nat]
  PROVE  IsFiniteSet(Ledger(c)) /\ Cardinality(Ledger(c)) \in Nat
<1> DEFINE pages == {Entries(j, c[j]) : j \in Jobs}
           page == [j \in Jobs |-> Entries(j, c[j])]
<1>1. page \in Surjection(Jobs, pages)
  BY DEF Surjection
<1>2. IsFiniteSet(Jobs)
  BY SchedulerAssumption DEF SchedulerAssumption
<1> HIDE DEF page
<1>3. IsFiniteSet(pages)
  BY <1>1, <1>2, FS_Surjection
<1>4. \A p \in pages : IsFiniteSet(p)
  BY EntriesCount
<1>5. Ledger(c) = UNION pages
  BY DEF Ledger, Entries
<1> HIDE DEF pages
<1>6. QED BY <1>3, <1>4, <1>5, FS_UNION, FS_CardinalityType

\* One buffer is charged to a job.
LEMMA LedgerCharge ==
  ASSUME NEW c \in [Jobs -> Nat], NEW j \in Jobs
  PROVE  Cardinality(Ledger([c EXCEPT ![j] = c[j] + 1])) = Cardinality(Ledger(c)) + 1
<1> DEFINE d == [c EXCEPT ![j] = c[j] + 1]
           new == <<j, c[j] + 1>>
<1>1. d \in [Jobs -> Nat] /\ d[j] = c[j] + 1 /\ \A i \in Jobs : i # j => d[i] = c[i]
  OBVIOUS
<1>2. c[j] \in Nat
  OBVIOUS
<1> HIDE DEF d
<1>3. 1..d[j] = (1..c[j]) \cup {c[j] + 1}
  BY <1>1, <1>2
<1>4. Entries(j, d[j]) = Entries(j, c[j]) \cup {new}
  BY <1>3 DEF Entries
<1>5. new \notin Ledger(c)
  <2>1. ASSUME NEW i \in Jobs PROVE new \notin Entries(i, c[i])
    BY <1>2 DEF Entries
  <2>2. QED BY <2>1, LedgerEntries
<1> HIDE DEF new
<1>6. Ledger(d) = Ledger(c) \cup {new}
  BY <1>1, <1>4, LedgerEntries
<1>7. QED BY <1>5, <1>6, LedgerFinite, FS_AddElement DEF d

\* A job's entries are struck out.
LEMMA LedgerStrike ==
  ASSUME NEW c \in [Jobs -> Nat], NEW j \in Jobs
  PROVE  /\ Cardinality(Ledger([c EXCEPT ![j] = 0])) = Cardinality(Ledger(c)) - c[j]
         /\ c[j] <= Cardinality(Ledger(c))
<1> DEFINE d == [c EXCEPT ![j] = 0]
           struck == Entries(j, c[j])
<1>1. d \in [Jobs -> Nat] /\ d[j] = 0 /\ \A i \in Jobs : i # j => d[i] = c[i]
  OBVIOUS
<1>2. IsFiniteSet(struck) /\ Cardinality(struck) = c[j] /\ struck \in SUBSET Ledger(c)
  BY EntriesCount, LedgerEntries
<1>3. Entries(j, 0) = {}
  BY DEF Entries
<1>4. \A i \in Jobs : i # j => Entries(i, c[i]) \cap struck = {}
  BY DEF Entries
<1> HIDE DEF d, struck
<1>5. Ledger(d) = Ledger(c) \ struck
  <2>1. ASSUME NEW e, e \in Ledger(d) PROVE e \in Ledger(c) /\ e \notin struck
    <3>1. PICK i \in Jobs : e \in Entries(i, d[i])
      BY <1>1, <2>1, LedgerEntries
    <3>2. i # j /\ e \in Entries(i, c[i])
      BY <1>1, <1>3, <3>1
    <3>3. QED BY <1>4, <3>2, LedgerEntries
  <2>2. ASSUME NEW e, e \in Ledger(c), e \notin struck PROVE e \in Ledger(d)
    <3>1. PICK i \in Jobs : e \in Entries(i, c[i])
      BY <2>2, LedgerEntries
    <3>2. i # j
      BY <2>2, <3>1 DEF struck
    <3>3. QED BY <1>1, <3>1, <3>2, LedgerEntries
  <2>3. QED BY <2>1, <2>2
<1>6. Ledger(c) \cap struck = struck
  BY <1>2
<1>7. Cardinality(Ledger(d)) = Cardinality(Ledger(c)) - c[j]
  BY <1>2, <1>5, <1>6, LedgerFinite, FS_Difference
<1>8. c[j] <= Cardinality(Ledger(c))
  BY <1>2, LedgerFinite, FS_Subset
<1>9. QED BY <1>7, <1>8 DEF d

\* A cleanup takes the bytes off its job and has nothing else left to return.
BooksInv ==
  \A j \in Jobs : freeing[j] # 0 => pc[j] = "cleaning" /\ allocated[j] = 0

ChargeInv == BooksInv /\ TempBytesConserved

LEMMA ChargesType ==
  ASSUME TypeOK PROVE Charges \in [Jobs -> Nat]
BY DEF TypeOK, Charges

LEMMA UnchargedFinite ==
  IsFiniteSet(Uncharged) /\ Cardinality(Uncharged) \in Nat
<1>1. IsFiniteSet(Workers) /\ Uncharged \in SUBSET Workers
  BY SchedulerAssumption DEF SchedulerAssumption, Uncharged
<1>2. QED BY <1>1, FS_Subset, FS_CardinalityType

\* Steps that touch neither the counters nor a worker between the two.
LEMMA ChargeFrame ==
  ASSUME ChargeInv, UNCHANGED <<allocated, freeing, tempStorageBytes>>,
         \A w \in Workers : worker'[w].stage = "counted" <=> worker[w].stage = "counted",
         \A j \in Jobs : pc[j] = "cleaning" => pc'[j] = "cleaning"
  PROVE  ChargeInv'
<1>1. BooksInv'
  BY DEF ChargeInv, BooksInv
<1>2. Charges' = Charges /\ Uncharged' = Uncharged
  BY DEF Charges, Uncharged
<1>3. Ledger(Charges)' = Ledger(Charges)
  BY <1>2 DEF Ledger
<1>4. TempBytesConserved'
  BY <1>2, <1>3 DEF ChargeInv, TempBytesConserved
<1>5. QED BY <1>1, <1>4 DEF ChargeInv

LEMMA NotifyCounted ==
  ASSUME NotifyWorkers, NEW w \in Workers
  PROVE  worker'[w].stage = "counted" <=> worker[w].stage = "counted"
BY DEF NotifyWorkers, Ready

LEMMA ChargeRequester ==
  ASSUME IInv, ChargeInv, NEW j \in Jobs, Environment(j) \/ Requester(j)
  PROVE  ChargeInv'
<1>0. /\ pc \in [Jobs -> CallStates]
      /\ allocated \in [Jobs -> Nat] /\ freeing \in [Jobs -> Nat]
      /\ tempStorageBytes \in Int /\ Charges \in [Jobs -> Nat]
  BY ChargesType DEF IInv, TypeInv, TypeOK
<1>1. CASE ~CleanupTake(j) /\ ~CleanupFinish(j)
  <2>1. UNCHANGED <<allocated, freeing, tempStorageBytes>>
    BY <1>1 DEF Environment, Disconnect, Expire, Requester, Submit, Admit,
       AnnounceAdmission, WaitTurn, Release, ActivateNext, EndRelease, Settle, AssembleWav,
       tempVars
  <2>2. UNCHANGED worker \/ NotifyWorkers
    BY <1>1 DEF Environment, Disconnect, Expire, Requester, Submit, Admit,
       AnnounceAdmission, WaitTurn, Release, ActivateNext, EndRelease, Settle, AssembleWav
  <2>3. \A w \in Workers : worker'[w].stage = "counted" <=> worker[w].stage = "counted"
    BY <2>2, NotifyCounted
  <2>4. UNCHANGED pc \/ (pc[j] # "cleaning" /\ \E to : pc' = [pc EXCEPT ![j] = to])
    BY <1>1 DEF Environment, Disconnect, Expire, Requester, Submit, Admit,
       AnnounceAdmission, WaitTurn, Release, ActivateNext, EndRelease, Settle, AssembleWav,
       Return, callVars
  <2>5. \A i \in Jobs : pc[i] = "cleaning" => pc'[i] = "cleaning"
    BY <1>0, <2>4
  <2>6. QED BY <2>1, <2>3, <2>5, ChargeFrame
<1>2. CASE CleanupTake(j)
  <2>1. /\ pc[j] = "cleaning" /\ freeing[j] = 0 /\ allocated[j] > 0
    BY <1>0, <1>2 DEF CleanupTake, ChargeInv, BooksInv
  <2>2. Charges[j] = allocated[j]
    BY <1>0, <2>1 DEF Charges
  <2>3. tempStorageBytes >= allocated[j]
    <3>1. allocated[j] <= Cardinality(Ledger(Charges))
      BY <1>0, <2>2, LedgerStrike
    <3>2. Cardinality(Ledger(Charges)) \in Nat /\ Cardinality(Uncharged) \in Nat
      BY <1>0, LedgerFinite, UnchargedFinite
    <3>3. QED BY <1>0, <3>1, <3>2 DEF ChargeInv, TempBytesConserved
  <2>4. /\ allocated' = [allocated EXCEPT ![j] = 0]
        /\ freeing' = [freeing EXCEPT ![j] = allocated[j]]
        /\ UNCHANGED <<tempStorageBytes, pc, worker>>
    BY <1>2, <2>3 DEF CleanupTake, callVars
  <2>5. BooksInv'
    BY <1>0, <2>1, <2>4 DEF ChargeInv, BooksInv
  <2>6. \A i \in Jobs : allocated'[i] + freeing'[i] = allocated[i] + freeing[i]
    BY <1>0, <2>1, <2>4
  <2>7. Charges' = Charges /\ Uncharged' = Uncharged
    BY <2>4, <2>6 DEF Charges, Uncharged
  <2>8. Ledger(Charges)' = Ledger(Charges)
    BY <2>7 DEF Ledger
  <2>9. QED BY <2>4, <2>5, <2>7, <2>8 DEF ChargeInv, TempBytesConserved
<1>3. CASE CleanupFinish(j)
  <2>1. /\ allocated[j] = 0 /\ pc[j] = "cleaning"
        /\ tempStorageBytes' = tempStorageBytes - freeing[j]
        /\ freeing' = [freeing EXCEPT ![j] = 0]
        /\ UNCHANGED <<allocated, worker>>
        /\ \A i \in Jobs : i # j => pc'[i] = pc[i]
    BY <1>0, <1>3 DEF CleanupFinish
  <2>2. BooksInv'
    BY <1>0, <2>1 DEF ChargeInv, BooksInv
  <2>3. Charges[j] = freeing[j]
    BY <1>0, <2>1 DEF Charges
  <2>4. Charges' = [Charges EXCEPT ![j] = 0]
    <3>1. \A i \in Jobs : allocated'[i] + freeing'[i] = IF i = j THEN 0 ELSE Charges[i]
      BY <1>0, <2>1 DEF Charges
    <3>2. QED BY <3>1 DEF Charges
  <2> DEFINE struck == [Charges EXCEPT ![j] = 0]
  <2>5. Ledger(Charges)' = Ledger(struck)
    BY <2>4 DEF Ledger
  <2>6. Cardinality(Ledger(struck)) = Cardinality(Ledger(Charges)) - freeing[j]
    BY <1>0, <2>3, LedgerStrike
  <2> HIDE DEF struck
  <2>7. Uncharged' = Uncharged
    BY <2>1 DEF Uncharged
  <2>8. TempBytesConserved'
    BY <1>0, <2>1, <2>5, <2>6, <2>7, LedgerFinite, UnchargedFinite
       DEF ChargeInv, TempBytesConserved
  <2>9. QED BY <2>2, <2>8 DEF ChargeInv
<1>4. QED BY <1>1, <1>2, <1>3

LEMMA ChargeWorker ==
  ASSUME IInv, ChargeInv, NEW w \in Workers, Worker(w)
  PROVE  ChargeInv'
<1>0. /\ worker \in [Workers -> WorkerState]
      /\ allocated \in [Jobs -> Nat] /\ freeing \in [Jobs -> Nat]
      /\ tempStorageBytes \in Int /\ Charges \in [Jobs -> Nat]
  BY ChargesType DEF IInv, TypeInv, TypeOK
<1>1. UNCHANGED pc
  BY DEF Worker, Sleep, TakeChunk, DropAll, Begin, Checkout, OpenChunkFile, Infer,
     AudioCallback, CountJobBytes, FinishChunk, CatchChunk, callVars
<1>2. CASE ~AudioCallback(w) /\ ~CountJobBytes(w)
  <2>1. UNCHANGED <<allocated, freeing, tempStorageBytes>>
    BY <1>2 DEF Worker, Sleep, TakeChunk, DropAll, Begin, Checkout, OpenChunkFile, Infer,
       FinishChunk, CatchChunk, tempVars
  <2>2. worker[w].stage # "counted" /\ worker'[w].stage # "counted"
    <3>1. worker[w].stage # "counted"
      BY <1>2 DEF Worker, Sleep, TakeChunk, DropAll, Begin, Checkout, OpenChunkFile, Infer,
         FinishChunk, CatchChunk
    <3>2. CASE UNCHANGED worker
      BY <3>1, <3>2
    <3>4. CASE Sleep(w) \/ Checkout(w) \/ OpenChunkFile(w) \/ Infer(w)
      BY <1>0, <3>4 DEF Sleep, Checkout, OpenChunkFile, Infer, Throw, Advance, WorkerState
    <3>5. CASE TakeChunk(w)
      <4>1. PICK k \in 1..Len(activeRoundRobin) :
              worker' = [worker EXCEPT ![w] =
                           [Ready EXCEPT !.stage = "begin", !.job = activeRoundRobin[k],
                                         !.chunk = job[activeRoundRobin[k]].next + 1]]
        BY <3>5 DEF TakeChunk
      <4>2. QED BY <1>0, <3>1, <4>1 DEF Ready
    <3>6. CASE FinishChunk(w) \/ CatchChunk(w)
      BY <1>0, <3>1, <3>6 DEF FinishChunk, CatchChunk, Ready
    <3>7. CASE Begin(w)
      BY <1>0, <3>7 DEF Begin, Throw, Advance, Ready, WorkerState
    <3>8. QED BY <1>2, <3>2, <3>4, <3>5, <3>6, <3>7 DEF Worker, DropAll
  <2>3. \A v \in Workers : v # w => worker'[v] = worker[v]
    BY <1>0, <1>2 DEF Worker, Sleep, TakeChunk, DropAll, Begin, Checkout, OpenChunkFile,
       Infer, FinishChunk, CatchChunk, Throw, Advance
  <2>4. \A v \in Workers : worker'[v].stage = "counted" <=> worker[v].stage = "counted"
    BY <2>2, <2>3
  <2>5. QED BY <1>1, <2>1, <2>4, ChargeFrame
<1>3. CASE AudioCallback(w)
  <2>1. /\ tempStorageBytes' = tempStorageBytes + 1 /\ UNCHANGED <<allocated, freeing>>
        /\ worker[w].stage = "write" /\ worker'[w].stage = "counted"
        /\ \A v \in Workers : v # w => worker'[v] = worker[v]
    BY <1>0, <1>3 DEF AudioCallback, WorkerState
  <2>2. Uncharged' = Uncharged \cup {w} /\ w \notin Uncharged
    BY <2>1 DEF Uncharged
  <2>3. Cardinality(Uncharged') = Cardinality(Uncharged) + 1
    BY <2>2, UnchargedFinite, FS_AddElement
  <2>4. Charges' = Charges
    BY <2>1 DEF Charges
  <2>5. Ledger(Charges)' = Ledger(Charges)
    BY <2>4 DEF Ledger
  <2>6. TempBytesConserved'
    BY <1>0, <2>1, <2>3, <2>5, LedgerFinite, UnchargedFinite DEF ChargeInv, TempBytesConserved
  <2>7. BooksInv'
    BY <1>1, <2>1 DEF ChargeInv, BooksInv
  <2>8. QED BY <2>6, <2>7 DEF ChargeInv
<1>4. CASE CountJobBytes(w)
  <2> DEFINE j == worker[w].job
             charged == [Charges EXCEPT ![j] = Charges[j] + 1]
  <2>1. j \in Jobs /\ Held(j)
    BY <1>4, HeldByWorker DEF CountJobBytes, Busy
  <2>2. /\ allocated' = [allocated EXCEPT ![j] = allocated[j] + 1]
        /\ UNCHANGED <<freeing, tempStorageBytes>>
    BY <1>4 DEF CountJobBytes, Charge
  <2>3. /\ worker[w].stage = "counted" /\ worker'[w].stage # "counted"
        /\ \A v \in Workers : v # w => worker'[v] = worker[v]
    BY <1>0, <1>4 DEF CountJobBytes, Advance, WorkerState
  <2>4. Uncharged' = Uncharged \ {w} /\ w \in Uncharged
    BY <2>3 DEF Uncharged
  <2>5. Cardinality(Uncharged') = Cardinality(Uncharged) - 1
    BY <2>4, UnchargedFinite, FS_RemoveElement
  <2>6. Charges' = charged
    BY <1>0, <2>1, <2>2 DEF Charges
  <2>7. Ledger(Charges)' = Ledger(charged)
    BY <2>6 DEF Ledger
  <2>8. Cardinality(Ledger(charged)) = Cardinality(Ledger(Charges)) + 1
    BY <1>0, <2>1, LedgerCharge
  <2> HIDE DEF charged
  <2>9. TempBytesConserved'
    BY <1>0, <2>2, <2>5, <2>7, <2>8, LedgerFinite, UnchargedFinite
       DEF ChargeInv, TempBytesConserved
  <2>10. BooksInv'
    <3>1. pc[j] # "cleaning"
      BY <2>1 DEF Held
    <3>2. \A i \in Jobs : i # j => allocated'[i] = allocated[i]
      BY <1>0, <2>2
    <3>3. QED BY <1>1, <2>2, <3>1, <3>2 DEF ChargeInv, BooksInv
  <2>11. QED BY <2>9, <2>10 DEF ChargeInv
<1>5. QED BY <1>2, <1>3, <1>4

LEMMA ChargeInvariant == Spec => []ChargeInv
<1>1. Init => ChargeInv
  <2> SUFFICES ASSUME Init PROVE ChargeInv
    OBVIOUS
  <2>1. BooksInv
    BY DEF Init, BooksInv
  <2>2. Ledger(Charges) = {} /\ Uncharged = {}
    BY DEF Init, Ledger, Charges, Uncharged, Ready
  <2>3. QED BY <2>1, <2>2, FS_EmptySet DEF Init, ChargeInv, TempBytesConserved
<1>2. IInv /\ ChargeInv /\ [Next]_vars => ChargeInv'
  <2> SUFFICES ASSUME IInv, ChargeInv, [Next]_vars PROVE ChargeInv'
    OBVIOUS
  <2>1. CASE UNCHANGED vars
    BY <2>1, ChargeFrame DEF vars, tempVars, callVars
  <2>2. QED BY <2>1, ChargeRequester, ChargeWorker DEF Next, Quiescent
<1>3. QED BY <1>1, <1>2, Inductive, PTL DEF Spec

\* The global byte counter is the sum of what is on the jobs' books, in the
\* hands of a cleanup and on its way from one counter to the other.
THEOREM TempBytesConservedHolds == Spec => []TempBytesConserved
BY ChargeInvariant, PTL DEF ChargeInv

-----------------------------------------------------------------------------
(* Sleeping workers                                                        *)

Notifying(where) == where \in {"announcing", "activating", "settling"}

LEMMA NotifyWakes ==
  ASSUME NotifyWorkers, NEW w \in Workers
  PROVE  worker'[w].stage # "asleep"
BY DEF NotifyWorkers, Ready

\* What a worker's step does to sleepers: only Sleep makes one.
LEMMA WorkerAwake ==
  ASSUME TypeInv, NEW w \in Workers, Worker(w), ~Sleep(w), NEW v \in Workers,
         worker'[v].stage = "asleep"
  PROVE  worker[v].stage = "asleep"
<1>0. worker \in [Workers -> WorkerState]
  BY DEF TypeInv, TypeOK
<1>1. CASE DropAll(w)
  BY <1>1 DEF DropAll
<1>2. CASE TakeChunk(w)
  <2>1. PICK k \in 1..Len(activeRoundRobin) :
          worker' = [worker EXCEPT ![w] =
                       [Ready EXCEPT !.stage = "begin", !.job = activeRoundRobin[k],
                                     !.chunk = job[activeRoundRobin[k]].next + 1]]
    BY <1>2 DEF TakeChunk
  <2>2. QED BY <1>0, <2>1 DEF Ready
<1>3. CASE FinishChunk(w) \/ CatchChunk(w)
  BY <1>0, <1>3 DEF FinishChunk, CatchChunk, Ready
<1>4. CASE Begin(w)
  BY <1>0, <1>4 DEF Begin, Throw, Advance, Ready, WorkerState
<1>5. CASE Checkout(w) \/ OpenChunkFile(w) \/ Infer(w)
  BY <1>0, <1>5 DEF Checkout, OpenChunkFile, Infer, Throw, Advance, WorkerState
<1>6. CASE AudioCallback(w) \/ CountJobBytes(w)
  BY <1>0, <1>6 DEF AudioCallback, CountJobBytes, Advance, WorkerState
<1>7. QED BY <1>1, <1>2, <1>3, <1>4, <1>5, <1>6 DEF Worker

LEMMA WakeStep == TypeInv /\ NoWorkerOversleeps /\ [Next]_vars => NoWorkerOversleeps'
<1> SUFFICES ASSUME TypeInv, NoWorkerOversleeps, [Next]_vars,
                    activeRoundRobin' # <<>>,
                    NEW v \in Workers, worker'[v].stage = "asleep"
             PROVE  \E j \in Jobs : Notifying(pc'[j])
  BY DEF NoWorkerOversleeps, Notifying
<1>0. pc \in [Jobs -> CallStates] /\ worker \in [Workers -> WorkerState]
  BY DEF TypeInv, TypeOK
<1>1. ASSUME activeRoundRobin # <<>>, worker[v].stage = "asleep"
      PROVE  \E i \in Jobs : Notifying(pc[i])
  BY <1>1 DEF NoWorkerOversleeps, Notifying
<1>2. ASSUME NEW w \in Workers, Worker(w) PROVE \E j \in Jobs : Notifying(pc'[j])
  <2>1. ~Sleep(w) /\ ~DropAll(w)
    BY DEF Sleep, DropAll, queueVars
  <2>2. worker[v].stage = "asleep"
    BY <1>2, <2>1, WorkerAwake
  <2>3. activeRoundRobin # <<>>
    <3>1. CASE TakeChunk(w)
      BY <3>1 DEF TakeChunk
    <3>2. CASE ~TakeChunk(w)
      BY <1>2, <2>1, <3>2 DEF Worker, Begin, Checkout, OpenChunkFile, Infer, AudioCallback,
         CountJobBytes, FinishChunk, CatchChunk, queueVars
    <3>3. QED BY <3>1, <3>2
  <2>4. UNCHANGED pc
    BY <1>2 DEF Worker, Sleep, TakeChunk, DropAll, Begin, Checkout, OpenChunkFile, Infer,
       AudioCallback, CountJobBytes, FinishChunk, CatchChunk, callVars
  <2>5. QED BY <1>1, <2>2, <2>3, <2>4
<1>3. ASSUME NEW j \in Jobs, AnnounceAdmission(j) \/ WaitTurn(j) \/ Settle(j)
      PROVE  FALSE
  BY <1>3, NotifyWakes DEF AnnounceAdmission, WaitTurn, Settle
<1>4. ASSUME NEW j \in Jobs, Admit(j) \/ Release(j) \/ ActivateNext(j) \/ EndRelease(j),
             activeRoundRobin' # activeRoundRobin \/ Notifying(pc[j])
      PROVE  \E i \in Jobs : Notifying(pc'[i])
  <2>1. Notifying(pc'[j])
    BY <1>0, <1>4 DEF Admit, Release, ActivateNext, EndRelease, Notifying, queueVars, callVars
  <2>2. QED BY <2>1
<1>5. ASSUME NEW j \in Jobs, Environment(j) \/ Requester(j), UNCHANGED activeRoundRobin,
             ~Notifying(pc[j]), UNCHANGED worker
      PROVE  \E i \in Jobs : Notifying(pc'[i])
  <2>1. UNCHANGED pc \/ \E to : pc' = [pc EXCEPT ![j] = to]
    BY <1>5 DEF Environment, Disconnect, Expire, Requester, Submit, Admit,
       AnnounceAdmission, WaitTurn, Release, ActivateNext, EndRelease, Settle, AssembleWav,
       CleanupTake, CleanupFinish, Return, callVars
  <2>2. PICK i \in Jobs : Notifying(pc[i])
    BY <1>1, <1>5
  <2>3. i # j /\ pc'[i] = pc[i]
    BY <1>0, <1>5, <2>1, <2>2
  <2>4. QED BY <2>2, <2>3
<1>6. ASSUME NEW j \in Jobs, Environment(j) \/ Requester(j)
      PROVE  \E i \in Jobs : Notifying(pc'[i])
  <2>1. CASE Admit(j) \/ Release(j) \/ ActivateNext(j) \/ EndRelease(j)
    <3>1. UNCHANGED worker
      BY <2>1 DEF Admit, Release, ActivateNext, EndRelease
    <3>2. QED BY <1>4, <1>5, <1>6, <2>1, <3>1
  <2>2. CASE ~(Admit(j) \/ Release(j) \/ ActivateNext(j) \/ EndRelease(j))
    <3>1. /\ UNCHANGED <<activeRoundRobin, worker>>
          /\ ~Notifying(pc[j]) \/ UNCHANGED pc
      BY <1>3, <1>6, <2>2 DEF Environment, Disconnect, Expire, Requester, Submit,
         AssembleWav, CleanupTake, CleanupFinish, queueVars, callVars, Notifying
    <3>2. QED BY <1>1, <1>5, <1>6, <3>1
  <2>3. QED BY <2>1, <2>2
<1>7. CASE UNCHANGED vars
  BY <1>1, <1>7 DEF vars, queueVars, callVars
<1>8. QED BY <1>2, <1>6, <1>7 DEF Next, Quiescent

\* A worker sleeps beside queued work only while somebody is about to notify.
THEOREM NoWorkerOversleepsHolds == Spec => []NoWorkerOversleeps
<1>1. Init => NoWorkerOversleeps
  BY DEF Init, NoWorkerOversleeps
<1>2. QED BY <1>1, WakeStep, TypeInvariant, PTL DEF Spec

-----------------------------------------------------------------------------
(* The turns of the round robin                                            *)

\* No job is in a queue twice.
Once(queue) == \A i, k \in DOMAIN queue : queue[i] = queue[k] => i = k

LEMMA OnceAppend ==
  ASSUME NEW q \in Seq(Jobs), NEW j \in Jobs, Once(q), ~InQueue(q, j)
  PROVE  Once(Append(q, j))
<1>1. /\ Len(q) \in Nat /\ DOMAIN q = 1..Len(q)
      /\ DOMAIN Append(q, j) = 1..(Len(q) + 1)
      /\ \A i \in 1..Len(q) : Append(q, j)[i] = q[i]
      /\ Append(q, j)[Len(q) + 1] = j
  BY AppendProperties
<1>2. QED BY <1>1 DEF Once, InQueue

\* What a queue keeps when its first k entries are removed.
LEMMA RestProperties ==
  ASSUME NEW q \in Seq(Jobs), NEW k \in 1..Len(q)
  PROVE  LET rest == SubSeq(q, k + 1, Len(q)) IN
           /\ rest \in Seq(Jobs)
           /\ Len(rest) = Len(q) - k
           /\ \A i \in 1..(Len(q) - k) : rest[i] = q[i + k]
BY SubSeqProperties

LEMMA OnceRest ==
  ASSUME NEW q \in Seq(Jobs), NEW k \in 1..Len(q), Once(q)
  PROVE  LET rest == SubSeq(q, k + 1, Len(q)) IN Once(rest) /\ ~InQueue(rest, q[k])
<1> DEFINE rest == SubSeq(q, k + 1, Len(q))
<1>1. /\ Len(q) \in Nat /\ k \in Nat /\ DOMAIN q = 1..Len(q)
      /\ rest \in Seq(Jobs) /\ Len(rest) = Len(q) - k /\ DOMAIN rest = 1..(Len(q) - k)
      /\ \A i \in 1..(Len(q) - k) : rest[i] = q[i + k]
  BY RestProperties
<1> HIDE DEF rest
<1>2. \A i \in 1..(Len(q) - k) : i \in Int /\ i + k \in 1..Len(q) /\ i + k # k
  BY <1>1
<1>3. Once(rest)
  <2>1. ASSUME NEW i \in 1..(Len(q) - k), NEW m \in 1..(Len(q) - k), rest[i] = rest[m]
        PROVE  i = m
    <3>1. q[i + k] = q[m + k]
      BY <1>1, <2>1
    <3>2. i + k = m + k
      BY <1>1, <1>2, <3>1 DEF Once
    <3>3. QED BY <1>1, <1>2, <3>2
  <2>2. QED BY <1>1, <2>1 DEF Once
<1>4. ~InQueue(rest, q[k])
  BY <1>1, <1>2 DEF Once, InQueue
<1>5. QED BY <1>3, <1>4 DEF rest

RobinOnce == Once(activeRoundRobin)

LEMMA OnceStep == IInv /\ RobinOnce /\ [Next]_vars => RobinOnce'
<1> SUFFICES ASSUME IInv, Once(activeRoundRobin), [Next]_vars PROVE Once(activeRoundRobin')
  BY DEF RobinOnce, Once
<1>0. /\ activeRoundRobin \in Seq(Jobs) /\ pendingJobs \in Seq(Jobs)
      /\ \A i \in DOMAIN activeRoundRobin : job[activeRoundRobin[i]].activated
      /\ \A i \in DOMAIN pendingJobs : ~job[pendingJobs[i]].activated
  BY DEF IInv, TypeInv, TypeOK, Accounts, QueueInv
<1>1. ASSUME NEW j \in Jobs, Admit(j) PROVE Once(activeRoundRobin')
  <2>1. ~job[j].activated
    BY <1>1 DEF Admit, IInv, Accounts, JobInv, PhaseOk
  <2>2. ~InQueue(activeRoundRobin, j)
    BY <1>0, <2>1 DEF InQueue
  <2>3. UNCHANGED activeRoundRobin \/ activeRoundRobin' = Append(activeRoundRobin, j)
    BY <1>1 DEF Admit, queueVars
  <2>4. QED BY <1>0, <2>2, <2>3, OnceAppend
<1>2. ASSUME NEW j \in Jobs, ActivateNext(j) PROVE Once(activeRoundRobin')
  <2> DEFINE p == Head(pendingJobs)
  <2>1. UNCHANGED activeRoundRobin \/ activeRoundRobin' = Append(activeRoundRobin, p)
    BY <1>2 DEF ActivateNext
  <2>2. p \in Jobs /\ ~job[p].activated
    <3>1. pendingJobs # <<>>
      BY <1>2 DEF ActivateNext, MoreToActivate
    <3>2. 1 \in DOMAIN pendingJobs /\ p = pendingJobs[1] /\ pendingJobs[1] \in Jobs
      BY <1>0, <3>1
    <3>3. QED BY <1>0, <3>2
  <2>3. ~InQueue(activeRoundRobin, p)
    BY <1>0, <2>2 DEF InQueue
  <2>4. QED BY <1>0, <2>1, <2>2, <2>3, OnceAppend
<1>3. ASSUME NEW w \in Workers, TakeChunk(w) PROVE Once(activeRoundRobin')
  <2>1. PICK k \in 1..Len(activeRoundRobin) :
          activeRoundRobin' = Requeued(SubSeq(activeRoundRobin, k + 1, Len(activeRoundRobin)),
                                       activeRoundRobin[k])
    BY <1>3 DEF TakeChunk
  <2> DEFINE j == activeRoundRobin[k]
             rest == SubSeq(activeRoundRobin, k + 1, Len(activeRoundRobin))
  <2>2. Once(rest) /\ ~InQueue(rest, j) /\ rest \in Seq(Jobs) /\ j \in Jobs
    BY <1>0, OnceRest, RestProperties
  <2>3. activeRoundRobin' = rest \/ activeRoundRobin' = Append(rest, j)
    BY <2>1 DEF Requeued
  <2> HIDE DEF rest, j
  <2>4. QED BY <2>2, <2>3, OnceAppend
<1>4. ASSUME NEW w \in Workers, DropAll(w) PROVE Once(activeRoundRobin')
  BY <1>4 DEF DropAll, Once
<1>5. ASSUME NEW j \in Jobs, Environment(j) \/ Requester(j), ~Admit(j), ~ActivateNext(j)
      PROVE  UNCHANGED activeRoundRobin
  BY <1>5 DEF Environment, Disconnect, Expire, Requester, Submit, AnnounceAdmission,
     WaitTurn, Release, EndRelease, Settle, AssembleWav, CleanupTake, CleanupFinish, queueVars
<1>6. ASSUME NEW w \in Workers, Worker(w), ~TakeChunk(w), ~DropAll(w)
      PROVE  UNCHANGED activeRoundRobin
  BY <1>6 DEF Worker, Sleep, Begin, Checkout, OpenChunkFile, Infer, AudioCallback,
     CountJobBytes, FinishChunk, CatchChunk, queueVars
<1>7. QED
  BY <1>1, <1>2, <1>3, <1>4, <1>5, <1>6 DEF Next, Quiescent, vars, queueVars

LEMMA OnceInvariant == Spec => []RobinOnce
<1>1. Init => RobinOnce
  BY DEF Init, RobinOnce, Once
<1>2. QED BY <1>1, OnceStep, Inductive, PTL DEF Spec

LEMMA PositionIs ==
  ASSUME NEW q, Once(q), NEW i \in DOMAIN q
  PROVE  PositionIn(q, q[i]) = i
BY DEF PositionIn, Once

\* The operators on one JobState other than Dispatched leave the next chunk.
LEMMA StateKeepsNext ==
  ASSUME NEW s \in JobState
  PROVE  /\ MarkChunkFinished(s).next = s.next
         /\ DropUndispatched(s).next = s.next
         /\ CancelledByClient(s).next = s.next
         /\ TimedOut(s).next = s.next
         /\ \A t : MarkedByException(s, t).next = s.next
         /\ \A n : Stored(s, n).next = s.next
BY DEF MarkChunkFinished, DropUndispatched, CancelledByClient, TimedOut,
       MarkedByException, Stored, JobState

\* Only a worker that takes a chunk dispatches one.
LEMMA WorkerKeepsNext ==
  ASSUME IInv, NEW w \in Workers, Worker(w), ~TakeChunk(w), NEW i \in Jobs
  PROVE  job'[i].next = job[i].next
<1>0. job \in [Jobs -> JobState]
  BY DEF IInv, TypeInv, TypeOK
<1>1. CASE Begin(w) \/ FinishChunk(w) \/ CatchChunk(w)
  <2> DEFINE j == worker[w].job
             skipped == DropUndispatched(job[j])
             stored == Stored(job[j], worker[w].chunk)
             marked == MarkedByException(job[j], worker[w].thrown)
             caught == DropUndispatched(marked)
  <2>1. j \in Jobs /\ worker[w].chunk \in Nat
    BY <1>1, HeldByWorker DEF Begin, FinishChunk, CatchChunk, Busy, IInv, TypeInv, TypeOK,
       WorkerState
  <2>2. /\ skipped \in JobState /\ stored \in JobState /\ marked \in JobState
        /\ caught \in JobState
    BY <1>0, <2>1, StateTypes, StoredTypes
  <2>3. skipped.next = job[j].next /\ stored.next = job[j].next /\ marked.next = job[j].next
    BY <1>0, <2>1, StateKeepsNext
  <2>4. caught.next = marked.next
    BY <2>2, StateKeepsNext
  <2>5. \/ job' = job
        \/ job' = [job EXCEPT ![j] = MarkChunkFinished(skipped)]
        \/ job' = [job EXCEPT ![j] = MarkChunkFinished(stored)]
        \/ job' = [job EXCEPT ![j] = MarkChunkFinished(caught)]
    BY <1>1 DEF Begin, FinishChunk, CatchChunk
  <2>6. \A t \in JobState : MarkChunkFinished(t).next = t.next
    BY StateKeepsNext
  <2> HIDE DEF skipped, stored, marked, caught
  <2>7. QED BY <1>0, <2>1, <2>2, <2>3, <2>4, <2>5, <2>6
<1>2. CASE ~(Begin(w) \/ FinishChunk(w) \/ CatchChunk(w))
  BY <1>2 DEF Worker, Sleep, DropAll, Checkout, OpenChunkFile, Infer, AudioCallback,
     CountJobBytes
<1>3. QED BY <1>1, <1>2

LEMMA RequesterKeepsNext ==
  ASSUME IInv, NEW j \in Jobs, Environment(j) \/ Requester(j), NEW i \in Jobs
  PROVE  ~(job'[i].next > job[i].next)
<1>0. job \in [Jobs -> JobState] /\ job[i].next \in Nat /\ pendingJobs \in Seq(Jobs)
  BY DEF IInv, TypeInv, TypeOK, JobState
<1>1. CASE Submit(j)
  <2>1. \/ job' = job
        \/ \E n \in 1..MaxChunks :
             job' = [job EXCEPT ![j] = [NewJob EXCEPT !.chunks = n, !.pending = n]]
    BY <1>1 DEF Submit
  <2>2. job'[i].next = job[i].next \/ job'[i].next = 0
    BY <1>0, <2>1 DEF NewJob
  <2>3. QED BY <1>0, <2>2
<1>2. ASSUME job'[i].next = job[i].next PROVE ~(job'[i].next > job[i].next)
  BY <1>0, <1>2
<1>3. [job[i] EXCEPT !.activated = TRUE].next = job[i].next
  <2>1. job[i] \in JobState
    BY <1>0
  <2>2. QED BY <2>1 DEF JobState
<1>4. CASE WaitTurn(j)
  <2> DEFINE polled == IF clientGone[j] THEN CancelledByClient(job[j]) ELSE job[j]
             t == IF TimeoutDue(j, polled) THEN TimedOut(polled) ELSE polled
  <2>1. job' = [job EXCEPT ![j] = t]
    BY <1>4 DEF WaitTurn
  <2>2. polled \in JobState /\ polled.next = job[j].next
    BY <1>0, StateTypes, StateKeepsNext
  <2> HIDE DEF polled
  <2>3. t.next = job[j].next
    BY <2>2, StateKeepsNext
  <2> HIDE DEF t
  <2>4. QED BY <1>0, <1>2, <2>1, <2>3
<1>5. CASE Admit(j)
  <2>1. UNCHANGED job \/ job' = [job EXCEPT ![j] = [job[j] EXCEPT !.activated = TRUE]]
    BY <1>5 DEF Admit
  <2>2. job'[i] = job[i] \/ job'[i] = [job[i] EXCEPT !.activated = TRUE]
    BY <1>0, <2>1
  <2>3. QED BY <1>2, <1>3, <2>2
<1>6. CASE ActivateNext(j)
  <2> DEFINE p == Head(pendingJobs)
  <2>1. UNCHANGED job \/ job' = [job EXCEPT ![p] = [job[p] EXCEPT !.activated = TRUE]]
    BY <1>6 DEF ActivateNext
  <2> HIDE DEF p
  <2>2. job'[i] = job[i] \/ job'[i] = [job[i] EXCEPT !.activated = TRUE]
    BY <1>0, <2>1
  <2>3. QED BY <1>2, <1>3, <2>2
<1>7. CASE ~(Submit(j) \/ WaitTurn(j) \/ Admit(j) \/ ActivateNext(j))
  BY <1>2, <1>7 DEF Environment, Disconnect, Expire, Requester, AnnounceAdmission,
     Release, EndRelease, Settle, AssembleWav, CleanupTake, CleanupFinish
<1>8. QED BY <1>1, <1>4, <1>5, <1>6, <1>7

\* A step that at most adds a job at the back moves nobody.
LEMMA TurnKept ==
  ASSUME TypeOK, RobinOnce, RobinOnce', NEW j \in Jobs, Queued(j),
         UNCHANGED activeRoundRobin
         \/ \E p \in Jobs : activeRoundRobin' = Append(activeRoundRobin, p)
  PROVE  Queued(j)' /\ PositionIn(activeRoundRobin', j) = PositionIn(activeRoundRobin, j)
<1>1. activeRoundRobin \in Seq(Jobs)
  BY DEF TypeOK
<1>2. PICK i \in DOMAIN activeRoundRobin : activeRoundRobin[i] = j
  BY DEF Queued
<1>3. i \in DOMAIN activeRoundRobin' /\ activeRoundRobin'[i] = j
  BY <1>1, <1>2, AppendProperties
<1>4. Once(activeRoundRobin')
  BY DEF RobinOnce, Once
<1>5. PositionIn(activeRoundRobin, j) = i /\ PositionIn(activeRoundRobin', j) = i
  BY <1>2, <1>3, <1>4, PositionIs DEF RobinOnce
<1>6. QED BY <1>3, <1>5 DEF Queued

\* A dispatch moves every other job that can be dispatched forward.
LEMMA TurnTaken ==
  ASSUME IInv, RobinOnce, RobinOnce', NEW w \in Workers, TakeChunk(w),
         NEW j \in Jobs, Queued(j), Dispatchable(job[j]), job'[j].next = job[j].next
  PROVE  /\ Queued(j)'
         /\ PositionIn(activeRoundRobin', j) \in Int
         /\ PositionIn(activeRoundRobin', j) < PositionIn(activeRoundRobin, j)
<1>0. /\ activeRoundRobin \in Seq(Jobs) /\ job \in [Jobs -> JobState]
      /\ DOMAIN activeRoundRobin = 1..Len(activeRoundRobin)
      /\ Len(activeRoundRobin) \in Nat
      /\ job[j].next \in Nat
  BY DEF IInv, TypeInv, TypeOK, JobState
<1>1. PICK i \in DOMAIN activeRoundRobin : activeRoundRobin[i] = j
  BY DEF Queued
<1>2. PICK k \in 1..Len(activeRoundRobin) :
        /\ \A m \in 1..(k - 1) : ~Dispatchable(job[activeRoundRobin[m]])
        /\ job' = [job EXCEPT ![activeRoundRobin[k]] = Dispatched(job[activeRoundRobin[k]])]
        /\ activeRoundRobin' = Requeued(SubSeq(activeRoundRobin, k + 1, Len(activeRoundRobin)),
                                        activeRoundRobin[k])
  BY DEF TakeChunk
<1> DEFINE rest == SubSeq(activeRoundRobin, k + 1, Len(activeRoundRobin))
<1>3. activeRoundRobin[k] # j
  <2>1. Dispatched(job[j]).next # job[j].next
    BY <1>0 DEF Dispatched, JobState
  <2>2. QED BY <1>0, <1>2, <2>1
<1>4. k < i
  <2>1. i \notin 1..(k - 1) /\ i # k
    BY <1>1, <1>2, <1>3
  <2>2. QED BY <1>0, <2>1
<1>5. /\ rest \in Seq(Jobs) /\ Len(rest) = Len(activeRoundRobin) - k
      /\ rest[i - k] = activeRoundRobin[i - k + k] /\ i - k \in 1..Len(rest)
  <2>1. /\ rest \in Seq(Jobs) /\ Len(rest) = Len(activeRoundRobin) - k
        /\ \A m \in 1..(Len(activeRoundRobin) - k) : rest[m] = activeRoundRobin[m + k]
    BY <1>0, RestProperties
  <2>2. i - k \in 1..(Len(activeRoundRobin) - k)
    BY <1>0, <1>1, <1>4
  <2> HIDE DEF rest
  <2>3. QED BY <2>1, <2>2
<1>6. rest[i - k] = j /\ i - k \in DOMAIN rest
  <2>1. i - k + k = i
    BY <1>0
  <2>2. QED BY <1>1, <1>5, <2>1
<1>7. activeRoundRobin' = rest \/ activeRoundRobin' = Append(rest, activeRoundRobin[k])
  BY <1>2 DEF Requeued
<1>8. activeRoundRobin[k] \in Jobs
  BY <1>0
<1> HIDE DEF rest
<1>9. i - k \in DOMAIN activeRoundRobin' /\ activeRoundRobin'[i - k] = j
  BY <1>5, <1>6, <1>7, <1>8, AppendProperties
<1>10. Once(activeRoundRobin')
  BY DEF RobinOnce, Once
<1>11. PositionIn(activeRoundRobin, j) = i /\ PositionIn(activeRoundRobin', j) = i - k
  BY <1>1, <1>9, <1>10, PositionIs DEF RobinOnce
<1>12. QED BY <1>0, <1>9, <1>11 DEF Queued

\* While a job has chunks to dispatch its place in the round robin only moves
\* forward, and it does so whenever a chunk of another job is dispatched.
THEOREM FairTurnHolds == Spec => FairTurn
<1> DEFINE Turn(j) ==
      Queued(j) /\ Dispatchable(job[j]) /\ Dispatchable(job'[j])
        /\ job'[j].next = job[j].next =>
        /\ Queued(j)'
        /\ PositionIn(activeRoundRobin', j) <= PositionIn(activeRoundRobin, j)
        /\ (\E i \in Jobs : job'[i].next > job[i].next) =>
             PositionIn(activeRoundRobin', j) < PositionIn(activeRoundRobin, j)
<1>1. ASSUME IInv, RobinOnce, RobinOnce', Next, NEW j \in Jobs
      PROVE  Turn(j)
  <2> SUFFICES ASSUME Queued(j), Dispatchable(job[j]), job'[j].next = job[j].next
               PROVE  /\ Queued(j)'
                      /\ PositionIn(activeRoundRobin', j) <= PositionIn(activeRoundRobin, j)
                      /\ (\E i \in Jobs : job'[i].next > job[i].next) =>
                           PositionIn(activeRoundRobin', j) < PositionIn(activeRoundRobin, j)
    OBVIOUS
  <2>0. TypeOK /\ pendingJobs \in Seq(Jobs) /\ Len(activeRoundRobin) \in Nat
    BY <1>1 DEF IInv, TypeInv, TypeOK
  <2>1. PositionIn(activeRoundRobin, j) \in Int
    <3>1. PICK i \in DOMAIN activeRoundRobin : activeRoundRobin[i] = j
      BY DEF Queued
    <3>2. PositionIn(activeRoundRobin, j) = i
      BY <1>1, <3>1, PositionIs DEF RobinOnce
    <3>3. i \in Int
      BY <2>0 DEF TypeOK
    <3>4. QED BY <3>2, <3>3
  <2>2. ASSUME NEW w \in Workers, TakeChunk(w)
        PROVE  /\ Queued(j)'
               /\ PositionIn(activeRoundRobin', j) \in Int
               /\ PositionIn(activeRoundRobin', j) < PositionIn(activeRoundRobin, j)
    BY <1>1, <2>2, TurnTaken
  <2>3. ASSUME NEW w \in Workers, Worker(w), ~TakeChunk(w)
        PROVE  UNCHANGED activeRoundRobin /\ \A i \in Jobs : job'[i].next = job[i].next
    <3>1. ~DropAll(w)
      <4>1. PICK i \in DOMAIN activeRoundRobin : activeRoundRobin[i] = j
        BY DEF Queued
      <4>2. i \in 1..Len(activeRoundRobin)
        BY <2>0, <4>1 DEF TypeOK
      <4>3. QED BY <4>1, <4>2 DEF DropAll
    <3>2. UNCHANGED activeRoundRobin
      BY <2>3, <3>1 DEF Worker, Sleep, Begin, Checkout, OpenChunkFile, Infer, AudioCallback,
         CountJobBytes, FinishChunk, CatchChunk, queueVars
    <3>3. QED BY <1>1, <2>3, <3>2, WorkerKeepsNext
  <2>4. ASSUME NEW i \in Jobs, Environment(i) \/ Requester(i)
        PROVE  /\ UNCHANGED activeRoundRobin
                  \/ \E p \in Jobs : activeRoundRobin' = Append(activeRoundRobin, p)
               /\ \A m \in Jobs : ~(job'[m].next > job[m].next)
    <3>1. CASE ActivateNext(i)
      <4>1. Head(pendingJobs) \in Jobs
        BY <2>0, <3>1, HeadTailProperties DEF ActivateNext, MoreToActivate
      <4>2. UNCHANGED activeRoundRobin
            \/ activeRoundRobin' = Append(activeRoundRobin, Head(pendingJobs))
        BY <3>1 DEF ActivateNext
      <4>3. QED BY <1>1, <2>4, <4>1, <4>2, RequesterKeepsNext
    <3>2. CASE ~ActivateNext(i)
      <4>1. UNCHANGED activeRoundRobin \/ activeRoundRobin' = Append(activeRoundRobin, i)
        BY <2>4, <3>2 DEF Environment, Disconnect, Expire, Requester, Submit, Admit,
           AnnounceAdmission, WaitTurn, Release, EndRelease, Settle, AssembleWav,
           CleanupTake, CleanupFinish, queueVars
      <4>2. QED BY <1>1, <2>4, <4>1, RequesterKeepsNext
    <3>3. QED BY <3>1, <3>2
  <2>5. CASE UNCHANGED vars
    <3>1. UNCHANGED <<activeRoundRobin, job>>
      BY <2>5 DEF vars, queueVars
    <3>2. \A i \in Jobs : ~(job[i].next > job[i].next)
      BY <2>0 DEF TypeOK, JobState
    <3>3. QED BY <1>1, <2>0, <2>1, <3>1, <3>2, TurnKept
  <2>6. ASSUME UNCHANGED activeRoundRobin
               \/ \E p \in Jobs : activeRoundRobin' = Append(activeRoundRobin, p),
               \A m \in Jobs : ~(job'[m].next > job[m].next)
        PROVE  /\ Queued(j)'
               /\ PositionIn(activeRoundRobin', j) <= PositionIn(activeRoundRobin, j)
               /\ (\E i \in Jobs : job'[i].next > job[i].next) =>
                    PositionIn(activeRoundRobin', j) < PositionIn(activeRoundRobin, j)
    BY <1>1, <2>0, <2>1, <2>6, TurnKept
  <2>7. CASE \E w \in Workers : TakeChunk(w)
    <3>1. \A a, b \in Int : a < b => a <= b
      OBVIOUS
    <3>2. QED BY <2>1, <2>2, <2>7, <3>1
  <2>8. CASE \E w \in Workers : Worker(w) /\ ~TakeChunk(w)
    <3>1. \A m \in Jobs : job[m].next \in Nat
      BY <2>0 DEF TypeOK, JobState
    <3>2. UNCHANGED activeRoundRobin /\ \A m \in Jobs : ~(job'[m].next > job[m].next)
      BY <2>3, <2>8, <3>1
    <3>3. QED BY <2>6, <3>2
  <2>9. QED BY <1>1, <2>4, <2>5, <2>6, <2>7, <2>8 DEF Next, Quiescent
<1>2. IInv /\ RobinOnce /\ RobinOnce' /\ [Next]_vars => [\A j \in Jobs : Turn(j)]_vars
  BY <1>1
<1>3. QED BY <1>2, Inductive, OnceInvariant, PTL DEF Spec, FairTurn
=============================================================================
