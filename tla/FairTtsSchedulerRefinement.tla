---------------------- MODULE FairTtsSchedulerRefinement ----------------------
(***************************************************************************)
(* FairTtsScheduler implements TtsService for every value of the           *)
(* constants.                                                              *)
(***************************************************************************)
EXTENDS FairTtsSchedulerChunks, FairTtsSchedulerService

\* What the other invariants do not say: the counter that admission reads never
\* exceeds the entries of the waiting queue, only a job that has a place is in a
\* worker's hands, and the outcome of a request fits what has been spoken.
ServiceInv ==
  /\ waitingJobs <= Len(pendingJobs)
  /\ \A w \in Workers : Busy(w) => job[worker[w].job].activated
  /\ \A j \in Jobs : pc[j] = "admitting" => job[j].chunks \in 1..MaxChunks
  /\ \A j \in Jobs : pc[j] = "cleaning" =>
       /\ outcome[j] \in {"ok", "cancelled", "failed"}
       /\ outcome[j] = "ok" => job[j].written = 1..job[j].chunks

\* Everything the simulation rests on.
AllInv == IInv /\ ChunkInv /\ ActiveJobsExact /\ CapacityUsed /\ ServiceInv

-----------------------------------------------------------------------------
(* ServiceInv is an invariant                                              *)

LEMMA ServiceWorker ==
  ASSUME IInv, ServiceInv, NEW w \in Workers, Worker(w)
  PROVE  ServiceInv'
<1>0. /\ job \in [Jobs -> JobState] /\ worker \in [Workers -> WorkerState]
      /\ \A v \in Workers : Busy(v) => worker[v].job \in Jobs /\ Held(worker[v].job)
  BY HeldByWorker DEF IInv, Accounts, HoldInv, TypeInv, TypeOK
<1>1. UNCHANGED <<waitingJobs, pendingJobs, pc, outcome>>
  BY DEF Worker, Sleep, TakeChunk, DropAll, Begin, Checkout, OpenChunkFile, Infer,
     AudioCallback, CountJobBytes, FinishChunk, CatchChunk, queueVars, callVars
<1>2. \A i \in Jobs : job'[i].activated = job[i].activated
  BY WorkerKeepsActive
<1>3. \A i \in Jobs : ~Held(i) => job'[i] = job[i]
  <2>1. CASE TakeChunk(w)
    <3>1. PICK k \in 1..Len(activeRoundRobin) :
            /\ Dispatchable(job[activeRoundRobin[k]])
            /\ job' = [job EXCEPT ![activeRoundRobin[k]] =
                                    Dispatched(job[activeRoundRobin[k]])]
      BY <2>1 DEF TakeChunk
    <3>2. PICK q \in Jobs : q = activeRoundRobin[k]
      BY DEF IInv, TypeInv, TypeOK
    <3>3. Entered(q)
      BY <3>2 DEF IInv, Accounts, QueueInv
    <3>4. Held(q)
      <4>1. LedgerOk(job[q], pc[q]) /\ job[q] \in JobState
        BY <1>0 DEF IInv, Accounts, JobInv
      <4>2. ~Stopped(job[q]) /\ job[q].next < job[q].chunks
        BY <3>1, <3>2 DEF Dispatchable
      <4>3. ~job[q].done
        BY <4>1, <4>2 DEF LedgerOk, JobState
      <4>4. QED BY <3>3, <4>3 DEF Entered
    <3>5. QED BY <1>0, <3>1, <3>2, <3>4
  <2>2. CASE Begin(w) \/ FinishChunk(w) \/ CatchChunk(w)
    <3>1. Busy(w)
      BY <2>2 DEF Begin, FinishChunk, CatchChunk, Busy
    <3>2. QED BY <1>0, <2>2, <3>1 DEF Begin, FinishChunk, CatchChunk
  <2>3. CASE ~(TakeChunk(w) \/ Begin(w) \/ FinishChunk(w) \/ CatchChunk(w))
    BY <2>3 DEF Worker, Sleep, DropAll, Checkout, OpenChunkFile, Infer,
       AudioCallback, CountJobBytes
  <2>4. QED BY <2>1, <2>2, <2>3
<1>4. \A v \in Workers : Busy(v)' => job'[worker'[v].job].activated
  <2>1. CASE TakeChunk(w)
    <3>1. PICK k \in 1..Len(activeRoundRobin) :
            worker' = [worker EXCEPT ![w] =
                         [Ready EXCEPT !.stage = "begin", !.job = activeRoundRobin[k],
                                       !.chunk = job[activeRoundRobin[k]].next + 1]]
      BY <2>1 DEF TakeChunk
    <3>2. PICK q \in Jobs : q = activeRoundRobin[k] /\ job[q].activated
      BY DEF IInv, TypeInv, TypeOK, Accounts, QueueInv
    <3>3. worker'[w].job = q /\ \A v \in Workers : v # w => worker'[v] = worker[v]
      BY <1>0, <3>1, <3>2 DEF Ready
    <3>4. QED BY <1>0, <1>2, <3>2, <3>3 DEF ServiceInv, Busy
  <2>2. CASE ~TakeChunk(w)
    <3>1. \A v \in Workers : Busy(v)' => Busy(v) /\ worker'[v].job = worker[v].job
      <4>1. \A v \in Workers : v # w => worker'[v] = worker[v]
        BY <1>0, <2>2 DEF Worker, Sleep, DropAll, Begin, Checkout, OpenChunkFile, Infer,
           AudioCallback, CountJobBytes, FinishChunk, CatchChunk, Advance, Throw
      <4>2. Busy(w)' => Busy(w) /\ worker'[w].job = worker[w].job
        BY <1>0, <2>2 DEF Worker, Sleep, DropAll, Begin, Checkout, OpenChunkFile, Infer,
           AudioCallback, CountJobBytes, FinishChunk, CatchChunk, Advance, Throw, Busy,
           Ready, WorkerState
      <4>3. QED BY <4>1, <4>2 DEF Busy
    <3>2. QED BY <1>0, <1>2, <3>1 DEF ServiceInv
  <2>3. QED BY <2>1, <2>2
<1>5. \A j \in Jobs : pc[j] \in {"admitting", "cleaning"} => job'[j] = job[j]
  BY <1>3 DEF Held
<1>6. QED BY <1>1, <1>4, <1>5 DEF ServiceInv

\* The steps of a request leave the other requests where they are, and no job
\* that was submitted loses its text or its place.
LEMMA RequesterKeeps ==
  ASSUME IInv, NEW j \in Jobs, Environment(j) \/ Requester(j)
  PROVE  /\ \A i \in Jobs : i # j => pc'[i] = pc[i] /\ outcome'[i] = outcome[i]
         /\ \A i \in Jobs : pc[i] # "idle" =>
              /\ job'[i].chunks = job[i].chunks /\ job'[i].written = job[i].written
              /\ job[i].activated => job'[i].activated
<1>0. /\ job \in [Jobs -> JobState] /\ pc \in [Jobs -> CallStates]
      /\ outcome \in [Jobs -> Outcomes] /\ pendingJobs \in Seq(Jobs)
      /\ PhaseOk(job[j], pc[j]) /\ LedgerOk(job[j], pc[j])
  BY DEF IInv, TypeInv, TypeOK, Accounts, JobInv
<1>1. \A i \in Jobs : i # j => pc'[i] = pc[i] /\ outcome'[i] = outcome[i]
  BY <1>0 DEF Environment, Disconnect, Expire, Requester, Submit, Admit, AnnounceAdmission,
     WaitTurn, Release, ActivateNext, EndRelease, Settle, AssembleWav, CleanupTake,
     CleanupFinish, Return, callVars
<1>2. ASSUME NEW i \in Jobs, NEW t, job' = [job EXCEPT ![i] = t],
             t.chunks = job[i].chunks, t.written = job[i].written,
             job[i].activated => t.activated
      PROVE  \A k \in Jobs : /\ job'[k].chunks = job[k].chunks
                             /\ job'[k].written = job[k].written
                             /\ job[k].activated => job'[k].activated
  <2>1. job'[i] = t /\ \A k \in Jobs : k # i => job'[k] = job[k]
    BY <1>0, <1>2
  <2>2. QED BY <1>2, <2>1
<1>3. ASSUME NEW i \in Jobs, job' = [job EXCEPT ![i].activated = TRUE]
      PROVE  \A k \in Jobs : /\ job'[k].chunks = job[k].chunks
                             /\ job'[k].written = job[k].written
                             /\ job[k].activated => job'[k].activated
  <2>1. job'[i] = [job[i] EXCEPT !.activated = TRUE]
    BY <1>0, <1>3
  <2>2. \A k \in Jobs : k # i => job'[k] = job[k]
    BY <1>0, <1>3
  <2>3. QED BY <1>0, <2>1, <2>2 DEF JobState
<1>4. CASE Submit(j)
  <2>1. pc[j] = "idle" /\ \A i \in Jobs : i # j => job'[i] = job[i]
    BY <1>0, <1>4 DEF Submit
  <2>2. QED BY <1>1, <2>1
<1>5. CASE Admit(j)
  BY <1>1, <1>3, <1>5 DEF Admit
<1>6. CASE ActivateNext(j)
  <2>1. Head(pendingJobs) \in Jobs
    BY <1>0, <1>6 DEF ActivateNext, MoreToActivate
  <2>2. QED BY <1>1, <1>3, <1>6, <2>1 DEF ActivateNext
<1>7. CASE WaitTurn(j)
  <2> DEFINE polled == IF clientGone[j] THEN CancelledByClient(job[j]) ELSE job[j]
             t == IF TimeoutDue(j, polled) THEN TimedOut(polled) ELSE polled
  <2>1. job' = [job EXCEPT ![j] = t]
    BY <1>7 DEF WaitTurn
  <2>2. job[j] \in JobState /\ polled \in JobState
    BY <1>0, StateTypes
  <2>3. /\ polled.chunks = job[j].chunks /\ polled.written = job[j].written
        /\ polled.activated = job[j].activated
    BY <2>2 DEF CancelledByClient, JobState
  <2>4. /\ TimedOut(polled).chunks = polled.chunks
        /\ TimedOut(polled).written = polled.written
        /\ TimedOut(polled).activated = polled.activated
    BY <2>2 DEF TimedOut, JobState
  <2>5. /\ t.chunks = job[j].chunks /\ t.written = job[j].written
        /\ t.activated = job[j].activated
    BY <2>3, <2>4
  <2> HIDE DEF t
  <2>6. QED BY <1>1, <1>2, <2>1, <2>5
<1>8. CASE ~(Submit(j) \/ Admit(j) \/ ActivateNext(j) \/ WaitTurn(j))
  <2>1. UNCHANGED job
    BY <1>8 DEF Environment, Disconnect, Expire, Requester, AnnounceAdmission, Release,
       EndRelease, Settle, AssembleWav, CleanupTake, CleanupFinish
  <2>2. QED BY <1>1, <2>1
<1>9. QED BY <1>4, <1>5, <1>6, <1>7, <1>8

LEMMA ServiceRequester ==
  ASSUME IInv, ServiceInv, NEW j \in Jobs, Environment(j) \/ Requester(j)
  PROVE  ServiceInv'
<1>0. /\ TypeInv /\ job \in [Jobs -> JobState] /\ pc \in [Jobs -> CallStates]
      /\ pendingJobs \in Seq(Jobs) /\ waitingJobs \in Nat /\ outcome \in [Jobs -> Outcomes]
      /\ \A v \in Workers : Busy(v) => worker[v].job \in Jobs /\ Held(worker[v].job)
  BY HeldByWorker DEF IInv, Accounts, HoldInv, TypeInv, TypeOK
<1>1. waitingJobs' <= Len(pendingJobs')
  <2>1. CASE UNCHANGED <<waitingJobs, pendingJobs>>
    BY <2>1 DEF ServiceInv
  <2>2. CASE waitingJobs' = waitingJobs + 1 /\ pendingJobs' = Append(pendingJobs, j)
    BY <1>0, <2>2 DEF ServiceInv
  <2>3. CASE UNCHANGED pendingJobs /\ waitingJobs' = Decrement(waitingJobs)
    BY <1>0, <2>3 DEF ServiceInv, Decrement
  <2>4. CASE ActivateNext(j)
    <3>1. pendingJobs # <<>> /\ pendingJobs' = Tail(pendingJobs)
          /\ waitingJobs' = Decrement(waitingJobs)
      BY <2>4 DEF ActivateNext, MoreToActivate
    <3>2. Len(pendingJobs') = Len(pendingJobs) - 1 /\ Len(pendingJobs) \in Nat \ {0}
      BY <1>0, <3>1
    <3>3. QED BY <1>0, <3>1, <3>2 DEF ServiceInv, Decrement
  <2>5. QED
    BY <2>1, <2>2, <2>3, <2>4 DEF Environment, Disconnect, Expire, Requester, Submit,
       Admit, AnnounceAdmission, WaitTurn, Release, EndRelease, Settle, AssembleWav,
       CleanupTake, CleanupFinish, queueVars
<1>2. SameChunks
  <2>1. UNCHANGED worker \/ NotifyWorkers
    BY DEF Environment, Disconnect, Expire, Requester, Submit, Admit, AnnounceAdmission,
       WaitTurn, Release, ActivateNext, EndRelease, Settle, AssembleWav, CleanupTake,
       CleanupFinish
  <2>2. CASE UNCHANGED worker
    BY <2>2 DEF SameChunks, Busy
  <2>3. QED BY <1>0, <2>1, <2>2, NotifySame
<1>3. \A v \in Workers : Busy(v)' => job'[worker'[v].job].activated
  <2>1. \A v \in Workers : Busy(v) => pc[worker[v].job] # "idle"
    BY <1>0 DEF Held
  <2>2. QED BY <1>0, <1>2, <2>1, RequesterKeeps DEF SameChunks, ServiceInv
<1>4. \A i \in Jobs : pc'[i] = "admitting" => job'[i].chunks \in 1..MaxChunks
  <2>1. CASE Submit(j) /\ pc'[j] = "admitting"
    <3>1. PICK n \in 1..MaxChunks :
            job' = [job EXCEPT ![j] = [NewJob EXCEPT !.chunks = n, !.pending = n]]
      BY <1>0, <2>1 DEF Submit, Return
    <3>2. job'[j].chunks = n
      BY <1>0, <3>1 DEF NewJob
    <3>3. QED BY <3>2, RequesterKeeps DEF ServiceInv
  <2>2. CASE ~(Submit(j) /\ pc'[j] = "admitting")
    <3>1. pc'[j] = "admitting" => pc[j] = "admitting"
      BY <1>0, <2>2 DEF Environment, Disconnect, Expire, Requester, Admit,
         AnnounceAdmission, WaitTurn, Release, ActivateNext, EndRelease, Settle,
         AssembleWav, CleanupTake, CleanupFinish, Return, callVars
    <3>2. QED BY <3>1, RequesterKeeps DEF ServiceInv
  <2>3. QED BY <2>1, <2>2
<1>5. ASSUME NEW i \in Jobs, pc'[i] = "cleaning"
      PROVE  /\ outcome'[i] \in {"ok", "cancelled", "failed"}
             /\ outcome'[i] = "ok" => job'[i].written = 1..job'[i].chunks
  <2>1. CASE i # j \/ pc[j] = "cleaning"
    <3>1. pc[i] = "cleaning" /\ outcome'[i] = outcome[i]
      <4>1. CASE i # j
        BY <1>5, <4>1, RequesterKeeps
      <4>2. CASE i = j /\ pc[j] = "cleaning"
        BY <1>0, <4>2 DEF Environment, Disconnect, Expire, Requester, Submit, Admit,
           AnnounceAdmission, WaitTurn, Release, ActivateNext, EndRelease, Settle,
           AssembleWav, CleanupTake, CleanupFinish, callVars
      <4>3. QED BY <2>1, <4>1, <4>2
    <3>2. QED BY <3>1, RequesterKeeps DEF ServiceInv
  <2>2. CASE i = j /\ pc[j] # "cleaning"
    <3>1. Settle(j) \/ AssembleWav(j)
      BY <1>0, <1>5, <2>2 DEF Environment, Disconnect, Expire, Requester, Submit, Admit,
         AnnounceAdmission, WaitTurn, Release, ActivateNext, EndRelease, CleanupTake,
         CleanupFinish, Return, callVars
    <3>2. CASE Settle(j)
      BY <1>0, <1>5, <2>2, <3>2 DEF Settle
    <3>3. CASE AssembleWav(j)
      BY <1>0, <1>5, <2>2, <3>3 DEF AssembleWav, Return
    <3>4. QED BY <3>1, <3>2, <3>3
  <2>3. QED BY <2>1, <2>2
<1>6. QED BY <1>1, <1>3, <1>4, <1>5 DEF ServiceInv

LEMMA AllInvariant == Spec => []AllInv
<1>1. Init => ServiceInv
  <2> SUFFICES ASSUME Init PROVE ServiceInv
    OBVIOUS
  <2>1. \A w \in Workers : ~Busy(w)
    BY DEF Init, Busy, Ready
  <2>2. Len(<<>>) = 0
    OBVIOUS
  <2>3. QED BY <2>1, <2>2 DEF Init, ServiceInv
<1>2. IInv /\ ServiceInv /\ [Next]_vars => ServiceInv'
  <2> SUFFICES ASSUME IInv, ServiceInv, [Next]_vars PROVE ServiceInv'
    OBVIOUS
  <2>1. CASE UNCHANGED vars
    BY <2>1 DEF vars, queueVars, callVars, ServiceInv, Busy
  <2>2. QED BY <2>1, ServiceWorker, ServiceRequester DEF Next, Quiescent
<1>3. QED
  BY <1>1, <1>2, Inductive, ChunkInvariant, ActiveJobsExactHolds, CapacityUsedHolds, PTL
  DEF Spec, AllInv

-----------------------------------------------------------------------------
(* What the mapping makes of a state                                       *)

LEMMA PhaseIs ==
  ASSUME NEW j \in Jobs
  PROVE  /\ Phase(j) = "outside" <=> pc[j] \in {"idle", "admitting"}
         /\ Phase(j) = "serving" <=> Held(j) /\ job[j].activated
         /\ Phase(j) = "waiting" <=> Waiting(j)
         /\ Phase(j) = "answered" <=> pc[j] = "returned"
         /\ Phase(j) \in {"outside", "waiting", "serving", "leaving", "answered"}
BY DEF Phase, Waiting, Held

LEMMA SameCardinality == \A S : Service!Cardinality(S) = Cardinality(S)
BY DEF Service!Cardinality, Cardinality

LEMMA PlacesTaken ==
  /\ Service!In("serving") = ActiveJobs
  /\ ActiveJobsExact => (Service!Full <=> activeJobs >= maxJobs)
<1>1. Service!In("serving") = ActiveJobs
  BY PhaseIs DEF Service!In, servicePhase, ActiveJobs
<1>2. Service!Full <=> Cardinality(ActiveJobs) >= maxJobs
  BY <1>1, SameCardinality DEF Service!Full
<1>3. QED BY <1>1, <1>2 DEF ActiveJobsExact

\* Who waits is in the waiting queue, and what stands there has not got a place.
LEMMA WaitingQueued ==
  ASSUME AllInv, NEW j \in Jobs, Waiting(j)
  PROVE  InQueue(pendingJobs, j)
<1>1. LedgerOk(job[j], pc[j]) /\ job[j] \in JobState /\ Held(j) /\ ~job[j].done
      /\ ~Stopped(job[j]) /\ ~job[j].activated
  BY DEF AllInv, IInv, Accounts, JobInv, TypeInv, TypeOK, Waiting
<1>2. Holders(j) = {}
  BY <1>1 DEF AllInv, ServiceInv, Holders
<1>3. job[j].inFlight = 0
  BY <1>2, FS_EmptySet DEF AllInv, IInv, Accounts, HoldInv
<1>4. job[j].next < job[j].chunks
  BY <1>1, <1>3 DEF LedgerOk, Held, HeldAt, JobState
<1>5. InQueue(activeRoundRobin, j) \/ InQueue(pendingJobs, j)
  BY <1>1, <1>4 DEF Dispatchable, AllInv, IInv, Accounts, QueueInv
<1>6. ~InQueue(activeRoundRobin, j)
  BY <1>1 DEF InQueue, AllInv, IInv, Accounts, QueueInv
<1>7. QED BY <1>5, <1>6

\* A step is seen by the service as a move of at most one request.
LEMMA OneMoves ==
  ASSUME NEW j \in Jobs, \A i \in Jobs : i # j => Phase(i)' = Phase(i)
  PROVE  servicePhase' = [servicePhase EXCEPT ![j] = Phase(j)']
BY DEF servicePhase

LEMMA OneSpoken ==
  ASSUME NEW j \in Jobs, \A i \in Jobs : i # j => Unspoken(i)' = Unspoken(i)
  PROVE  serviceUnspoken' = [serviceUnspoken EXCEPT ![j] = Unspoken(j)']
BY DEF serviceUnspoken

\* The line, when nobody joins it and those who leave are at most j.
LEMMA LineShrinks ==
  ASSUME NEW j \in Jobs, UNCHANGED pendingJobs, ~Waiting(j)',
         \A i \in Jobs : i # j => (Waiting(i)' <=> Waiting(i))
  PROVE  serviceAhead' = {p \in serviceAhead : p[1] # j /\ p[2] # j}
BY DEF serviceAhead, Before

LEMMA LineStays ==
  ASSUME UNCHANGED pendingJobs, \A i \in Jobs : Waiting(i)' <=> Waiting(i)
  PROVE  serviceAhead' = serviceAhead
BY DEF serviceAhead, Before

-----------------------------------------------------------------------------
(* Every step is one of the service's, or none                             *)

LEMMA ServiceStutters ==
  ASSUME \A i \in Jobs : Phase(i)' = Phase(i),
         \A i \in Jobs : Unspoken(i)' = Unspoken(i),
         serviceAhead' = serviceAhead, serviceAnswer' = serviceAnswer
  PROVE  [Service!Next]_Service!vars
<1>1. servicePhase' = servicePhase /\ serviceUnspoken' = serviceUnspoken
  BY DEF servicePhase, serviceUnspoken
<1>2. QED BY <1>1 DEF Service!vars

\* A worker changes at most one job, which has a place, and what it adds to it
\* is at most one chunk that was missing.
LEMMA WorkerSpeaks ==
  ASSUME AllInv, NEW w \in Workers, Worker(w)
  PROVE  \/ UNCHANGED job
         \/ \E k \in Jobs, t \in {job'[i] : i \in Jobs} :
              /\ job' = [job EXCEPT ![k] = t]
              /\ Held(k) /\ job[k].activated /\ t.activated
              /\ t.chunks = job[k].chunks
              /\ \/ t.written = job[k].written
                 \/ \E c \in (1..job[k].chunks) \ job[k].written :
                      t.written = job[k].written \cup {c}
<1> DEFINE j == worker[w].job
           s == job[j]
<1>0. TypeInv /\ job \in [Jobs -> JobState] /\ IInv
  BY DEF AllInv, IInv, TypeInv, TypeOK
<1>1. CASE QuietWorker(w)
  BY <1>0, <1>1, QuietWorkerSame
<1>2. CASE DropAll(w)
  BY <1>2 DEF DropAll
<1>3. ASSUME NEW k \in Jobs, NEW t, job' = [job EXCEPT ![k] = t],
             Held(k), job[k].activated, t.activated, t.chunks = job[k].chunks,
             \/ t.written = job[k].written
             \/ \E c \in (1..job[k].chunks) \ job[k].written :
                  t.written = job[k].written \cup {c}
      PROVE  \E i \in Jobs, u \in {job'[n] : n \in Jobs} :
               /\ job' = [job EXCEPT ![i] = u]
               /\ Held(i) /\ job[i].activated /\ u.activated
               /\ u.chunks = job[i].chunks
               /\ \/ u.written = job[i].written
                  \/ \E c \in (1..job[i].chunks) \ job[i].written :
                       u.written = job[i].written \cup {c}
  <2>1. t = job'[k]
    BY <1>0, <1>3
  <2>2. t \in {job'[i] : i \in Jobs}
    BY <2>1
  <2>3. QED BY <1>3, <2>2
<1>4. CASE TakeChunk(w)
  <2>1. PICK n \in 1..Len(activeRoundRobin) :
          /\ Dispatchable(job[activeRoundRobin[n]])
          /\ job' = [job EXCEPT ![activeRoundRobin[n]] = Dispatched(job[activeRoundRobin[n]])]
    BY <1>4 DEF TakeChunk
  <2>2. PICK k \in Jobs : k = activeRoundRobin[n] /\ job[k].activated /\ Entered(k)
    BY <1>0 DEF IInv, TypeInv, TypeOK, Accounts, QueueInv
  <2>3. LedgerOk(job[k], pc[k]) /\ job[k] \in JobState /\ pc[k] \in CallStates
    BY <1>0 DEF IInv, Accounts, JobInv, TypeInv, TypeOK
  <2> DEFINE t == Dispatched(job[k])
  <2>4. /\ ~job[k].done /\ t.chunks = job[k].chunks
        /\ t.activated = job[k].activated /\ t.written = job[k].written
    BY <2>1, <2>2, <2>3, DispatchState
  <2>5. job' = [job EXCEPT ![k] = t] /\ Held(k)
    BY <2>1, <2>2, <2>4 DEF Entered
  <2> HIDE DEF t
  <2>6. QED BY <1>3, <2>2, <2>4, <2>5
<1>5. ASSUME Busy(w)
      PROVE  /\ j \in Jobs /\ s \in JobState /\ s.inFlight > 0 /\ Held(j) /\ s.activated
             /\ LedgerOk(s, pc[j]) /\ pc[j] \in CallStates
             /\ worker[w].chunk \in Nat /\ worker[w].thrown \in Exceptions
             /\ worker[w].chunk \in (1..s.chunks) \ s.written
  <2>1. /\ j \in Jobs /\ s \in JobState /\ s.inFlight > 0 /\ Held(j)
        /\ LedgerOk(s, pc[j]) /\ pc[j] \in CallStates
        /\ worker[w].chunk \in Nat /\ worker[w].thrown \in Exceptions
    BY <1>0, <1>5, HeldByWorker DEF IInv, Accounts, JobInv, HoldInv, TypeInv, TypeOK,
       WorkerState
  <2>2. s.activated
    BY <1>5 DEF AllInv, ServiceInv
  <2>3. worker[w].chunk \in 1..s.next /\ worker[w].chunk \notin s.written
    BY <1>5 DEF AllInv, ChunkInv, Located, ChunksDisjoint
  <2>4. s.next <= s.chunks /\ s.next \in Nat /\ s.chunks \in Nat
    BY <2>1 DEF LedgerOk, JobState
  <2>5. QED BY <2>1, <2>2, <2>3, <2>4
<1>6. CASE Begin(w) /\ Stopped(s)
  <2> DEFINE t == MarkChunkFinished(DropUndispatched(s))
  <2>1. Busy(w) /\ job' = [job EXCEPT ![j] = t]
    BY <1>6 DEF Begin, Busy, ShouldCancel
  <2>2. t.chunks = s.chunks /\ t.written = s.written /\ t.activated = s.activated
    BY <1>5, <1>6, <2>1, SkipState DEF Kept
  <2> HIDE DEF t
  <2>3. QED BY <1>3, <1>5, <2>1, <2>2
<1>7. CASE FinishChunk(w)
  <2> DEFINE t == MarkChunkFinished(Stored(s, worker[w].chunk))
  <2>1. Busy(w) /\ job' = [job EXCEPT ![j] = t]
    BY <1>7 DEF FinishChunk, Busy
  <2>2. /\ t.chunks = s.chunks /\ t.activated = s.activated
        /\ t.written = s.written \cup {worker[w].chunk}
    BY <1>5, <2>1, StoreState DEF Kept
  <2> HIDE DEF t
  <2>3. QED BY <1>3, <1>5, <2>1, <2>2
<1>8. CASE CatchChunk(w)
  <2> DEFINE t == MarkChunkFinished(DropUndispatched(MarkedByException(s, worker[w].thrown)))
  <2>1. Busy(w) /\ job' = [job EXCEPT ![j] = t]
    BY <1>8 DEF CatchChunk, Busy
  <2>2. t.chunks = s.chunks /\ t.written = s.written /\ t.activated = s.activated
    BY <1>5, <2>1, CatchState DEF Kept
  <2> HIDE DEF t
  <2>3. QED BY <1>3, <1>5, <2>1, <2>2
<1>9. QED
  BY <1>1, <1>2, <1>4, <1>6, <1>7, <1>8 DEF Worker, QuietWorker

LEMMA SimulateWorker ==
  ASSUME AllInv, NEW w \in Workers, Worker(w)
  PROVE  [Service!Next]_Service!vars
<1>0. job \in [Jobs -> JobState]
  BY DEF AllInv, IInv, TypeInv, TypeOK
<1>1. UNCHANGED <<pc, outcome, pendingJobs>>
  BY DEF Worker, Sleep, TakeChunk, DropAll, Begin, Checkout, OpenChunkFile, Infer,
     AudioCallback, CountJobBytes, FinishChunk, CatchChunk, queueVars, callVars
<1>2. serviceAnswer' = serviceAnswer /\ \A i \in Jobs : Held(i)' <=> Held(i)
  BY <1>1 DEF serviceAnswer, Held
<1>3. CASE UNCHANGED job
  <2>1. \A i \in Jobs : Waiting(i)' <=> Waiting(i)
    BY <1>2, <1>3 DEF Waiting
  <2>2. \A i \in Jobs : Phase(i)' = Phase(i)
    BY <1>1, <1>2, <1>3, <2>1 DEF Phase
  <2>3. \A i \in Jobs : Unspoken(i)' = Unspoken(i)
    BY <1>3, <2>2 DEF Unspoken
  <2>4. QED BY <1>1, <1>2, <2>1, <2>2, <2>3, LineStays, ServiceStutters
<1>4. ASSUME NEW k \in Jobs, NEW t,
             /\ job' = [job EXCEPT ![k] = t]
             /\ Held(k) /\ job[k].activated /\ t.activated
             /\ t.chunks = job[k].chunks
             /\ \/ t.written = job[k].written
                \/ \E c \in (1..job[k].chunks) \ job[k].written :
                     t.written = job[k].written \cup {c}
      PROVE  [Service!Next]_Service!vars
  <2>1. job'[k] = t /\ \A i \in Jobs : i # k => job'[i] = job[i]
    BY <1>0, <1>4
  <2>2. \A i \in Jobs : Waiting(i)' <=> Waiting(i)
    BY <1>2, <1>4, <2>1 DEF Waiting
  <2>3. \A i \in Jobs : Phase(i)' = Phase(i)
    <3>1. \A i \in Jobs : job'[i].activated <=> job[i].activated
      BY <1>4, <2>1
    <3>2. QED BY <1>1, <1>2, <2>2, <3>1 DEF Phase
  <2>4. Phase(k) = "serving" /\ Unspoken(k) = (1..job[k].chunks) \ job[k].written
        /\ Unspoken(k)' = (1..job'[k].chunks) \ job'[k].written
    BY <1>4, <2>3, PhaseIs DEF Unspoken
  <2>5. \A i \in Jobs : i # k => Unspoken(i)' = Unspoken(i)
    BY <2>1, <2>3 DEF Unspoken
  <2>6. serviceAhead' = serviceAhead
    BY <1>1, <2>2, LineStays
  <2>7. CASE t.written = job[k].written
    <3>1. Unspoken(k)' = Unspoken(k)
      BY <1>4, <2>1, <2>4, <2>7
    <3>2. QED BY <1>2, <2>3, <2>5, <2>6, <3>1, ServiceStutters
  <2>8. ASSUME NEW c \in (1..job[k].chunks) \ job[k].written,
               t.written = job[k].written \cup {c}
        PROVE  [Service!Next]_Service!vars
    <3>1. c \in Unspoken(k) /\ Unspoken(k)' = Unspoken(k) \ {c}
      BY <1>4, <2>1, <2>4, <2>8
    <3>2. servicePhase' = servicePhase /\ servicePhase[k] = "serving"
      BY <2>3, <2>4 DEF servicePhase
    <3>3. serviceUnspoken[k] = Unspoken(k)
          /\ serviceUnspoken' = [serviceUnspoken EXCEPT ![k] = Unspoken(k)']
      BY <2>5, OneSpoken DEF serviceUnspoken
    <3>4. Service!Speak(k)
      BY <1>2, <2>6, <3>1, <3>2, <3>3 DEF Service!Speak
    <3>5. QED BY <3>4 DEF Service!Next
  <2>9. QED BY <1>4, <2>7, <2>8
<1>5. QED BY <1>3, <1>4, WorkerSpeaks

\* Steps that change no job and no queue: where the requester gets to decides
\* what the service sees.
LEMMA SimulateMove ==
  ASSUME AllInv, NEW j \in Jobs, UNCHANGED <<job, pendingJobs>>,
         \A i \in Jobs : i # j => pc'[i] = pc[i] /\ outcome'[i] = outcome[i]
  PROVE  /\ \A i \in Jobs : i # j => Phase(i)' = Phase(i) /\ Unspoken(i)' = Unspoken(i)
         /\ \A i \in Jobs : i # j => (Waiting(i)' <=> Waiting(i))
         /\ \A i \in Jobs : i # j => serviceAnswer'[i] = serviceAnswer[i]
         /\ (Waiting(j)' <=> Waiting(j)) => serviceAhead' = serviceAhead
         /\ ~Waiting(j)' => serviceAhead' = {p \in serviceAhead : p[1] # j /\ p[2] # j}
<1>1. \A i \in Jobs : i # j => (Held(i)' <=> Held(i)) /\ (Waiting(i)' <=> Waiting(i))
  BY DEF Held, Waiting
<1>2. \A i \in Jobs : i # j => Phase(i)' = Phase(i)
  BY <1>1 DEF Phase
<1>3. \A i \in Jobs : i # j => Unspoken(i)' = Unspoken(i)
  BY <1>2 DEF Unspoken
<1>4. \A i \in Jobs : i # j => serviceAnswer'[i] = serviceAnswer[i]
  BY DEF serviceAnswer
<1>5. (Waiting(j)' <=> Waiting(j)) => serviceAhead' = serviceAhead
  BY <1>1, LineStays
<1>6. ~Waiting(j)' => serviceAhead' = {p \in serviceAhead : p[1] # j /\ p[2] # j}
  BY <1>1, LineShrinks
<1>7. QED BY <1>1, <1>2, <1>3, <1>4, <1>5, <1>6

\* The requester moves without leaving the phase it is in, or returning.
LEMMA SimulateQuiet ==
  ASSUME AllInv, NEW j \in Jobs, UNCHANGED <<job, pendingJobs>>,
         \A i \in Jobs : i # j => pc'[i] = pc[i] /\ outcome'[i] = outcome[i],
         \/ pc'[j] = pc[j] /\ outcome'[j] = outcome[j]
         \/ pc[j] = "announcing" /\ pc'[j] = "waiting"
         \/ /\ {pc[j], pc'[j]} \subseteq {"activating", "settling", "assembling", "cleaning"}
  PROVE  [Service!Next]_Service!vars
<1>1. (Held(j)' <=> Held(j)) /\ (Waiting(j)' <=> Waiting(j))
  BY DEF Held, Waiting
<1>2. Phase(j)' = Phase(j) /\ serviceAnswer'[j] = serviceAnswer[j]
  BY <1>1 DEF Phase, serviceAnswer
<1>3. Unspoken(j)' = Unspoken(j)
  BY <1>2 DEF Unspoken
<1>4. serviceAnswer' = serviceAnswer
  BY <1>2, SimulateMove DEF serviceAnswer
<1>5. QED BY <1>1, <1>2, <1>3, <1>4, SimulateMove, ServiceStutters

LEMMA SimulateEnvironment ==
  ASSUME AllInv, NEW j \in Jobs,
         \/ Environment(j) \/ AnnounceAdmission(j) \/ EndRelease(j) \/ Settle(j)
         \/ CleanupTake(j)
  PROVE  [Service!Next]_Service!vars
<1>1. UNCHANGED <<job, pendingJobs>>
  BY DEF Environment, Disconnect, Expire, AnnounceAdmission, EndRelease, Settle,
     CleanupTake, queueVars
<1>2. \A i \in Jobs : i # j => pc'[i] = pc[i] /\ outcome'[i] = outcome[i]
  BY RequesterKeeps DEF AllInv, Requester
<1>3. pc \in [Jobs -> CallStates]
  BY DEF AllInv, IInv, TypeInv, TypeOK
<1>4. \/ pc'[j] = pc[j] /\ outcome'[j] = outcome[j]
      \/ pc[j] = "announcing" /\ pc'[j] = "waiting"
      \/ {pc[j], pc'[j]} \subseteq {"activating", "settling", "assembling", "cleaning"}
  BY <1>3 DEF Environment, Disconnect, Expire, AnnounceAdmission, EndRelease, Settle,
     CleanupTake, callVars
<1>5. QED BY <1>1, <1>2, <1>4, SimulateQuiet

\* The end of a call: AssembleWav by exception, and CleanupFinish.
LEMMA SimulateReturn ==
  ASSUME AllInv, NEW j \in Jobs, AssembleWav(j) \/ CleanupFinish(j)
  PROVE  [Service!Next]_Service!vars
<1>0. /\ pc \in [Jobs -> CallStates] /\ outcome \in [Jobs -> Outcomes]
  BY DEF AllInv, IInv, TypeInv, TypeOK
<1>1. UNCHANGED <<job, pendingJobs>>
  BY DEF AssembleWav, CleanupFinish, queueVars
<1>2. \A i \in Jobs : i # j => pc'[i] = pc[i] /\ outcome'[i] = outcome[i]
  BY RequesterKeeps DEF AllInv, Requester
<1>3. pc[j] \in {"assembling", "cleaning"}
  BY DEF AssembleWav, CleanupFinish
<1>4. CASE pc'[j] = "cleaning"
  BY <1>1, <1>2, <1>3, <1>4, SimulateQuiet
<1>5. CASE pc'[j] = "returned"
  <2>1. /\ outcome'[j] \in {"ok", "cancelled", "failed", "assembly_failed"}
        /\ outcome'[j] = "ok" => job[j].written = 1..job[j].chunks
    <3>1. CASE AssembleWav(j)
      BY <1>0, <1>5, <3>1 DEF AssembleWav, Return
    <3>2. CASE CleanupFinish(j)
      BY <3>2 DEF CleanupFinish, AllInv, ServiceInv
    <3>3. QED BY <3>1, <3>2
  <2>2. ~Held(j) /\ ~Held(j)' /\ ~Waiting(j) /\ ~Waiting(j)'
    BY <1>3, <1>5 DEF Held, Waiting
  <2>3. Phase(j) = "leaving" /\ Phase(j)' = "answered"
    <3>1. Phase(j)' = "answered"
      BY <1>5, <2>2 DEF Phase
    <3>2. QED BY <1>3, <2>2, <3>1 DEF Phase
  <2>4. /\ servicePhase[j] = "leaving"
        /\ servicePhase' = [servicePhase EXCEPT ![j] = "answered"]
    BY <1>1, <1>2, <2>3, SimulateMove, OneMoves DEF servicePhase
  <2>5. /\ Unspoken(j)' = {}
        /\ outcome'[j] = "ok" => Unspoken(j) = {}
    BY <2>1, <2>3 DEF Unspoken
  <2>6. /\ serviceUnspoken' = [serviceUnspoken EXCEPT ![j] = {}]
        /\ outcome'[j] = "ok" => serviceUnspoken[j] = {}
    BY <1>1, <1>2, <2>5, SimulateMove, OneSpoken DEF serviceUnspoken
  <2>7. serviceAnswer' = [serviceAnswer EXCEPT ![j] = outcome'[j]]
    <3>1. serviceAnswer'[j] = outcome'[j] /\ serviceAnswer' \in [Jobs -> {serviceAnswer'[i] : i \in Jobs}]
      BY <1>5 DEF serviceAnswer
    <3>2. \A i \in Jobs : i # j => serviceAnswer'[i] = serviceAnswer[i]
      BY <1>1, <1>2, SimulateMove
    <3>3. QED BY <3>1, <3>2 DEF serviceAnswer
  <2>8. serviceAhead' = serviceAhead
    BY <1>1, <1>2, <2>2, SimulateMove
  <2>9. Service!Answer(j)
    BY <2>1, <2>4, <2>6, <2>7, <2>8 DEF Service!Answer, Service!Move
  <2>10. QED BY <2>9 DEF Service!Next
<1>6. QED
  <2>1. pc'[j] \in {"cleaning", "returned"}
    BY <1>0 DEF AssembleWav, CleanupFinish, Return
  <2>2. QED BY <1>4, <1>5, <2>1

LEMMA SimulateSubmit ==
  ASSUME AllInv, NEW j \in Jobs, Submit(j)
  PROVE  [Service!Next]_Service!vars
<1>0. /\ pc \in [Jobs -> CallStates] /\ outcome \in [Jobs -> Outcomes]
      /\ job \in [Jobs -> JobState] /\ pc[j] = "idle"
  BY DEF AllInv, IInv, TypeInv, TypeOK, Submit
<1>1. /\ UNCHANGED pendingJobs
      /\ \A i \in Jobs : i # j => /\ pc'[i] = pc[i] /\ outcome'[i] = outcome[i]
                                  /\ job'[i] = job[i]
  BY <1>0, RequesterKeeps DEF AllInv, Requester, Submit, queueVars
<1>2. pc'[j] \in {"admitting", "returned"}
  BY <1>0 DEF Submit, Return
<1>3. \A i \in Jobs : Waiting(i)' <=> Waiting(i)
  BY <1>0, <1>1, <1>2 DEF Waiting, Held
<1>4. \A i \in Jobs : i # j => Phase(i)' = Phase(i) /\ Unspoken(i)' = Unspoken(i)
  <2>1. \A i \in Jobs : i # j => Phase(i)' = Phase(i)
    BY <1>1, <1>3 DEF Phase, Held
  <2>2. QED BY <1>1, <2>1 DEF Unspoken
<1>5. serviceAhead' = serviceAhead
  BY <1>1, <1>3, LineStays
<1>6. Phase(j) = "outside" /\ Unspoken(j) = {}
  BY <1>0, PhaseIs DEF Unspoken
<1>7. CASE pc'[j] = "admitting"
  <2>1. Phase(j)' = "outside"
    BY <1>7 DEF Phase, Held, Waiting
  <2>2. Unspoken(j)' = {}
    BY <2>1 DEF Unspoken
  <2>3. serviceAnswer' = serviceAnswer
    BY <1>0, <1>1, <1>7 DEF serviceAnswer
  <2>4. QED BY <1>4, <1>5, <1>6, <2>1, <2>2, <2>3, ServiceStutters
<1>8. CASE pc'[j] = "returned"
  <2>1. outcome'[j] \in {"invalid", "cancelled"}
    BY <1>0, <1>8 DEF Submit, Return
  <2>2. Phase(j)' = "answered"
    BY <1>8 DEF Phase, Held, Waiting
  <2>3. Unspoken(j)' = {}
    BY <2>2 DEF Unspoken
  <2>4. servicePhase[j] = "outside" /\ servicePhase' = [servicePhase EXCEPT ![j] = "answered"]
    BY <1>4, <1>6, <2>2, OneMoves DEF servicePhase
  <2>5. serviceUnspoken' = serviceUnspoken
    BY <1>4, <1>6, <2>3 DEF serviceUnspoken
  <2>6. serviceAnswer' = [serviceAnswer EXCEPT ![j] = outcome'[j]]
    BY <1>1, <1>8 DEF serviceAnswer
  <2>7. Service!Refuse(j)
    BY <1>5, <2>1, <2>4, <2>5, <2>6 DEF Service!Refuse, Service!Move
  <2>8. QED BY <2>7 DEF Service!Next
<1>9. QED BY <1>2, <1>7, <1>8

\* A request that stops waiting, or gives its place back.
LEMMA SimulateLeave ==
  ASSUME AllInv, NEW j \in Jobs, UNCHANGED pendingJobs,
         \A i \in Jobs : i # j => /\ pc'[i] = pc[i] /\ outcome'[i] = outcome[i]
                                  /\ job'[i] = job[i],
         pc[j] # "returned", pc'[j] # "returned",
         Phase(j) \in {"waiting", "serving"}, Phase(j)' = "leaving",
         job'[j].chunks = job[j].chunks, job'[j].written = job[j].written
  PROVE  [Service!Next]_Service!vars
<1>1. \A i \in Jobs : i # j => (Waiting(i)' <=> Waiting(i))
  BY DEF Waiting, Held
<1>2. \A i \in Jobs : i # j => Phase(i)' = Phase(i)
  BY <1>1 DEF Phase, Held
<1>3. ~Waiting(j)'
  BY DEF Phase, Waiting, Held
<1>4. serviceAhead' = {p \in serviceAhead : p[1] # j /\ p[2] # j}
  BY <1>1, <1>3, LineShrinks
<1>5. serviceUnspoken' = serviceUnspoken
  <2>1. \A i \in Jobs : i # j => Unspoken(i)' = Unspoken(i)
    BY <1>2 DEF Unspoken
  <2>2. Unspoken(j)' = Unspoken(j)
    BY DEF Unspoken
  <2>3. QED BY <2>1, <2>2 DEF serviceUnspoken
<1>6. serviceAnswer' = serviceAnswer
  BY DEF serviceAnswer
<1>7. servicePhase' = [servicePhase EXCEPT ![j] = "leaving"]
      /\ servicePhase[j] \in {"waiting", "serving"}
  BY <1>2, OneMoves DEF servicePhase
<1>8. Service!Leave(j)
  BY <1>4, <1>5, <1>6, <1>7 DEF Service!Leave, Service!Move, Service!LeaveLine
<1>9. QED BY <1>8 DEF Service!Next

LEMMA SimulateWaitTurn ==
  ASSUME AllInv, NEW j \in Jobs, WaitTurn(j)
  PROVE  [Service!Next]_Service!vars
<1>0. /\ job \in [Jobs -> JobState] /\ pc[j] = "waiting" /\ ~job[j].done
      /\ UNCHANGED <<pc, outcome, pendingJobs>>
  BY DEF AllInv, IInv, TypeInv, TypeOK, WaitTurn, queueVars, callVars
<1> DEFINE polled == IF clientGone[j] THEN CancelledByClient(job[j]) ELSE job[j]
           t == IF TimeoutDue(j, polled) THEN TimedOut(polled) ELSE polled
<1>1. job' = [job EXCEPT ![j] = t] /\ (clientGone[j] \/ TimeoutDue(j, polled))
  BY DEF WaitTurn
<1>2. /\ t.chunks = job[j].chunks /\ t.written = job[j].written
      /\ t.activated = job[j].activated /\ Stopped(t)
  <2>1. polled \in JobState /\ job[j] \in JobState
    BY <1>0, StateTypes
  <2>2. /\ polled.chunks = job[j].chunks /\ polled.written = job[j].written
        /\ polled.activated = job[j].activated /\ (clientGone[j] => polled.cancelled)
    BY <2>1 DEF CancelledByClient, JobState
  <2>3. /\ TimedOut(polled).chunks = polled.chunks
        /\ TimedOut(polled).written = polled.written
        /\ TimedOut(polled).activated = polled.activated
        /\ TimedOut(polled).cancelled
    BY <2>1 DEF TimedOut, JobState
  <2> HIDE DEF polled
  <2>4. QED BY <1>1, <2>2, <2>3 DEF Stopped
<1> HIDE DEF t
<1>3. job'[j] = t /\ \A i \in Jobs : i # j => job'[i] = job[i]
  BY <1>0, <1>1
<1>4. Held(j) /\ Held(j)' /\ ~Waiting(j)'
  BY <1>0, <1>2, <1>3 DEF Held, Waiting
<1>5. CASE Waiting(j)
  <2>1. Phase(j) = "waiting"
    BY <1>5, PhaseIs
  <2>2. ~job'[j].activated
    BY <1>2, <1>3, <1>5 DEF Waiting
  <2>3. Phase(j)' = "leaving"
    BY <1>0, <1>4, <2>2 DEF Phase
  <2>4. QED BY <1>0, <1>2, <1>3, <2>1, <2>3, SimulateLeave
<1>6. CASE ~Waiting(j)
  <2>1. \A i \in Jobs : Waiting(i)' <=> Waiting(i)
    BY <1>0, <1>3, <1>4, <1>6 DEF Waiting, Held
  <2>2. \A i \in Jobs : (job'[i].activated <=> job[i].activated) /\ (Held(i)' <=> Held(i))
    BY <1>0, <1>2, <1>3 DEF Held
  <2>3. \A i \in Jobs : Phase(i)' = Phase(i)
    BY <1>0, <2>1, <2>2 DEF Phase
  <2>4. \A i \in Jobs : Unspoken(i)' = Unspoken(i)
    BY <1>2, <1>3, <2>3 DEF Unspoken
  <2>5. serviceAnswer' = serviceAnswer
    BY <1>0 DEF serviceAnswer
  <2>6. QED BY <1>0, <2>1, <2>3, <2>4, <2>5, LineStays, ServiceStutters
<1>7. QED BY <1>5, <1>6

LEMMA SimulateRelease ==
  ASSUME AllInv, NEW j \in Jobs, Release(j)
  PROVE  [Service!Next]_Service!vars
<1>0. /\ pc[j] = "waiting" /\ job[j].done /\ pc'[j] = "activating"
      /\ UNCHANGED <<job, outcome, pendingJobs>>
      /\ \A i \in Jobs : i # j => pc'[i] = pc[i]
  BY DEF AllInv, IInv, TypeInv, TypeOK, Release
<1>1. Held(j) /\ ~Held(j)' /\ ~Waiting(j) /\ ~Waiting(j)'
  BY <1>0 DEF Held, Waiting
<1>2. Phase(j)' = "leaving"
  BY <1>0, <1>1 DEF Phase
<1>3. CASE job[j].activated
  <2>1. Phase(j) = "serving"
    BY <1>1, <1>3, PhaseIs
  <2>2. QED BY <1>0, <1>2, <2>1, SimulateLeave
<1>4. CASE ~job[j].activated
  <2>1. Phase(j) = "leaving"
    BY <1>0, <1>1, <1>4 DEF Phase
  <2>2. Phase(j)' = Phase(j) /\ Unspoken(j)' = Unspoken(j)
    BY <1>0, <1>2, <2>1 DEF Unspoken
  <2>3. serviceAnswer' = serviceAnswer
    BY <1>0 DEF serviceAnswer
  <2>4. \A i \in Jobs : i # j => Phase(i)' = Phase(i) /\ Unspoken(i)' = Unspoken(i)
    BY <1>0, SimulateMove
  <2>5. serviceAhead' = serviceAhead
    BY <1>0, <1>1, SimulateMove
  <2>6. QED BY <2>2, <2>3, <2>4, <2>5, ServiceStutters
<1>5. QED BY <1>3, <1>4

LEMMA SimulateAdmit ==
  ASSUME AllInv, NEW j \in Jobs, Admit(j)
  PROVE  [Service!Next]_Service!vars
<1>0. /\ job \in [Jobs -> JobState] /\ pc \in [Jobs -> CallStates]
      /\ outcome \in [Jobs -> Outcomes] /\ pendingJobs \in Seq(Jobs)
      /\ activeJobs \in Nat /\ waitingJobs \in Nat
      /\ maxJobs \in Nat /\ queueSize \in Nat /\ maxJobs <= queueSize
  BY LimitsType DEF AllInv, IInv, TypeInv, TypeOK, queueSize, Larger
<1>1. /\ pc[j] = "admitting" /\ QueueMutexFree
      /\ \A i \in Jobs : i # j => pc'[i] = pc[i] /\ outcome'[i] = outcome[i]
  BY RequesterKeeps DEF AllInv, Requester, Admit
<1>2. /\ ~job[j].activated /\ ~Stopped(job[j]) /\ ~job[j].done /\ ~Held(j)
      /\ job[j].next = 0 /\ job[j].chunks \in 1..MaxChunks /\ job[j].written = {}
  <2>1. PhaseOk(job[j], pc[j]) /\ job[j].written \subseteq 1..job[j].next
    BY DEF AllInv, IInv, Accounts, JobInv, ChunkInv, Located
  <2>2. job[j].chunks \in 1..MaxChunks /\ ~Held(j)
    BY <1>1 DEF AllInv, ServiceInv, Held
  <2>3. QED BY <1>1, <2>1, <2>2 DEF PhaseOk
<1>3. pendingJobs = <<>> \/ activeJobs = maxJobs
  BY <1>1 DEF AllInv, CapacityUsed
<1>4. Service!Full <=> activeJobs >= maxJobs
  BY PlacesTaken DEF AllInv
<1>5. Phase(j) = "outside" /\ servicePhase[j] = "outside" /\ Unspoken(j) = {}
  BY <1>1, PhaseIs DEF servicePhase, Unspoken
<1>6. CASE UNCHANGED <<queueVars, job>> /\ Return(j, "rejected")
           /\ activeJobs + waitingJobs >= queueSize
  <2>1. pc'[j] = "returned" /\ outcome'[j] = "rejected"
    BY <1>0, <1>6 DEF Return
  <2>2. UNCHANGED <<job, pendingJobs>>
    BY <1>6 DEF queueVars
  <2>3. ~Waiting(j) /\ ~Waiting(j)' /\ Phase(j)' = "answered"
    BY <1>2, <2>1 DEF Waiting, Held, Phase
  <2>4. servicePhase' = [servicePhase EXCEPT ![j] = "answered"]
    BY <1>1, <2>2, <2>3, SimulateMove, OneMoves
  <2>5. serviceUnspoken' = serviceUnspoken
    <3>1. Unspoken(j)' = {}
      BY <2>3 DEF Unspoken
    <3>2. QED BY <1>1, <1>5, <2>2, <3>1, SimulateMove DEF serviceUnspoken
  <2>6. serviceAnswer' = [serviceAnswer EXCEPT ![j] = "rejected"]
    BY <1>1, <2>1 DEF serviceAnswer
  <2>7. serviceAhead' = serviceAhead
    BY <1>1, <2>2, <2>3, SimulateMove
  <2>8. Service!Full
    <3>1. waitingJobs <= Len(pendingJobs)
      BY DEF AllInv, ServiceInv
    <3>2. CASE pendingJobs = <<>>
      BY <1>0, <1>4, <1>6, <3>1, <3>2
    <3>3. QED BY <1>0, <1>3, <1>4, <3>2
  <2>9. Service!Refuse(j)
    BY <1>5, <2>4, <2>5, <2>6, <2>7, <2>8 DEF Service!Refuse, Service!Move
  <2>10. QED BY <2>9 DEF Service!Next
<1>7. ASSUME pc' = [pc EXCEPT ![j] = "announcing"], UNCHANGED outcome,
             \A i \in Jobs : i # j => job'[i] = job[i],
             job'[j].chunks = job[j].chunks, job'[j].written = {}
      PROVE  /\ Held(j)' /\ \A i \in Jobs : i # j => (Waiting(i)' <=> Waiting(i))
             /\ servicePhase' = [servicePhase EXCEPT ![j] = Phase(j)']
             /\ Phase(j)' \in {"serving", "waiting"} =>
                  serviceUnspoken' = [serviceUnspoken EXCEPT ![j] = 1..job[j].chunks]
             /\ serviceAnswer' = serviceAnswer
  <2>1. Held(j)' /\ \A i \in Jobs : i # j => (Held(i)' <=> Held(i))
    BY <1>0, <1>1, <1>7 DEF Held
  <2>2. \A i \in Jobs : i # j => (Waiting(i)' <=> Waiting(i))
    BY <1>7, <2>1 DEF Waiting
  <2>3. \A i \in Jobs : i # j => Phase(i)' = Phase(i)
    BY <1>1, <1>7, <2>1, <2>2 DEF Phase
  <2>4. \A i \in Jobs : i # j => Unspoken(i)' = Unspoken(i)
    BY <1>7, <2>3 DEF Unspoken
  <2>5. Phase(j)' \in {"serving", "waiting"} => Unspoken(j)' = 1..job[j].chunks
    BY <1>7 DEF Unspoken
  <2>6. serviceAnswer' = serviceAnswer
    BY <1>0, <1>1, <1>7 DEF serviceAnswer
  <2>7. servicePhase' = [servicePhase EXCEPT ![j] = Phase(j)']
    BY <2>3, OneMoves
  <2>8. serviceUnspoken' = [serviceUnspoken EXCEPT ![j] = Unspoken(j)']
    BY <2>4, OneSpoken
  <2>9. QED BY <2>1, <2>2, <2>5, <2>6, <2>7, <2>8
<1>8. CASE /\ pc' = [pc EXCEPT ![j] = "announcing"] /\ UNCHANGED outcome
           /\ activeJobs < maxJobs /\ job' = [job EXCEPT ![j].activated = TRUE]
           /\ UNCHANGED pendingJobs
  <2>1. /\ \A i \in Jobs : i # j => job'[i] = job[i]
        /\ job'[j].activated /\ job'[j].chunks = job[j].chunks /\ job'[j].written = {}
    BY <1>0, <1>2, <1>8 DEF JobState
  <2>2. Held(j)'
    BY <1>7, <1>8, <2>1
  <2>3. Phase(j)' = "serving" /\ ~Waiting(j)'
    BY <1>0, <1>8, <2>1, <2>2 DEF Phase, Waiting
  <2>4. \A i \in Jobs : Waiting(i)' <=> Waiting(i)
    BY <1>2, <1>7, <1>8, <2>1, <2>3 DEF Waiting
  <2>5. serviceAhead' = serviceAhead
    BY <1>8, <2>4, LineStays
  <2>6. Service!In("waiting") = {} /\ ~Service!Full
    <3>1. pendingJobs = <<>> /\ ~Service!Full
      BY <1>0, <1>3, <1>4, <1>8
    <3>2. \A i \in Jobs : ~Waiting(i)
      BY <3>1, WaitingQueued DEF InQueue
    <3>3. QED BY <3>1, <3>2, PhaseIs DEF Service!In, servicePhase
  <2>7. /\ servicePhase' = [servicePhase EXCEPT ![j] = "serving"]
        /\ serviceUnspoken' = [serviceUnspoken EXCEPT ![j] = 1..job[j].chunks]
        /\ serviceAnswer' = serviceAnswer
    BY <1>7, <1>8, <2>1, <2>3
  <2>8. Service!Enter(j)
    BY <1>2, <1>5, <2>5, <2>6, <2>7 DEF Service!Enter, Service!Move
  <2>9. QED BY <2>8 DEF Service!Next
<1>9. CASE /\ pc' = [pc EXCEPT ![j] = "announcing"] /\ UNCHANGED <<outcome, job>>
           /\ activeJobs >= maxJobs /\ pendingJobs' = Append(pendingJobs, j)
  <2>1. \A i \in Jobs : i # j => (Waiting(i)' <=> Waiting(i))
    BY <1>2, <1>7, <1>9
  <2>2. Held(j)' /\ Waiting(j)' /\ ~Waiting(j)
    BY <1>2, <1>7, <1>9 DEF Waiting
  <2>3. Phase(j)' = "waiting"
    BY <1>0, <1>2, <1>9, <2>2 DEF Phase
  <2>4. serviceAhead' = serviceAhead \cup (Service!In("waiting") \X {j})
    <3>1. /\ Len(pendingJobs) \in Nat /\ DOMAIN pendingJobs = 1..Len(pendingJobs)
          /\ DOMAIN pendingJobs' = 1..(Len(pendingJobs) + 1)
          /\ pendingJobs'[Len(pendingJobs) + 1] = j
          /\ \A a \in DOMAIN pendingJobs : pendingJobs'[a] = pendingJobs[a]
      BY <1>0, <1>9
    <3>2. \A a \in DOMAIN pendingJobs : pendingJobs[a] # j
      BY <1>2 DEF AllInv, IInv, Accounts, QueueInv, Entered
    <3>3. ASSUME NEW i \in Jobs, i # j
          PROVE  \A k \in Jobs : k # j => (Before(i, k)' <=> Before(i, k))
      BY <3>1, <3>3 DEF Before
    <3>4. \A k \in Jobs : ~Before(j, k)'
      BY <3>1, <3>2 DEF Before
    <3>5. \A i \in Jobs : i # j /\ Waiting(i) => Before(i, j)'
      <4>1. \A i \in Jobs : Waiting(i) => \E a \in DOMAIN pendingJobs : pendingJobs[a] = i
        BY WaitingQueued DEF InQueue
      <4>2. QED BY <3>1, <4>1 DEF Before
    <3>6. \A i \in Jobs : i \in Service!In("waiting") <=> Waiting(i)
      BY PhaseIs DEF Service!In, servicePhase
    <3>7. Service!In("waiting") \subseteq Jobs
      BY DEF Service!In
    <3>8. \A p \in Jobs \X Jobs :
            p \in serviceAhead' <=> p \in serviceAhead \cup (Service!In("waiting") \X {j})
      <4>1. TAKE p \in Jobs \X Jobs
      <4>2. PICK i \in Jobs, k \in Jobs : p = <<i, k>>
        OBVIOUS
      <4>3. p \in serviceAhead' <=> Waiting(i)' /\ Waiting(k)' /\ Before(i, k)'
        BY <4>2 DEF serviceAhead
      <4>4. p \in serviceAhead <=> Waiting(i) /\ Waiting(k) /\ Before(i, k)
        BY <4>2 DEF serviceAhead
      <4>5. p \in Service!In("waiting") \X {j} <=> Waiting(i) /\ k = j
        BY <3>6, <4>2
      <4>6. QED BY <2>1, <2>2, <3>3, <3>4, <3>5, <4>3, <4>4, <4>5
    <3>9. serviceAhead' \subseteq Jobs \X Jobs /\ serviceAhead \subseteq Jobs \X Jobs
      BY DEF serviceAhead
    <3>10. QED BY <3>7, <3>8, <3>9
  <2>5. Service!Full
    BY <1>4, <1>9
  <2>6. /\ servicePhase' = [servicePhase EXCEPT ![j] = "waiting"]
        /\ serviceUnspoken' = [serviceUnspoken EXCEPT ![j] = 1..job[j].chunks]
        /\ serviceAnswer' = serviceAnswer
    BY <1>2, <1>7, <1>9, <2>3
  <2>7. Service!Enter(j)
    BY <1>2, <1>5, <2>4, <2>5, <2>6 DEF Service!Enter, Service!Move
  <2>8. QED BY <2>7 DEF Service!Next
<1>10. QED BY <1>6, <1>8, <1>9 DEF Admit, queueVars

LEMMA SimulateActivateNext ==
  ASSUME AllInv, NEW j \in Jobs, ActivateNext(j)
  PROVE  [Service!Next]_Service!vars
<1>0. /\ job \in [Jobs -> JobState] /\ pendingJobs \in Seq(Jobs) /\ pendingJobs # <<>>
      /\ pendingJobs' = Tail(pendingJobs) /\ activeJobs < maxJobs
      /\ UNCHANGED <<pc, outcome>> /\ activeJobs \in Nat /\ maxJobs \in Nat
  BY LimitsType DEF AllInv, IInv, TypeInv, TypeOK, ActivateNext, MoreToActivate, callVars
<1>1. PICK p \in Jobs : p = Head(pendingJobs) /\ p = pendingJobs[1]
  BY <1>0
<1>2. /\ Len(pendingJobs) \in Nat \ {0} /\ DOMAIN pendingJobs = 1..Len(pendingJobs)
      /\ DOMAIN pendingJobs' = 1..(Len(pendingJobs) - 1)
      /\ \A a \in 1..(Len(pendingJobs) - 1) : pendingJobs'[a] = pendingJobs[a + 1]
  BY <1>0
<1>3. /\ ~job[p].activated /\ Entered(p)
      /\ \A a \in DOMAIN pendingJobs : pendingJobs[a] = p => a = 1
  BY <1>1, <1>2 DEF AllInv, IInv, Accounts, QueueInv
<1>4. \A i, k \in Jobs : i # p => (Before(i, k)' <=> Before(i, k))
  <2>1. ASSUME NEW i \in Jobs, NEW k \in Jobs, i # p, Before(i, k) PROVE Before(i, k)'
    <3>1. PICK a \in DOMAIN pendingJobs, b \in DOMAIN pendingJobs :
            a < b /\ pendingJobs[a] = i /\ pendingJobs[b] = k
      BY <2>1 DEF Before
    <3>2. a # 1 /\ a \in 1..Len(pendingJobs) /\ b \in 1..Len(pendingJobs)
      BY <1>1, <1>2, <2>1, <3>1
    <3>3. /\ a - 1 \in DOMAIN pendingJobs' /\ b - 1 \in DOMAIN pendingJobs'
          /\ a - 1 < b - 1 /\ (a - 1) + 1 = a /\ (b - 1) + 1 = b
      BY <1>2, <3>1, <3>2
    <3>4. pendingJobs'[a - 1] = i /\ pendingJobs'[b - 1] = k
      BY <1>2, <3>1, <3>3
    <3>5. QED BY <3>3, <3>4 DEF Before
  <2>2. ASSUME NEW i \in Jobs, NEW k \in Jobs, Before(i, k)' PROVE Before(i, k)
    <3>1. PICK a \in DOMAIN pendingJobs', b \in DOMAIN pendingJobs' :
            a < b /\ pendingJobs'[a] = i /\ pendingJobs'[b] = k
      BY <2>2 DEF Before
    <3>2. /\ a + 1 \in DOMAIN pendingJobs /\ b + 1 \in DOMAIN pendingJobs
          /\ a + 1 < b + 1 /\ pendingJobs[a + 1] = i /\ pendingJobs[b + 1] = k
      BY <1>2, <3>1
    <3>3. QED BY <3>2 DEF Before
  <2>3. QED BY <2>1, <2>2
<1>5. \A i \in Jobs : ~Before(i, p)
  BY <1>2, <1>3 DEF Before
<1>6. \A i \in Jobs : Held(i)' <=> Held(i)
  BY <1>0 DEF Held
<1>7. serviceAnswer' = serviceAnswer
  BY <1>0 DEF serviceAnswer
<1>8. CASE UNCHANGED job /\ (job[p].done \/ Stopped(job[p]))
  <2>1. ~Waiting(p) /\ \A i \in Jobs : Waiting(i)' <=> Waiting(i)
    BY <1>6, <1>8 DEF Waiting
  <2>2. \A i \in Jobs : Phase(i)' = Phase(i)
    BY <1>0, <1>6, <1>8, <2>1 DEF Phase
  <2>3. \A i \in Jobs : Unspoken(i)' = Unspoken(i)
    BY <1>8, <2>2 DEF Unspoken
  <2>4. serviceAhead' = serviceAhead
    <3>1. \A q \in Jobs \X Jobs : q \in serviceAhead' <=> q \in serviceAhead
      <4>1. TAKE q \in Jobs \X Jobs
      <4>2. PICK i \in Jobs, k \in Jobs : q = <<i, k>>
        OBVIOUS
      <4>3. q \in serviceAhead' <=> Waiting(i)' /\ Waiting(k)' /\ Before(i, k)'
        BY <4>2 DEF serviceAhead
      <4>4. q \in serviceAhead <=> Waiting(i) /\ Waiting(k) /\ Before(i, k)
        BY <4>2 DEF serviceAhead
      <4>5. QED BY <1>4, <2>1, <4>3, <4>4
    <3>2. serviceAhead' \subseteq Jobs \X Jobs /\ serviceAhead \subseteq Jobs \X Jobs
      BY DEF serviceAhead
    <3>3. QED BY <3>1, <3>2
  <2>5. QED BY <1>7, <2>2, <2>3, <2>4, ServiceStutters
<1>9. CASE /\ ~job[p].done /\ ~Stopped(job[p])
           /\ job' = [job EXCEPT ![p].activated = TRUE]
  <2>1. /\ \A i \in Jobs : i # p => job'[i] = job[i]
        /\ job'[p].activated /\ job'[p].chunks = job[p].chunks
        /\ job'[p].written = job[p].written
    <3>1. job'[p] = [job[p] EXCEPT !.activated = TRUE] /\ job[p] \in JobState
      BY <1>0, <1>9
    <3>2. QED BY <1>0, <1>9, <3>1 DEF JobState
  <2>2. Held(p) /\ Waiting(p) /\ ~Waiting(p)'
    BY <1>3, <1>9, <2>1 DEF Entered, Waiting
  <2>3. \A i \in Jobs : i # p => (Waiting(i)' <=> Waiting(i))
    BY <1>6, <2>1 DEF Waiting
  <2>4. \A i \in Jobs : i # p => Phase(i)' = Phase(i)
    BY <1>0, <1>6, <2>1, <2>3 DEF Phase
  <2>5. Phase(p) = "waiting" /\ Phase(p)' = "serving"
    <3>1. Held(p)' /\ pc[p] \in {"announcing", "waiting"} /\ pc'[p] = pc[p]
      BY <1>0, <1>6, <2>2 DEF Held
    <3>2. QED BY <2>1, <2>2, <3>1, PhaseIs DEF Phase
  <2>6. \A i \in Jobs : Unspoken(i)' = Unspoken(i)
    <3>1. \A i \in Jobs : i # p => Unspoken(i)' = Unspoken(i)
      BY <2>1, <2>4 DEF Unspoken
    <3>2. Unspoken(p)' = Unspoken(p)
      BY <2>1, <2>5 DEF Unspoken
    <3>3. QED BY <3>1, <3>2
  <2>7. /\ servicePhase[p] = "waiting"
        /\ servicePhase' = [servicePhase EXCEPT ![p] = "serving"]
        /\ serviceUnspoken' = serviceUnspoken
    BY <2>4, <2>5, <2>6, OneMoves DEF servicePhase, serviceUnspoken
  <2>8. \A q \in serviceAhead : q[2] # p
    BY <1>5 DEF serviceAhead
  <2>9. serviceAhead' = {q \in serviceAhead : q[1] # p /\ q[2] # p}
    <3>1. \A q \in Jobs \X Jobs :
            q \in serviceAhead' <=> q \in serviceAhead /\ q[1] # p /\ q[2] # p
      <4>1. TAKE q \in Jobs \X Jobs
      <4>2. PICK i \in Jobs, k \in Jobs : q = <<i, k>>
        OBVIOUS
      <4>3. q \in serviceAhead' <=> Waiting(i)' /\ Waiting(k)' /\ Before(i, k)'
        BY <4>2 DEF serviceAhead
      <4>4. q \in serviceAhead <=> Waiting(i) /\ Waiting(k) /\ Before(i, k)
        BY <4>2 DEF serviceAhead
      <4>5. q[1] = i /\ q[2] = k
        BY <4>2
      <4>6. QED BY <1>4, <2>2, <2>3, <4>3, <4>4, <4>5
    <3>2. serviceAhead' \subseteq Jobs \X Jobs /\ serviceAhead \subseteq Jobs \X Jobs
      BY DEF serviceAhead
    <3>3. QED BY <3>1, <3>2
  <2>10. ~Service!Full
    BY <1>0, PlacesTaken DEF AllInv
  <2>11. Service!Promote(p)
    BY <1>7, <2>7, <2>8, <2>9, <2>10
    DEF Service!Promote, Service!Move, Service!LeaveLine
  <2>12. QED BY <2>11 DEF Service!Next
<1>10. QED BY <1>1, <1>8, <1>9 DEF ActivateNext

-----------------------------------------------------------------------------

LEMMA SimulateStep == AllInv /\ [Next]_vars => [Service!Next]_Service!vars
<1> SUFFICES ASSUME AllInv, [Next]_vars PROVE [Service!Next]_Service!vars
  OBVIOUS
<1>1. ASSUME NEW j \in Jobs, Environment(j) \/ Requester(j)
      PROVE  [Service!Next]_Service!vars
  BY <1>1, SimulateEnvironment, SimulateReturn, SimulateSubmit, SimulateWaitTurn,
     SimulateRelease, SimulateAdmit, SimulateActivateNext DEF Requester
<1>2. CASE UNCHANGED vars
  <2>1. UNCHANGED <<job, pc, outcome, pendingJobs>>
    BY <1>2 DEF vars, queueVars, callVars
  <2>2. \A i \in Jobs : (Held(i)' <=> Held(i)) /\ (Waiting(i)' <=> Waiting(i))
    BY <2>1 DEF Held, Waiting
  <2>3. \A i \in Jobs : Phase(i)' = Phase(i)
    BY <2>1, <2>2 DEF Phase
  <2>4. \A i \in Jobs : Unspoken(i)' = Unspoken(i)
    BY <2>1, <2>3 DEF Unspoken
  <2>5. serviceAnswer' = serviceAnswer
    BY <2>1 DEF serviceAnswer
  <2>6. QED BY <2>1, <2>2, <2>3, <2>4, <2>5, LineStays, ServiceStutters
<1>3. QED BY <1>1, <1>2, SimulateWorker DEF Next, Quiescent

LEMMA SimulateInit == Init => Service!Init
<1> SUFFICES ASSUME Init PROVE Service!Init
  OBVIOUS
<1>1. \A j \in Jobs : Phase(j) = "outside"
  BY PhaseIs DEF Init
<1>2. \A j \in Jobs : Unspoken(j) = {}
  BY <1>1 DEF Unspoken
<1>3. serviceAhead = {}
  BY DEF serviceAhead, Waiting, Held, Init
<1>4. serviceAnswer = [j \in Jobs |-> "none"]
  BY DEF serviceAnswer, Init
<1>5. QED
  BY <1>1, <1>2, <1>3, <1>4 DEF Service!Init, servicePhase, serviceUnspoken

\* The scheduler implements the service: every behaviour of it, whatever the
\* number of requests, workers and chunks and the limits, gives out places in
\* order of arrival, refuses nobody for lack of room while a place is free, and
\* answers success only for a text that was spoken whole.
THEOREM ServiceImplemented == Spec => ImplementsService
<1>1. AllInv /\ [Next]_vars => [Service!Next]_Service!vars
  BY SimulateStep
<1>2. QED
  BY <1>1, SimulateInit, AllInvariant, PTL DEF Spec, ImplementsService, Service!Spec
=============================================================================
