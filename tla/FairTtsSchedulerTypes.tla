------------------------ MODULE FairTtsSchedulerTypes ------------------------
(***************************************************************************)
(* Type correctness of FairTtsScheduler, proved for every number of        *)
(* requests, workers and chunks and every setting of the limits.           *)
(***************************************************************************)
EXTENDS FairTtsScheduler, FiniteSetTheorems, SequenceTheorems, TLAPS

-----------------------------------------------------------------------------
(* Types                                                                   *)

\* A worker about to write or that has just written has a buffer to write.
WriteInv ==
  \A w \in Workers : worker[w].stage \in {"write", "counted"} => worker[w].left > 0

TypeInv == TypeOK /\ WriteInv

LEMMA LimitsType ==
  /\ maxJobs \in Nat \ {0}
  /\ queueSize \in Nat
  /\ MaxChunks \in Nat /\ MaxWrites \in Nat /\ MaxTempBytes \in Nat
BY SchedulerAssumption DEF SchedulerAssumption, maxJobs, queueSize, Larger

\* The operators on one JobState give a JobState.
LEMMA StateTypes ==
  ASSUME NEW s \in JobState
  PROVE  /\ MarkChunkFinished(s) \in JobState
         /\ DropUndispatched(s) \in JobState
         /\ Dispatched(s) \in JobState
         /\ CancelledByClient(s) \in JobState
         /\ TimedOut(s) \in JobState
         /\ \A t : MarkedByException(s, t) \in JobState
         /\ [s EXCEPT !.activated = TRUE] \in JobState
<1>0. /\ s.next \in Nat /\ s.pending \in Nat /\ s.inFlight \in Nat
      /\ s.done \in BOOLEAN
  BY DEF JobState
<1>1. MarkChunkFinished(s) \in JobState
  <2> DEFINE n == Decrement(s.inFlight)
             p == Decrement(s.pending)
             d == s.done \/ (p = 0 /\ n = 0)
  <2>1. n \in Nat /\ p \in Nat
    BY <1>0 DEF Decrement
  <2>2. d \in BOOLEAN
    BY <1>0
  <2>3. MarkChunkFinished(s) = [s EXCEPT !.inFlight = n, !.pending = p, !.done = d]
    BY DEF MarkChunkFinished
  <2> HIDE DEF n, p, d
  <2>4. QED BY <2>1, <2>2, <2>3 DEF JobState
<1>2. DropUndispatched(s) \in JobState
  BY DEF DropUndispatched, JobState
<1>3. Dispatched(s) \in JobState
  <2>1. s.next + 1 \in Nat /\ s.inFlight + 1 \in Nat
    BY <1>0
  <2>2. QED BY <2>1 DEF Dispatched, JobState
<1>4. CancelledByClient(s) \in JobState
  BY DEF CancelledByClient, JobState
<1>5. TimedOut(s) \in JobState
  BY DEF TimedOut, JobState
<1>6. ASSUME NEW t PROVE MarkedByException(s, t) \in JobState
  BY DEF MarkedByException, JobState
<1>7. [s EXCEPT !.activated = TRUE] \in JobState
  BY DEF JobState
<1>8. QED BY <1>1, <1>2, <1>3, <1>4, <1>5, <1>6, <1>7

LEMMA SubmittedTypes ==
  ASSUME NEW n \in Nat
  PROVE  [NewJob EXCEPT !.chunks = n, !.pending = n] \in JobState
BY DEF NewJob, JobState

LEMMA QueueTypes ==
  ASSUME NEW q \in Seq(Jobs), NEW j \in Jobs
  PROVE  Append(q, j) \in Seq(Jobs)
BY AppendProperties

LEMMA StoredTypes ==
  ASSUME NEW s \in JobState, NEW n \in Nat
  PROVE  Stored(s, n) \in JobState
BY DEF Stored, JobState

\* A notification leaves the workers that hold a chunk as they are.
LEMMA NotifyTypes ==
  ASSUME TypeInv, NotifyWorkers
  PROVE  /\ worker' \in [Workers -> WorkerState]
         /\ WriteInv'
         /\ \A w \in Workers : Busy(w)' = Busy(w) /\ (Busy(w) => worker'[w] = worker[w])
BY DEF TypeInv, TypeOK, WriteInv, NotifyWorkers, WorkerState, Stages, Exceptions,
       Ready, Busy

LEMMA TypeInit == Init => TypeInv
BY DEF Init, TypeInv, TypeOK, WriteInv, NewJob, JobState, Ready, WorkerState,
       Stages, Exceptions, CallStates, Outcomes

LEMMA RequesterTypes ==
  ASSUME TypeInv, NEW j \in Jobs, Requester(j)
  PROVE  TypeInv'
<1> USE DEF TypeInv, TypeOK
<1>1. CASE Submit(j)
  <2>1. job' \in [Jobs -> JobState]
    <3>1. CASE UNCHANGED job
      BY <3>1
    <3>2. ASSUME NEW n \in 1..MaxChunks,
                 job' = [job EXCEPT ![j] = [NewJob EXCEPT !.chunks = n, !.pending = n]]
          PROVE  job' \in [Jobs -> JobState]
      <4>1. [NewJob EXCEPT !.chunks = n, !.pending = n] \in JobState
        <5>1. n \in Nat
          BY LimitsType
        <5>2. QED BY <5>1, SubmittedTypes
      <4>2. QED BY <3>2, <4>1
    <3>3. QED BY <1>1, <3>1, <3>2 DEF Submit
  <2>2. /\ pc' \in [Jobs -> CallStates]
        /\ outcome' \in [Jobs -> Outcomes]
        /\ tempDir' \in [Jobs -> BOOLEAN]
    BY <1>1 DEF Submit, Return, CallStates, Outcomes
  <2>3. QED
    BY <1>1, <2>1, <2>2 DEF Submit, queueVars, envVars, WriteInv
<1>2. CASE Admit(j)
  <2>1. job' \in [Jobs -> JobState]
    <3>1. [job[j] EXCEPT !.activated = TRUE] \in JobState
      BY StateTypes
    <3>2. job' = job \/ job' = [job EXCEPT ![j] = [job[j] EXCEPT !.activated = TRUE]]
      BY <1>2 DEF Admit
    <3>3. QED BY <3>1, <3>2
  <2>2. activeRoundRobin' \in Seq(Jobs) /\ pendingJobs' \in Seq(Jobs)
    <3>1. /\ activeRoundRobin' = activeRoundRobin \/ activeRoundRobin' = Append(activeRoundRobin, j)
          /\ pendingJobs' = pendingJobs \/ pendingJobs' = Append(pendingJobs, j)
      BY <1>2 DEF Admit, queueVars
    <3>2. QED BY <3>1, QueueTypes
  <2>3. activeJobs' \in Nat /\ waitingJobs' \in Nat
    BY <1>2 DEF Admit, queueVars
  <2>4. pc' \in [Jobs -> CallStates] /\ outcome' \in [Jobs -> Outcomes]
    BY <1>2 DEF Admit, Return, CallStates, Outcomes
  <2>5. QED
    BY <1>2, <2>1, <2>2, <2>3, <2>4 DEF Admit, envVars, tempVars, WriteInv
<1>3. CASE AnnounceAdmission(j)
  BY <1>3, NotifyTypes DEF AnnounceAdmission, CallStates, queueVars, envVars, tempVars
<1>4. CASE WaitTurn(j)
  <2>1. job' \in [Jobs -> JobState]
    BY <1>4, StateTypes DEF WaitTurn
  <2>2. QED
    BY <1>4, <2>1, NotifyTypes DEF WaitTurn, queueVars, callVars, envVars, tempVars
<1>5. CASE Release(j)
  BY <1>5 DEF Release, Decrement, CallStates, envVars, tempVars, WriteInv
<1>6. CASE ActivateNext(j)
  <2> DEFINE p == Head(pendingJobs)
  <2>1. p \in Jobs /\ pendingJobs' \in Seq(Jobs)
    BY <1>6, HeadTailProperties DEF ActivateNext, MoreToActivate
  <2>2. \/ UNCHANGED <<activeJobs, activeRoundRobin, job>>
        \/ /\ job' = [job EXCEPT ![p] = [job[p] EXCEPT !.activated = TRUE]]
           /\ activeJobs' = activeJobs + 1
           /\ activeRoundRobin' = Append(activeRoundRobin, p)
    BY <1>6 DEF ActivateNext
  <2> HIDE DEF p
  <2>3. [job[p] EXCEPT !.activated = TRUE] \in JobState
    BY <2>1, StateTypes
  <2>4. job' \in [Jobs -> JobState]
    BY <2>2, <2>3
  <2>5. activeRoundRobin' \in Seq(Jobs) /\ activeJobs' \in Nat
    <3>1. Append(activeRoundRobin, p) \in Seq(Jobs)
      BY <2>1, QueueTypes
    <3>2. activeRoundRobin' = activeRoundRobin
          \/ activeRoundRobin' = Append(activeRoundRobin, p)
      BY <2>2
    <3>3. activeRoundRobin' \in Seq(Jobs)
      BY <3>1, <3>2
    <3>4. activeJobs' \in Nat
      BY <2>2
    <3>5. QED BY <3>3, <3>4
  <2>6. waitingJobs' \in Nat
    BY <1>6 DEF ActivateNext, Decrement
  <2>7. QED
    BY <1>6, <2>1, <2>4, <2>5, <2>6 DEF ActivateNext, callVars, envVars, tempVars, WriteInv
<1>7. CASE EndRelease(j)
  BY <1>7 DEF EndRelease, CallStates, queueVars, envVars, tempVars, WriteInv
<1>8. CASE Settle(j)
  BY <1>8, NotifyTypes DEF Settle, CallStates, Outcomes, queueVars, envVars, tempVars
<1>9. CASE AssembleWav(j)
  BY <1>9 DEF AssembleWav, Return, CallStates, Outcomes, queueVars, envVars, tempVars,
     WriteInv
<1>10. CASE CleanupTake(j)
  BY <1>10 DEF CleanupTake, queueVars, callVars, envVars, WriteInv
<1>11. CASE CleanupFinish(j)
  BY <1>11 DEF CleanupFinish, CallStates, queueVars, envVars, WriteInv
<1>12. QED
  BY <1>1, <1>2, <1>3, <1>4, <1>5, <1>6, <1>7, <1>8, <1>9, <1>10, <1>11 DEF Requester

\* The shapes that a worker's step gives to its state.
LEMMA AdvanceTypes ==
  ASSUME TypeInv, NEW w \in Workers, NEW st \in Stages, Advance(w, st),
         st \in {"write", "counted"} => worker[w].left > 0
  PROVE  worker' \in [Workers -> WorkerState] /\ WriteInv'
<1>1. worker \in [Workers -> WorkerState]
  BY DEF TypeInv, TypeOK
<1>2. worker' = [worker EXCEPT ![w] = [worker[w] EXCEPT !.stage = st]]
  BY DEF Advance
<1>3. /\ [worker[w] EXCEPT !.stage = st] \in WorkerState
      /\ [worker[w] EXCEPT !.stage = st].stage = st
      /\ [worker[w] EXCEPT !.stage = st].left = worker[w].left
  BY <1>1 DEF WorkerState
<1>4. QED BY <1>1, <1>2, <1>3 DEF TypeInv, WriteInv

LEMMA ThrowTypes ==
  ASSUME TypeInv, NEW w \in Workers, NEW st \in Stages, NEW x \in Exceptions,
         worker' = [worker EXCEPT ![w].stage = st, ![w].thrown = x],
         st \in {"write", "counted"} => worker[w].left > 0
  PROVE  worker' \in [Workers -> WorkerState] /\ WriteInv'
<1>1. worker \in [Workers -> WorkerState]
  BY DEF TypeInv, TypeOK
<1> DEFINE v == [worker[w] EXCEPT !.stage = st, !.thrown = x]
<1>2. worker' = [worker EXCEPT ![w] = v]
  OBVIOUS
<1>3. v \in WorkerState /\ v.stage = st /\ v.left = worker[w].left
  BY <1>1 DEF WorkerState
<1>4. QED BY <1>1, <1>2, <1>3 DEF TypeInv, WriteInv

LEMMA LeftTypes ==
  ASSUME TypeInv, NEW w \in Workers, NEW st \in {"infer", "finish"}, NEW n \in Nat,
         worker' = [worker EXCEPT ![w].stage = st, ![w].left = n]
  PROVE  worker' \in [Workers -> WorkerState] /\ WriteInv'
<1>1. worker \in [Workers -> WorkerState]
  BY DEF TypeInv, TypeOK
<1> DEFINE v == [worker[w] EXCEPT !.stage = st, !.left = n]
<1>2. worker' = [worker EXCEPT ![w] = v]
  OBVIOUS
<1>3. st \in Stages
  BY DEF Stages
<1>4. v \in WorkerState /\ v.stage = st
  BY <1>1, <1>3 DEF WorkerState
<1>5. QED BY <1>1, <1>2, <1>4 DEF TypeInv, WriteInv

LEMMA ReadyTypes ==
  ASSUME TypeInv, NEW w \in Workers, worker' = [worker EXCEPT ![w] = Ready]
  PROVE  worker' \in [Workers -> WorkerState] /\ WriteInv'
<1>1. Ready \in WorkerState /\ Ready.stage = "ready"
  BY DEF Ready, WorkerState, Stages, Exceptions
<1>2. QED BY <1>1 DEF TypeInv, TypeOK, WriteInv

LEMMA WorkerTypes ==
  ASSUME TypeInv, NEW w \in Workers, Worker(w)
  PROVE  TypeInv'
<1>0. /\ worker \in [Workers -> WorkerState]
      /\ job \in [Jobs -> JobState]
      /\ worker[w].left \in Nat /\ worker[w].chunk \in Nat
      /\ worker[w].thrown \in Exceptions
  BY DEF TypeInv, TypeOK, WorkerState
<1>a. {"asleep", "lease", "leased", "infer", "write", "counted", "finish", "throw"}
        \subseteq Stages
  BY DEF Stages
<1>b. {"synthesis_cancelled", "error", "temp_storage_full", "none"} \subseteq Exceptions
  BY DEF Exceptions
<1> SUFFICES /\ worker' \in [Workers -> WorkerState] /\ WriteInv'
             /\ job' \in [Jobs -> JobState]
             /\ activeRoundRobin' \in Seq(Jobs)
             /\ allocated' \in [Jobs -> Nat]
             /\ tempStorageBytes' \in Int
  BY DEF Worker, Sleep, TakeChunk, DropAll, Begin, Checkout, OpenChunkFile, Infer,
     AudioCallback, CountJobBytes, FinishChunk, CatchChunk,
     queueVars, callVars, envVars, tempVars, TypeInv, TypeOK
<1>1. CASE Sleep(w)
  <2>1. worker' \in [Workers -> WorkerState] /\ WriteInv'
    BY <1>1, <1>a, AdvanceTypes DEF Sleep, Advance
  <2>2. QED
    BY <1>1, <2>1 DEF Sleep, TypeInv, TypeOK, queueVars, tempVars
<1>2. CASE TakeChunk(w)
  <2>1. PICK k \in 1..Len(activeRoundRobin) :
          LET j    == activeRoundRobin[k]
              rest == SubSeq(activeRoundRobin, k + 1, Len(activeRoundRobin))
          IN  /\ job' = [job EXCEPT ![j] = Dispatched(job[j])]
              /\ activeRoundRobin' = Requeued(rest, j)
              /\ worker' = [worker EXCEPT ![w] =
                              [Ready EXCEPT !.stage = "begin", !.job = j,
                                            !.chunk = job[j].next + 1]]
    BY <1>2 DEF TakeChunk
  <2> DEFINE j == activeRoundRobin[k]
             rest == SubSeq(activeRoundRobin, k + 1, Len(activeRoundRobin))
             taken == [Ready EXCEPT !.stage = "begin", !.job = j, !.chunk = job[j].next + 1]
  <2>2. /\ activeRoundRobin \in Seq(Jobs)
        /\ Len(activeRoundRobin) \in Nat
        /\ \A i \in 1..Len(activeRoundRobin) : activeRoundRobin[i] \in Jobs
    BY DEF TypeInv, TypeOK
  <2>3. rest \in Seq(Jobs)
    BY <2>2, SubSeqProperties
  <2>4. activeRoundRobin' \in Seq(Jobs)
    BY <2>1, <2>2, <2>3 DEF Requeued
  <2>5. job' \in [Jobs -> JobState]
    BY <1>0, <2>1, <2>2, StateTypes
  <2>6. taken \in WorkerState
    <3>1. j \in Jobs /\ job[j].next + 1 \in Nat
      <4>1. PICK i \in Jobs : i = j
        BY <2>2
      <4>2. job[i] \in JobState
        BY <1>0
      <4>3. job[i].next \in Nat
        BY <4>2 DEF JobState
      <4>4. job[i].next + 1 \in Nat
        BY <4>3
      <4> HIDE DEF j
      <4>5. QED BY <4>1, <4>4
    <3>2. QED BY <3>1 DEF Ready, WorkerState, Stages, Exceptions
  <2>7. taken.stage = "begin"
    BY DEF Ready
  <2>8. worker' \in [Workers -> WorkerState] /\ WriteInv'
    BY <1>0, <2>1, <2>6, <2>7 DEF TypeInv, WriteInv
  <2>9. QED
    BY <1>2, <2>4, <2>5, <2>8 DEF TakeChunk, tempVars, TypeInv, TypeOK
<1>3. CASE DropAll(w)
  BY <1>3 DEF DropAll, tempVars, TypeInv, TypeOK, WriteInv
<1>4. CASE Begin(w)
  <2>1. job' \in [Jobs -> JobState]
    <3> DEFINE i == worker[w].job
    <3>1. job' = job
          \/ job' = [job EXCEPT ![i] = MarkChunkFinished(DropUndispatched(job[i]))]
      BY <1>4 DEF Begin
    <3>2. \A s \in JobState : MarkChunkFinished(DropUndispatched(s)) \in JobState
      BY StateTypes
    <3>3. QED BY <1>0, <3>1, <3>2
  <2>2. \/ worker' = [worker EXCEPT ![w] = Ready]
        \/ Throw(w, "synthesis_cancelled")
        \/ Advance(w, "lease")
    BY <1>4 DEF Begin
  <2>3. worker' \in [Workers -> WorkerState] /\ WriteInv'
    BY <1>a, <1>b, <2>2, ReadyTypes, ThrowTypes, AdvanceTypes DEF Throw
  <2>4. QED
    BY <1>4, <2>1, <2>3 DEF Begin, TypeInv, TypeOK, queueVars, tempVars
<1>5. CASE Checkout(w)
  <2>1. worker' \in [Workers -> WorkerState] /\ WriteInv'
    BY <1>5, <1>a, <1>b, ThrowTypes, AdvanceTypes DEF Checkout, Throw
  <2>2. QED
    BY <1>5, <2>1 DEF Checkout, TypeInv, TypeOK, queueVars, tempVars
<1>6. CASE OpenChunkFile(w)
  <2>1. ASSUME NEW n \in 0..MaxWrites,
               worker' = [worker EXCEPT ![w].stage = "infer", ![w].left = n]
        PROVE  worker' \in [Workers -> WorkerState] /\ WriteInv'
    <3>1. n \in Nat
      BY LimitsType
    <3>2. QED BY <2>1, <3>1, LeftTypes
  <2>2. ASSUME NEW x \in Exceptions, Throw(w, x)
        PROVE  worker' \in [Workers -> WorkerState] /\ WriteInv'
    BY <1>a, <2>2, ThrowTypes DEF Throw
  <2>3. worker' \in [Workers -> WorkerState] /\ WriteInv'
    BY <1>6, <1>b, <2>1, <2>2 DEF OpenChunkFile
  <2>4. QED
    BY <1>6, <2>3 DEF OpenChunkFile, TypeInv, TypeOK, queueVars, tempVars
<1>7. CASE Infer(w)
  <2>1. \/ \E x \in Exceptions : Throw(w, x)
        \/ worker[w].left > 0 /\ Advance(w, "write")
        \/ Advance(w, "finish")
    BY <1>7, <1>b DEF Infer
  <2>2. worker' \in [Workers -> WorkerState] /\ WriteInv'
    BY <1>a, <2>1, ThrowTypes, AdvanceTypes DEF Throw
  <2>3. QED
    BY <1>7, <2>2 DEF Infer, TypeInv, TypeOK, queueVars, tempVars
<1>8. CASE AudioCallback(w)
  <2>1. \E x \in Exceptions :
          worker' = [worker EXCEPT ![w].stage = "counted", ![w].thrown = x]
    BY <1>8, <1>b DEF AudioCallback
  <2>2. worker[w].left > 0
    BY <1>8 DEF AudioCallback, TypeInv, WriteInv
  <2>3. worker' \in [Workers -> WorkerState] /\ WriteInv'
    BY <1>a, <2>1, <2>2, ThrowTypes
  <2>4. QED
    BY <1>8, <2>3 DEF AudioCallback, TypeInv, TypeOK, queueVars
<1>9. CASE CountJobBytes(w)
  <2>1. worker[w].left - 1 \in Nat
    BY <1>0, <1>9 DEF CountJobBytes, TypeInv, WriteInv
  <2>2. \/ Advance(w, "throw")
        \/ \E st \in {"infer", "finish"} :
             worker' = [worker EXCEPT ![w].stage = st, ![w].left = worker[w].left - 1]
    BY <1>0, <1>9 DEF CountJobBytes
  <2>3. worker' \in [Workers -> WorkerState] /\ WriteInv'
    BY <1>a, <2>1, <2>2, AdvanceTypes, LeftTypes
  <2>4. allocated' \in [Jobs -> Nat]
    <3>1. allocated \in [Jobs -> Nat] /\ \A i \in Jobs : allocated[i] + 1 \in Nat
      BY DEF TypeInv, TypeOK
    <3>2. allocated' = [allocated EXCEPT ![worker[w].job] = @ + 1]
      BY <1>9 DEF CountJobBytes, Charge
    <3>3. QED BY <3>1, <3>2
  <2>5. QED
    BY <1>9, <2>3, <2>4 DEF CountJobBytes, TypeInv, TypeOK, queueVars
<1>10. CASE FinishChunk(w)
  <2>1. job' \in [Jobs -> JobState]
    BY <1>0, <1>10, StoredTypes, StateTypes DEF FinishChunk
  <2>2. worker' \in [Workers -> WorkerState] /\ WriteInv'
    BY <1>10, ReadyTypes DEF FinishChunk
  <2>3. QED
    BY <1>10, <2>1, <2>2 DEF FinishChunk, TypeInv, TypeOK, queueVars, tempVars
<1>11. CASE CatchChunk(w)
  <2>1. job' \in [Jobs -> JobState]
    BY <1>0, <1>11, StateTypes DEF CatchChunk
  <2>2. worker' \in [Workers -> WorkerState] /\ WriteInv'
    BY <1>11, ReadyTypes DEF CatchChunk
  <2>3. QED
    BY <1>11, <2>1, <2>2 DEF CatchChunk, TypeInv, TypeOK, queueVars, tempVars
<1>12. QED
  BY <1>1, <1>2, <1>3, <1>4, <1>5, <1>6, <1>7, <1>8, <1>9, <1>10, <1>11 DEF Worker

LEMMA TypeStep == TypeInv /\ [Next]_vars => TypeInv'
<1> SUFFICES ASSUME TypeInv, [Next]_vars PROVE TypeInv'
  OBVIOUS
<1>1. ASSUME NEW j \in Jobs, Environment(j) PROVE TypeInv'
  BY <1>1 DEF Environment, Disconnect, Expire, TypeInv, TypeOK, WriteInv,
     queueVars, callVars, tempVars
<1>2. ASSUME UNCHANGED vars PROVE TypeInv'
  BY <1>2 DEF TypeInv, TypeOK, WriteInv, vars, queueVars, callVars, envVars, tempVars
<1>3. QED
  BY <1>1, <1>2, RequesterTypes, WorkerTypes DEF Next, Quiescent

LEMMA TypeInvariant == Spec => []TypeInv
BY TypeInit, TypeStep, PTL DEF Spec

\* Every variable keeps its type; in particular the unsigned counters
\* activeJobs, waitingJobs, pendingChunks and inFlightChunks never go below 0.
THEOREM TypeCorrect == Spec => []TypeOK
BY TypeInvariant, PTL DEF TypeInv
=============================================================================
