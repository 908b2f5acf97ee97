-------------------------- MODULE FairTtsScheduler --------------------------
(***************************************************************************)
(* The job scheduler of the HTTP server, class FairTtsScheduler of         *)
(* src/cpp/server.cpp.  Every TTS request runs synthesize() on its own     *)
(* connection thread: it is rejected, activated or put in the waiting      *)
(* queue, then sleeps until its job is done while a fixed pool of chunk    *)
(* workers takes one text chunk at a time from a round-robin queue of      *)
(* active jobs.  Two kinds of mutex are used, queueMutex and one mutex per *)
(* job, always in that order.                                              *)
(*                                                                         *)
(* One action is one critical section (or one atomic counter operation)    *)
(* with the thread-local code up to the next one.  queueMutex is held over *)
(* several actions only by a releasing request that moves waiting jobs to  *)
(* the round robin, one per step.                                          *)
(*                                                                         *)
(* An operator whose name starts with Mut is a faulty variant of the one   *)
(* defined after it.  No specification uses it: substituted for that       *)
(* operator it shows that a property can fail.                             *)
(***************************************************************************)
EXTENDS Integers, Sequences, FiniteSets

CONSTANTS
  Jobs,               \* the calls of synthesize(), one JobState each
  Workers,            \* the chunk worker threads
  MaxConcurrentJobs,  \* options.maxConcurrentJobs
  QueueSizeOption,    \* options.queueSize
  MaxTempBytes,       \* options.maxTempBytes, in audio buffers; 0 is no limit
  MaxChunks,          \* bound: chunks of one request
  MaxWrites,          \* bound: audio buffers written for one chunk
  NoJob               \* the job of a worker that has none

ASSUME SchedulerAssumption ==
  /\ IsFiniteSet(Jobs) /\ IsFiniteSet(Workers)
  /\ NoJob \notin Jobs
  /\ MaxConcurrentJobs \in Nat /\ QueueSizeOption \in Nat
  /\ MaxTempBytes \in Nat /\ MaxChunks \in Nat /\ MaxWrites \in Nat

Larger(a, b) == IF a >= b THEN a ELSE b

\* The limits as the constructor corrects them.
maxJobs   == Larger(1, MaxConcurrentJobs)
queueSize == Larger(maxJobs, QueueSizeOption)

VARIABLES
  activeJobs,        \* counter of activated jobs that have not been released
  waitingJobs,       \* counter that admission takes for the waiting jobs
  activeRoundRobin,  \* queue of activated jobs with chunks left to dispatch
  pendingJobs,       \* queue of accepted jobs that wait to be activated
  job,               \* the JobState of each request
  pc,                \* where each requesting thread is
  outcome,           \* how each call of synthesize() ended
  clientGone,        \* the request's client has disconnected
  expired,           \* the request's queue deadline has passed
  tempDir,           \* the request's directory outputs/tmp/<id> exists
  allocated,         \* job->allocatedTempBytes
  freeing,           \* bytes a cleanup has taken from its job, not yet returned
  tempStorageBytes,  \* metrics.tempStorageBytes
  worker             \* what each worker thread is doing

queueVars == <<activeJobs, waitingJobs, activeRoundRobin, pendingJobs>>
callVars  == <<pc, outcome>>
envVars   == <<clientGone, expired>>
tempVars  == <<tempDir, allocated, freeing, tempStorageBytes>>
vars == <<queueVars, job, callVars, envVars, tempVars, worker>>

-----------------------------------------------------------------------------
(* Types                                                                   *)

JobState == [chunks    : Nat,      \* textChunks.size()
             next      : Nat,      \* nextChunk, and startedChunks: they move together
             pending   : Nat,      \* pendingChunks
             inFlight  : Nat,      \* inFlightChunks
             activated : BOOLEAN,
             cancelled : BOOLEAN,
             failed    : BOOLEAN,
             done      : BOOLEAN,
             written   : SUBSET Nat]  \* the chunks whose chunkPaths entry is set

\* "ready" and "asleep" are in nextWork(), the others in processChunk().
Stages == {"ready", "asleep", "begin", "lease", "leased", "infer", "write",
           "counted", "finish", "throw"}

Exceptions == {"none", "synthesis_cancelled", "temp_storage_full", "error"}

WorkerState == [stage : Stages, job : Jobs \cup {NoJob}, chunk : Nat,
                left : Nat, thrown : Exceptions]

CallStates == {"idle", "admitting", "announcing", "waiting", "activating",
               "settling", "assembling", "cleaning", "returned"}

Outcomes == {"none", "invalid", "rejected", "ok", "cancelled", "failed",
             "assembly_failed"}

NewJob == [chunks |-> 0, next |-> 0, pending |-> 0, inFlight |-> 0,
           activated |-> FALSE, cancelled |-> FALSE, failed |-> FALSE,
           done |-> FALSE, written |-> {}]

Ready == [stage |-> "ready", job |-> NoJob, chunk |-> 0, left |-> 0,
          thrown |-> "none"]

TypeOK ==
  /\ activeJobs \in Nat /\ waitingJobs \in Nat
  /\ activeRoundRobin \in Seq(Jobs) /\ pendingJobs \in Seq(Jobs)
  /\ job \in [Jobs -> JobState]
  /\ pc \in [Jobs -> CallStates]
  /\ outcome \in [Jobs -> Outcomes]
  /\ clientGone \in [Jobs -> BOOLEAN] /\ expired \in [Jobs -> BOOLEAN]
  /\ tempDir \in [Jobs -> BOOLEAN]
  /\ allocated \in [Jobs -> Nat]
  /\ freeing \in [Jobs -> Nat]
  /\ tempStorageBytes \in Int  \* unsigned in the code, and reduced without a test
  /\ worker \in [Workers -> WorkerState]

Init ==
  /\ activeJobs = 0 /\ waitingJobs = 0
  /\ activeRoundRobin = <<>> /\ pendingJobs = <<>>
  /\ job = [j \in Jobs |-> NewJob]
  /\ pc = [j \in Jobs |-> "idle"]
  /\ outcome = [j \in Jobs |-> "none"]
  /\ clientGone = [j \in Jobs |-> FALSE] /\ expired = [j \in Jobs |-> FALSE]
  /\ tempDir = [j \in Jobs |-> FALSE]
  /\ allocated = [j \in Jobs |-> 0]
  /\ freeing = [j \in Jobs |-> 0]
  /\ tempStorageBytes = 0
  /\ worker = [w \in Workers |-> Ready]

-----------------------------------------------------------------------------
(* Helpers                                                                 *)

\* queueMutex is free unless a releasing request is activating waiting jobs.
QueueMutexFree == \A j \in Jobs : pc[j] # "activating"

\* A job that was told to stop: its chunks are no longer dispatched.
Stopped(state) == state.cancelled \/ state.failed

\* The job can still be given to a worker.
Dispatchable(state) == ~Stopped(state) /\ state.next < state.chunks

\* queueCv.notify_all(): every sleeping worker looks at the queue again.
NotifyWorkers ==
  worker' = [w \in Workers |->
               IF worker[w].stage = "asleep" THEN Ready ELSE worker[w]]

\* What processChunk's shouldCancel reads: the job's flags, then the socket.
ShouldCancel(j) == Stopped(job[j]) \/ clientGone[j]

Busy(w) == worker[w].stage \notin {"ready", "asleep"}

\* The counters are unsigned: they are decremented only when they are not 0.
MutDecrementUnguarded(n) == n - 1
Decrement(n) == IF n > 0 THEN n - 1 ELSE n

Return(j, how) ==
  /\ pc' = [pc EXCEPT ![j] = "returned"]
  /\ outcome' = [outcome EXCEPT ![j] = how]

-----------------------------------------------------------------------------
(* The client and the clock                                                *)

\* The client closes its socket.  The flag is read only up to the wait loop.
Disconnect(j) ==
  /\ pc[j] \in {"idle", "admitting", "announcing", "waiting"}
  /\ ~clientGone[j]
  /\ clientGone' = [clientGone EXCEPT ![j] = TRUE]
  /\ UNCHANGED <<queueVars, job, callVars, expired, tempVars, worker>>

\* The queue deadline passes.  It is looked at only before the first chunk.
Expire(j) ==
  /\ pc[j] = "waiting" /\ ~expired[j] /\ job[j].next = 0
  /\ expired' = [expired EXCEPT ![j] = TRUE]
  /\ UNCHANGED <<queueVars, job, callVars, clientGone, tempVars, worker>>

-----------------------------------------------------------------------------
(* The requesting thread: synthesize()                                     *)

\* Before admission: an early disconnect, no text or no temporary directory
\* end the call; otherwise the job is built and its directory created.
Submit(j) ==
  /\ pc[j] = "idle"
  /\ \/ /\ clientGone[j]
        /\ Return(j, "cancelled")
        /\ UNCHANGED <<job, tempDir>>
     \/ /\ ~clientGone[j]
        /\ Return(j, "invalid")
        /\ UNCHANGED <<job, tempDir>>
     \/ /\ ~clientGone[j]
        /\ \E n \in 1..MaxChunks :
             job' = [job EXCEPT ![j] = [NewJob EXCEPT !.chunks = n, !.pending = n]]
        /\ tempDir' = [tempDir EXCEPT ![j] = TRUE]
        /\ pc' = [pc EXCEPT ![j] = "admitting"]
        /\ UNCHANGED outcome
  /\ UNCHANGED <<queueVars, envVars, allocated, freeing, tempStorageBytes, worker>>

\* Admission, under queueMutex.
Admit(j) ==
  /\ pc[j] = "admitting" /\ QueueMutexFree
  /\ \/ /\ activeJobs + waitingJobs >= queueSize
        /\ Return(j, "rejected")
        /\ UNCHANGED <<queueVars, job>>
     \/ /\ activeJobs + waitingJobs < queueSize
        /\ pc' = [pc EXCEPT ![j] = "announcing"]
        /\ UNCHANGED outcome
        /\ \/ /\ activeJobs < maxJobs
              /\ activeJobs' = activeJobs + 1
              /\ activeRoundRobin' = Append(activeRoundRobin, j)
              /\ job' = [job EXCEPT ![j].activated = TRUE]
              /\ UNCHANGED <<waitingJobs, pendingJobs>>
           \/ /\ activeJobs >= maxJobs
              /\ waitingJobs' = waitingJobs + 1
              /\ pendingJobs' = Append(pendingJobs, j)
              /\ UNCHANGED <<activeJobs, activeRoundRobin, job>>
  /\ UNCHANGED <<envVars, tempVars, worker>>

\* The notification that follows admission, outside the mutex.
MutAnnounceQuietly(j) ==
  /\ pc[j] = "announcing"
  /\ pc' = [pc EXCEPT ![j] = "waiting"]
  /\ UNCHANGED <<queueVars, job, outcome, envVars, tempVars, worker>>

AnnounceAdmission(j) ==
  /\ pc[j] = "announcing"
  /\ pc' = [pc EXCEPT ![j] = "waiting"]
  /\ NotifyWorkers
  /\ UNCHANGED <<queueVars, job, outcome, envVars, tempVars>>

\* The two reactions of the wait loop, each on the state the other left.
MutCancelledUndone(state) == [state EXCEPT !.cancelled = TRUE, !.pending = state.inFlight]
MutCancelledAtOnce(state) == [state EXCEPT !.cancelled = TRUE, !.pending = 0, !.done = TRUE]
CancelledByClient(state) ==
  [state EXCEPT !.cancelled = TRUE,
                !.pending = state.inFlight,
                !.done = state.done \/ state.inFlight = 0]

TimedOut(state) ==
  [state EXCEPT !.cancelled = TRUE, !.failed = TRUE,
                !.pending = 0, !.done = TRUE]

MutTimeoutAnyTime(j, state) == expired[j]
TimeoutDue(j, state) == expired[j] /\ state.next = 0

\* One turn of the wait loop, under the job's mutex.  A turn that sees neither
\* a disconnect nor a timeout changes nothing.
WaitTurn(j) ==
  /\ pc[j] = "waiting" /\ ~job[j].done
  /\ LET polled  == IF clientGone[j] THEN CancelledByClient(job[j]) ELSE job[j]
         timeout == TimeoutDue(j, polled)
     IN  /\ clientGone[j] \/ timeout
         /\ job' = [job EXCEPT ![j] = IF timeout THEN TimedOut(polled) ELSE polled]
  /\ NotifyWorkers
  /\ UNCHANGED <<queueVars, callVars, envVars, tempVars>>

\* The request counts in activeJobs, otherwise in waitingJobs.
MutHoldsPlaceAlways(j) == TRUE
HoldsPlace(j) == job[j].activated

\* The job is done: the request gives its place back and keeps queueMutex.
Release(j) ==
  /\ pc[j] = "waiting" /\ job[j].done /\ QueueMutexFree
  /\ \/ /\ HoldsPlace(j)
        /\ activeJobs' = Decrement(activeJobs)
        /\ UNCHANGED waitingJobs
     \/ /\ ~HoldsPlace(j)
        /\ waitingJobs' = Decrement(waitingJobs)
        /\ UNCHANGED activeJobs
  /\ pc' = [pc EXCEPT ![j] = "activating"]
  /\ UNCHANGED <<activeRoundRobin, pendingJobs, job, outcome, envVars, tempVars, worker>>

MoreToActivate == activeJobs < maxJobs /\ pendingJobs # <<>>

MutActivateNewest(j) ==
  /\ pc[j] = "activating" /\ MoreToActivate
  /\ pendingJobs' = SubSeq(pendingJobs, 1, Len(pendingJobs) - 1)
  /\ waitingJobs' = Decrement(waitingJobs)
  /\ LET p == pendingJobs[Len(pendingJobs)] IN
       \/ /\ job[p].done \/ Stopped(job[p])
          /\ UNCHANGED <<activeJobs, activeRoundRobin, job>>
       \/ /\ ~job[p].done /\ ~Stopped(job[p])
          /\ job' = [job EXCEPT ![p].activated = TRUE]
          /\ activeJobs' = activeJobs + 1
          /\ activeRoundRobin' = Append(activeRoundRobin, p)
  /\ UNCHANGED <<callVars, envVars, tempVars, worker>>

MutActivateOnce(j) ==
  /\ pc[j] = "activating" /\ MoreToActivate
  /\ pendingJobs' = Tail(pendingJobs)
  /\ waitingJobs' = Decrement(waitingJobs)
  /\ LET p == Head(pendingJobs) IN
       \/ /\ job[p].done \/ Stopped(job[p])
          /\ UNCHANGED <<activeJobs, activeRoundRobin, job>>
       \/ /\ ~job[p].done /\ ~Stopped(job[p])
          /\ job' = [job EXCEPT ![p].activated = TRUE]
          /\ activeJobs' = activeJobs + 1
          /\ activeRoundRobin' = Append(activeRoundRobin, p)
  /\ pc' = [pc EXCEPT ![j] = "settling"]
  /\ UNCHANGED <<outcome, envVars, tempVars, worker>>

\* One turn of activatePendingJobsLocked(): the head of the waiting queue is
\* activated, or dropped when its own request has already given up.
ActivateNext(j) ==
  /\ pc[j] = "activating" /\ MoreToActivate
  /\ pendingJobs' = Tail(pendingJobs)
  /\ waitingJobs' = Decrement(waitingJobs)
  /\ LET p == Head(pendingJobs) IN
       \/ /\ job[p].done \/ Stopped(job[p])
          /\ UNCHANGED <<activeJobs, activeRoundRobin, job>>
       \/ /\ ~job[p].done /\ ~Stopped(job[p])
          /\ job' = [job EXCEPT ![p].activated = TRUE]
          /\ activeJobs' = activeJobs + 1
          /\ activeRoundRobin' = Append(activeRoundRobin, p)
  /\ UNCHANGED <<callVars, envVars, tempVars, worker>>

\* The mutex is released, then the workers are notified and the outcome is read.
EndRelease(j) ==
  /\ pc[j] = "activating" /\ ~MoreToActivate
  /\ pc' = [pc EXCEPT ![j] = "settling"]
  /\ UNCHANGED <<queueVars, job, outcome, envVars, tempVars, worker>>

Settle(j) ==
  /\ pc[j] = "settling"
  /\ NotifyWorkers
  /\ \/ /\ job[j].failed
        /\ pc' = [pc EXCEPT ![j] = "cleaning"]
        /\ outcome' = [outcome EXCEPT ![j] = "failed"]
     \/ /\ job[j].cancelled /\ ~job[j].failed
        /\ pc' = [pc EXCEPT ![j] = "cleaning"]
        /\ outcome' = [outcome EXCEPT ![j] = "cancelled"]
     \/ /\ ~Stopped(job[j])
        /\ pc' = [pc EXCEPT ![j] = "assembling"]
        /\ UNCHANGED outcome
  /\ UNCHANGED <<queueVars, job, envVars, tempVars>>

\* assembleWav() copies the chunks into the output file.  It throws on a
\* missing chunk, an output it cannot open or more than 4 GiB of audio, and
\* the exception leaves synthesize() at once.
AssembleWav(j) ==
  /\ pc[j] = "assembling"
  /\ \/ /\ job[j].written = 1..job[j].chunks
        /\ pc' = [pc EXCEPT ![j] = "cleaning"]
        /\ outcome' = [outcome EXCEPT ![j] = "ok"]
     \/ Return(j, "assembly_failed")
  /\ UNCHANGED <<queueVars, job, envVars, tempVars, worker>>

\* cleanupJob(): the job's counter is exchanged with 0 and, when it was not 0,
\* the global counter is loaded to see whether it covers it; if not it is reset.
\* The exchange touches a counter that nobody else uses any more, so the load
\* and what is left to subtract are one step with it.
CleanupTake(j) ==
  /\ pc[j] = "cleaning" /\ allocated[j] > 0
  /\ allocated' = [allocated EXCEPT ![j] = 0]
  /\ LET covered == tempStorageBytes >= allocated[j] IN
       /\ freeing' = [freeing EXCEPT ![j] = IF covered THEN allocated[j] ELSE 0]
       /\ tempStorageBytes' = IF covered THEN tempStorageBytes ELSE 0
  /\ UNCHANGED <<queueVars, job, callVars, envVars, tempDir, worker>>

\* The subtraction, which no longer looks at the counter, and remove_all().
CleanupFinish(j) ==
  /\ pc[j] = "cleaning" /\ allocated[j] = 0
  /\ tempStorageBytes' = tempStorageBytes - freeing[j]
  /\ freeing' = [freeing EXCEPT ![j] = 0]
  /\ tempDir' = [tempDir EXCEPT ![j] = FALSE]
  /\ pc' = [pc EXCEPT ![j] = "returned"]
  /\ UNCHANGED <<queueVars, job, outcome, envVars, allocated, worker>>

-----------------------------------------------------------------------------
(* The chunk workers: nextWork(), processChunk()                           *)

\* queueCv.wait: the round robin is empty.
Sleep(w) ==
  /\ worker[w].stage = "ready" /\ QueueMutexFree
  /\ activeRoundRobin = <<>>
  /\ worker' = [worker EXCEPT ![w].stage = "asleep"]
  /\ UNCHANGED <<queueVars, job, callVars, envVars, tempVars>>

\* A dispatched chunk is counted as started and in flight.
MutDispatchedAgain(state) == [state EXCEPT !.inFlight = state.inFlight + 1]
Dispatched(state) ==
  [state EXCEPT !.next = state.next + 1, !.inFlight = state.inFlight + 1]

\* What the round robin becomes after a chunk of j was taken from its front.
MutRequeuedFirst(rest, j) ==
  IF job[j].next + 1 < job[j].chunks THEN <<j>> \o rest ELSE rest
MutRequeuedOnce(rest, j) ==
  IF job[j].next + 2 < job[j].chunks THEN Append(rest, j) ELSE rest
Requeued(rest, j) ==
  IF job[j].next + 1 < job[j].chunks THEN Append(rest, j) ELSE rest

\* nextWork() drops the jobs at the front that have nothing to dispatch and
\* takes a chunk of the first other one, which goes to the back of the queue
\* when it has more chunks.
TakeChunk(w) ==
  /\ worker[w].stage = "ready" /\ QueueMutexFree
  /\ \E k \in 1..Len(activeRoundRobin) :
       LET j    == activeRoundRobin[k]
           rest == SubSeq(activeRoundRobin, k + 1, Len(activeRoundRobin))
       IN  /\ Dispatchable(job[j])
           /\ \A i \in 1..(k - 1) : ~Dispatchable(job[activeRoundRobin[i]])
           /\ job' = [job EXCEPT ![j] = Dispatched(job[j])]
           /\ activeRoundRobin' = Requeued(rest, j)
           /\ worker' = [worker EXCEPT ![w] =
                           [Ready EXCEPT !.stage = "begin", !.job = j,
                                         !.chunk = job[j].next + 1]]
  /\ UNCHANGED <<activeJobs, waitingJobs, pendingJobs, callVars, envVars, tempVars>>

\* nextWork() empties a queue in which no job has a chunk to dispatch.
DropAll(w) ==
  /\ worker[w].stage = "ready" /\ QueueMutexFree
  /\ activeRoundRobin # <<>>
  /\ \A i \in 1..Len(activeRoundRobin) : ~Dispatchable(job[activeRoundRobin[i]])
  /\ activeRoundRobin' = <<>>
  /\ UNCHANGED <<activeJobs, waitingJobs, pendingJobs, job, callVars, envVars,
                 tempVars, worker>>

\* markChunkFinished(), on a job whose mutex is held.
MarkChunkFinished(state) ==
  LET inFlight == Decrement(state.inFlight)
      pending  == Decrement(state.pending)
  IN  [state EXCEPT !.inFlight = inFlight,
                    !.pending = pending,
                    !.done = state.done \/ (pending = 0 /\ inFlight = 0)]

\* A stopped job waits only for the chunks in flight.
DropUndispatched(state) ==
  [state EXCEPT !.pending = IF state.pending > state.inFlight THEN state.inFlight
                            ELSE state.pending]

Throw(w, what) ==
  worker' = [worker EXCEPT ![w].stage = "throw", ![w].thrown = what]

Advance(w, stage) == worker' = [worker EXCEPT ![w].stage = stage]

\* The check at the top of processChunk() and the first poll of shouldCancel:
\* nothing happens between the two.
Begin(w) ==
  /\ worker[w].stage = "begin"
  /\ LET j == worker[w].job IN
       \/ /\ Stopped(job[j])
          /\ job' = [job EXCEPT ![j] = MarkChunkFinished(DropUndispatched(job[j]))]
          /\ worker' = [worker EXCEPT ![w] = Ready]
       \/ /\ ~Stopped(job[j]) /\ clientGone[j]
          /\ Throw(w, "synthesis_cancelled")
          /\ UNCHANGED job
       \/ /\ ~ShouldCancel(j)
          /\ Advance(w, "lease")
          /\ UNCHANGED job
  /\ UNCHANGED <<queueVars, callVars, envVars, tempVars>>

\* modelCache.checkout() hands over a voice or throws, if it comes back at all:
\* after a load that failed it may wait for ever (ModelCache), so no fairness is
\* assumed of this step.
Checkout(w) ==
  /\ worker[w].stage = "lease"
  /\ Advance(w, "leased") \/ Throw(w, "error")
  /\ UNCHANGED <<queueVars, job, callVars, envVars, tempVars>>

\* The polls around the voice's settings, then the chunk file is opened.
OpenChunkFile(w) ==
  /\ worker[w].stage = "leased"
  /\ \/ /\ ShouldCancel(worker[w].job)
        /\ Throw(w, "synthesis_cancelled")
     \/ /\ ~ShouldCancel(worker[w].job)
        /\ \/ Throw(w, "error")
           \/ \E n \in 0..MaxWrites :
                worker' = [worker EXCEPT ![w].stage = "infer", ![w].left = n]
  /\ UNCHANGED <<queueVars, job, callVars, envVars, tempVars>>

\* textToAudio() polls before and after the inference of each sentence.
Infer(w) ==
  /\ worker[w].stage = "infer"
  /\ \/ /\ ShouldCancel(worker[w].job)
        /\ Throw(w, "synthesis_cancelled")
     \/ /\ ~ShouldCancel(worker[w].job)
        /\ \/ Throw(w, "error")
           \/ /\ worker[w].left > 0
              /\ Advance(w, "write")
           \/ /\ worker[w].left = 0
              /\ Advance(w, "finish")
  /\ UNCHANGED <<queueVars, job, callVars, envVars, tempVars>>

\* audioCallback(): the buffer is written and added to the global counter...
AudioCallback(w) ==
  /\ worker[w].stage = "write"
  /\ tempStorageBytes' = tempStorageBytes + 1
  /\ worker' = [worker EXCEPT
       ![w].stage = "counted",
       ![w].thrown = IF MaxTempBytes > 0 /\ tempStorageBytes + 1 > MaxTempBytes
                     THEN "temp_storage_full" ELSE "none"]
  /\ UNCHANGED <<queueVars, job, callVars, envVars, tempDir, allocated, freeing>>

\* ... and then to the job's, before the limit is enforced.
MutChargeIfKept(w) == IF worker[w].thrown = "none" THEN 1 ELSE 0
Charge(w) == 1

CountJobBytes(w) ==
  /\ worker[w].stage = "counted"
  /\ allocated' = [allocated EXCEPT ![worker[w].job] = @ + Charge(w)]
  /\ \/ /\ worker[w].thrown # "none"
        /\ Advance(w, "throw")
     \/ /\ worker[w].thrown = "none"
        /\ worker' = [worker EXCEPT ![w].left = @ - 1,
                                    ![w].stage = IF worker[w].left > 1 THEN "infer"
                                                 ELSE "finish"]
  /\ UNCHANGED <<queueVars, job, callVars, envVars, tempDir, freeing, tempStorageBytes>>

\* The chunk's path is entered in chunkPaths.
Stored(state, chunk) == [state EXCEPT !.written = state.written \cup {chunk}]

\* The successful end of processChunk(), under the job's mutex.
FinishChunk(w) ==
  /\ worker[w].stage = "finish"
  /\ job' = [job EXCEPT ![worker[w].job] =
               MarkChunkFinished(Stored(job[worker[w].job], worker[w].chunk))]
  /\ worker' = [worker EXCEPT ![w] = Ready]
  /\ UNCHANGED <<queueVars, callVars, envVars, tempVars>>

\* A cancellation and any other exception leave different marks on the job.
MutUnmarkedByError(state, thrown) ==
  [state EXCEPT !.cancelled = state.cancelled \/ thrown = "synthesis_cancelled"]
MarkedByException(state, thrown) ==
  [state EXCEPT !.cancelled = state.cancelled \/ thrown = "synthesis_cancelled",
                !.failed = state.failed \/ thrown # "synthesis_cancelled"]

\* The handler of processChunk(), under the job's mutex.
CatchChunk(w) ==
  /\ worker[w].stage = "throw"
  /\ job' = [job EXCEPT ![worker[w].job] =
               MarkChunkFinished(DropUndispatched(
                 MarkedByException(job[worker[w].job], worker[w].thrown)))]
  /\ worker' = [worker EXCEPT ![w] = Ready]
  /\ UNCHANGED <<queueVars, callVars, envVars, tempVars>>

-----------------------------------------------------------------------------

Environment(j) == Disconnect(j) \/ Expire(j)

Requester(j) ==
  \/ Submit(j) \/ Admit(j) \/ AnnounceAdmission(j) \/ WaitTurn(j)
  \/ Release(j) \/ ActivateNext(j) \/ EndRelease(j) \/ Settle(j)
  \/ AssembleWav(j) \/ CleanupTake(j) \/ CleanupFinish(j)

Worker(w) ==
  \/ Sleep(w) \/ TakeChunk(w) \/ DropAll(w) \/ Begin(w) \/ Checkout(w)
  \/ OpenChunkFile(w) \/ Infer(w) \/ AudioCallback(w) \/ CountJobBytes(w)
  \/ FinishChunk(w) \/ CatchChunk(w)

\* Every request has returned and every worker sleeps: nothing is left to do.
Quiescent ==
  /\ \A j \in Jobs : pc[j] = "returned"
  /\ \A w \in Workers : worker[w].stage = "asleep"
  /\ UNCHANGED vars

Next ==
  \/ \E j \in Jobs : Environment(j)
  \/ \E j \in Jobs : Requester(j)
  \/ \E w \in Workers : Worker(w)
  \/ Quiescent

Spec == Init /\ [][Next]_vars

\* The worker is in checkout(), where only the cache decides how long it stays.
InCheckout(w) == worker[w].stage = "lease"

\* Threads keep running: a request that has been submitted and a worker that is
\* not in checkout() are never suspended for ever.  Clients, deadlines and the
\* model cache owe nothing.
Fairness ==
  /\ \A j \in Jobs : WF_vars(pc[j] # "idle" /\ Requester(j))
  /\ \A w \in Workers : WF_vars(~InCheckout(w) /\ Worker(w))

FairSpec == Spec /\ Fairness

-----------------------------------------------------------------------------
(* Safety                                                                  *)

\* A request was accepted and has not yet left the wait loop.
Held(j) == pc[j] \in {"announcing", "waiting"}

ActiveJobs == {j \in Jobs : Held(j) /\ job[j].activated}

\* activeJobs counts exactly the activated requests still held, through
\* activations made by other requests' releases, and never exceeds maxJobs:
\* --max-concurrent-jobs is a real limit.
ActiveJobsExact ==
  /\ activeJobs = Cardinality(ActiveJobs)
  /\ activeJobs <= maxJobs

\* Free places are handed to the waiting queue before queueMutex is given up,
\* so no place stays empty beside a waiting job and no newcomer overtakes one.
CapacityUsed ==
  QueueMutexFree => (pendingJobs = <<>> \/ activeJobs = maxJobs)

\* processChunk() calls the request's shouldCancel, which refers to the socket
\* on the stack of the connection thread, and writes files in the job's
\* directory: as long as a worker holds a chunk of a job, its request is still
\* in synthesize() and has not begun to clean up.
RequestOutlivesChunks ==
  \A w \in Workers : Busy(w) =>
    /\ Held(worker[w].job)
    /\ ~job[worker[w].job].done

\* An accepted job that is not done is where someone will find it: waiting,
\* queued for a worker, or in a worker's hands.  Whatever mixture of failures,
\* cancellation and completion, pendingChunks never strands the requester.
NoJobStranded ==
  \A j \in Jobs : Held(j) /\ ~job[j].done =>
    \/ \E w \in Workers : Busy(w) /\ worker[w].job = j
    \/ \E i \in DOMAIN activeRoundRobin : activeRoundRobin[i] = j
    \/ \E i \in DOMAIN pendingJobs : pendingJobs[i] = j

\* A job that is neither cancelled nor failed when its requester leaves the
\* wait loop has every chunk on disk: assembleWav never meets a hole.
CompleteWhenAssembling ==
  \A j \in Jobs : pc[j] = "assembling" => job[j].written = 1..job[j].chunks

\* Two workers never hold the same chunk of a job, and a written chunk is not
\* synthesized again: they would write the same chunk_<i>.raw.
ChunksDisjoint ==
  \A v, w \in Workers : Busy(v) /\ Busy(w) /\ worker[v].job = worker[w].job =>
    /\ v # w => worker[v].chunk # worker[w].chunk
    /\ worker[w].chunk \notin job[worker[w].job].written

\* The buffers on the books: those the jobs have been charged and those that a
\* cleanup has taken off its job but not yet returned.
Ledger(charge) == UNION {{j} \X (1..charge[j]) : j \in Jobs}
Charges == [j \in Jobs |-> allocated[j] + freeing[j]]

\* Buffers added to the global counter and not yet to their job's.
Uncharged == {w \in Workers : worker[w].stage = "counted"}

\* The temporary-storage counter is exactly the buffers on the books and those
\* a worker is about to enter there, with no lock between the two counters.  It
\* never falls below a job's own counter, so the reset to 0 in cleanupJob() is
\* never taken and no other job's bytes are lost.
TempBytesConserved ==
  tempStorageBytes = Cardinality(Ledger(Charges)) + Cardinality(Uncharged)

\* A worker sleeps beside a queue that is not empty only while a thread that has
\* still to notify is on its way: work is queued under queueMutex but announced
\* after it is released, and a worker looks at the queue before it sleeps.
NoWorkerOversleeps ==
  activeRoundRobin # <<>> /\ (\E w \in Workers : worker[w].stage = "asleep") =>
    \E j \in Jobs : pc[j] \in {"announcing", "activating", "settling"}

-----------------------------------------------------------------------------
(* What the documentation says and the code does not keep                  *)

\* Accepted requests that still want their audio: none has given up.
Unserved == {j \in Jobs : Held(j) /\ ~job[j].done}

\* neo-docs/server-architecture.md: "--queue-size controla cola".  At most
\* queueSize accepted requests are in the server at a time, those whose job is
\* already done (only to be released) not counted.
QueueBound == Cardinality(Unserved) <= queueSize

\* docs/resource-management-plan.md: "Borra outputs/tmp/<job_id>/ al terminar,
\* fallar o cancelar".  An accepted request that has returned left neither a
\* directory nor bytes charged to the temporary-storage limit.
TempReturned ==
  \A j \in Jobs : pc[j] = "returned" /\ outcome[j] \notin {"invalid", "rejected"} =>
    ~tempDir[j] /\ allocated[j] = 0

-----------------------------------------------------------------------------
(* Action properties                                                       *)

\* Once done is set the JobState is frozen: synthesize() reads cancelled,
\* failed, error and the chunk lists after the wait loop without the mutex.
DoneIsFinal ==
  [][\A j \in Jobs : job[j].done => job'[j] = job[j]]_vars

PositionIn(queue, j) == CHOOSE i \in DOMAIN queue : queue[i] = j

Queued(j) == \E i \in DOMAIN activeRoundRobin : activeRoundRobin[i] = j

\* Round robin: when a worker takes a chunk of one job, every other job that
\* has something to dispatch gets strictly closer to the front, and no other
\* step moves it back.  A long text cannot keep short ones from a worker.
FairTurn ==
  [][\A j \in Jobs :
       Queued(j) /\ Dispatchable(job[j]) /\ Dispatchable(job'[j])
         /\ job'[j].next = job[j].next =>
         /\ Queued(j)'
         /\ PositionIn(activeRoundRobin', j) <= PositionIn(activeRoundRobin, j)
         /\ (\E i \in Jobs : job'[i].next > job[i].next) =>
              PositionIn(activeRoundRobin', j) < PositionIn(activeRoundRobin, j)]_vars

-----------------------------------------------------------------------------
(* Liveness                                                                *)

\* No worker stays in the model cache's checkout() for ever.  The code does not
\* guarantee it: it is what the next property is conditional on.
CheckoutsReturn == \A w \in Workers : []<>~InCheckout(w)

\* Provided that every checkout() comes back, with a voice or an exception,
\* every submitted request returns, whatever its client does: the scheduler
\* itself loses no wakeup and lets no job keep its place for ever.
EveryRequestReturns ==
  CheckoutsReturn =>
    \A j \in Jobs : (pc[j] = "admitting") ~> (pc[j] = "returned")
=============================================================================
