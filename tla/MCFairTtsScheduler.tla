------------------------- MODULE MCFairTtsScheduler -------------------------
(***************************************************************************)
(* FairTtsScheduler on small sets of requests and workers.                 *)
(***************************************************************************)
EXTENDS FairTtsSchedulerService, TLC, Functions

Symmetry == Permutations(Jobs) \cup Permutations(Workers)

\* What a request leaves behind is read by the queues only, and only its flags:
\* states that differ in nothing else have the same future.
Residue(j) ==
  [chunks |-> 0, next |-> 0, written |-> {}, pending |-> 0, inFlight |-> 0,
   activated |-> FALSE,
   cancelled |-> Stopped(job[j]) /\ j \in Range(activeRoundRobin) \cup Range(pendingJobs),
   failed |-> FALSE,
   done |-> job[j].done]

\* The wait loop no longer looks at the client once the job is done, nor at
\* the deadline once a chunk was dispatched.
Waits(j) == pc[j] = "idle" \/ pc[j] = "admitting" \/ (Held(j) /\ ~job[j].done)

View ==
  <<queueVars, pc, allocated, freeing, tempStorageBytes, worker,
    [j \in Jobs |-> pc[j] # "returned" /\ tempDir[j]],
    [j \in Jobs |-> IF pc[j] = "returned" THEN Residue(j) ELSE job[j]],
    [j \in Jobs |-> <<Waits(j) /\ clientGone[j],
                      Waits(j) /\ job[j].next = 0 /\ expired[j]>>]>>
=============================================================================
