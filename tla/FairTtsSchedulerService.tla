----------------------- MODULE FairTtsSchedulerService -----------------------
(***************************************************************************)
(* FairTtsScheduler implements TtsService.  A request that has given up    *)
(* has left the line although its entry of pendingJobs is still there, and *)
(* a request has its place until release() subtracts it from activeJobs.   *)
(***************************************************************************)
EXTENDS FairTtsScheduler

Waiting(j) == Held(j) /\ ~job[j].activated /\ ~job[j].done /\ ~Stopped(job[j])

Phase(j) ==
  CASE pc[j] \in {"idle", "admitting"}  -> "outside"
    [] Held(j) /\ job[j].activated      -> "serving"
    [] Waiting(j)                       -> "waiting"
    [] pc[j] = "returned"               -> "answered"
    [] OTHER                            -> "leaving"

\* i stands before j in pendingJobs.
Before(i, j) ==
  \E a, b \in DOMAIN pendingJobs :
    a < b /\ pendingJobs[a] = i /\ pendingJobs[b] = j

Unspoken(j) ==
  IF Phase(j) \in {"outside", "answered"} THEN {}
  ELSE (1..job[j].chunks) \ job[j].written

servicePhase    == [j \in Jobs |-> Phase(j)]
serviceAhead    == {p \in Jobs \X Jobs :
                      Waiting(p[1]) /\ Waiting(p[2]) /\ Before(p[1], p[2])}
serviceUnspoken == [j \in Jobs |-> Unspoken(j)]
serviceAnswer   == [j \in Jobs |-> IF pc[j] = "returned" THEN outcome[j] ELSE "none"]

Service == INSTANCE TtsService WITH
  Requests <- Jobs,
  Places   <- maxJobs,
  phase    <- servicePhase,
  ahead    <- serviceAhead,
  unspoken <- serviceUnspoken,
  answer   <- serviceAnswer

\* synthesize() keeps what TtsService promises: with workers that finish in any
\* order, requests that give up while queued and releases that activate others,
\* places are limited and given out in order of arrival, nobody is refused for
\* lack of room or kept waiting while a place is free, and a request that
\* succeeds had all its text spoken while it held a place.
ImplementsService == Service!Spec
=============================================================================
