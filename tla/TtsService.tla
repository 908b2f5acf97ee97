------------------------------ MODULE TtsService ------------------------------
(***************************************************************************)
(* What the scheduler of the HTTP server promises to the threads that call *)
(* synthesize(), without its mutexes, counters, queues and workers: a      *)
(* limited number of places, given out in order of arrival; a text spoken  *)
(* chunk by chunk while its request has a place; one answer per request.   *)
(* FairTtsSchedulerService states that FairTtsScheduler implements it.     *)
(***************************************************************************)
EXTENDS Integers, FiniteSets

CONSTANTS
  Requests,   \* the calls of synthesize()
  Places,     \* how many are served at a time
  MaxChunks   \* bound: chunks of one text

VARIABLES
  phase,     \* how far each request is
  ahead,     \* <<i, j>>: i and j wait, and i came first
  unspoken,  \* the chunks of a request's text that are still to be spoken
  answer     \* what the request was told

vars == <<phase, ahead, unspoken, answer>>

Phases == {"outside", "waiting", "serving", "leaving", "answered"}

In(where) == {j \in Requests : phase[j] = where}

\* No place is free.
Full == Cardinality(In("serving")) >= Places

Init ==
  /\ phase = [j \in Requests |-> "outside"]
  /\ ahead = {}
  /\ unspoken = [j \in Requests |-> {}]
  /\ answer = [j \in Requests |-> "none"]

Move(j, where) == phase' = [phase EXCEPT ![j] = where]

\* Whoever leaves the line is ahead of nobody and behind nobody.
LeaveLine(j) == ahead' = {pair \in ahead : pair[1] # j /\ pair[2] # j}

\* A request is turned away for a reason of its own, or as one too many, but
\* that only when no place is free.
Refuse(j) ==
  /\ phase[j] = "outside"
  /\ Move(j, "answered")
  /\ \E why \in {"invalid", "cancelled", "rejected"} :
       /\ why = "rejected" => Full
       /\ answer' = [answer EXCEPT ![j] = why]
  /\ UNCHANGED <<ahead, unspoken>>

\* A request is accepted.  It is served at once only if nobody waits, and
\* waits only if no place is free.
Enter(j) ==
  /\ phase[j] = "outside"
  /\ \E n \in 1..MaxChunks : unspoken' = [unspoken EXCEPT ![j] = 1..n]
  /\ \/ /\ ~Full /\ In("waiting") = {}
        /\ Move(j, "serving")
        /\ UNCHANGED ahead
     \/ /\ Full
        /\ Move(j, "waiting")
        /\ ahead' = ahead \cup (In("waiting") \X {j})
  /\ UNCHANGED answer

\* A free place goes to the request that has waited longest.
Promote(j) ==
  /\ phase[j] = "waiting" /\ ~Full
  /\ \A pair \in ahead : pair[2] # j
  /\ Move(j, "serving")
  /\ LeaveLine(j)
  /\ UNCHANGED <<unspoken, answer>>

\* A chunk is spoken, once, while its request has a place.
Speak(j) ==
  /\ phase[j] = "serving"
  /\ \E c \in unspoken[j] : unspoken' = [unspoken EXCEPT ![j] = @ \ {c}]
  /\ UNCHANGED <<phase, ahead, answer>>

\* A request gives up waiting, or gives its place back.
Leave(j) ==
  /\ phase[j] \in {"waiting", "serving"}
  /\ Move(j, "leaving")
  /\ LeaveLine(j)
  /\ UNCHANGED <<unspoken, answer>>

\* The answer, after the place is free: success means that the whole text was
\* spoken.
Answer(j) ==
  /\ phase[j] = "leaving"
  /\ Move(j, "answered")
  /\ \E what \in {"ok", "cancelled", "failed", "assembly_failed"} :
       /\ what = "ok" => unspoken[j] = {}
       /\ answer' = [answer EXCEPT ![j] = what]
  /\ unspoken' = [unspoken EXCEPT ![j] = {}]
  /\ UNCHANGED ahead

Next ==
  \E j \in Requests :
    Refuse(j) \/ Enter(j) \/ Promote(j) \/ Speak(j) \/ Leave(j) \/ Answer(j)

Spec == Init /\ [][Next]_vars
=============================================================================
