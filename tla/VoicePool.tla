------------------------------ MODULE VoicePool ------------------------------
(***************************************************************************)
(* What ModelCache promises to the worker that speaks a chunk, without its *)
(* mutexes, loads in progress, wake-ups and the settings that are written  *)
(* into the shared voice and put back: every chunk is spoken by a voice of *)
(* its model that nobody else uses, with its own request's settings over   *)
(* those the voice came with, and no model has more voices than allowed.   *)
(* ModelCachePool states that ModelCache implements it.                    *)
(***************************************************************************)
EXTENDS Integers

CONSTANTS
  Threads,      \* the chunk workers
  Models,       \* the models requests can name
  FirstVoices,  \* how many voices of each model there are at the start
  MostVoices,   \* how many there may be
  Fields,       \* the settings a request can override
  Original      \* those each voice of each model came with

VARIABLES
  voices,   \* how many voices each model has
  stage,    \* how far each worker is with its chunk
  request,  \* the model and the overridden settings of its last chunk
  voice,    \* the voice it holds, or none
  sound     \* the settings its audio is being made with, or none

vars == <<voices, stage, request, voice, sound>>

Init ==
  /\ voices = FirstVoices
  /\ stage = [t \in Threads |-> "outside"]
  /\ request \in [Threads -> [model : Models, overrides : {{}}]]
  /\ voice = [t \in Threads |-> {}] /\ sound = [t \in Threads |-> {}]

Move(t, where) == stage' = [stage EXCEPT ![t] = where]

Wanted(t) == request[t].model

\* The worker gets voice v of the model it asked for.
Get(t, v) == Move(t, "holding") /\ voice' = [voice EXCEPT ![t] = {v}]

\* A worker has a chunk for model m whose request overrides the settings o.
Ask(t, m, o) ==
  /\ stage[t] = "outside"
  /\ Move(t, "asking")
  /\ request' = [request EXCEPT ![t] = [model |-> m, overrides |-> o]]
  /\ UNCHANGED <<voices, voice, sound>>

\* A voice is handed to one worker at a time.
Take(t) ==
  /\ stage[t] = "asking"
  /\ \E v \in 1..voices[Wanted(t)] :
       /\ \A u \in Threads : v \in voice[u] => Wanted(u) # Wanted(t)
       /\ Get(t, v)
  /\ UNCHANGED <<voices, request, sound>>

\* A new one belongs to the worker that had it loaded.
Grow(t) ==
  /\ stage[t] = "asking" /\ voices[Wanted(t)] < MostVoices
  /\ voices' = [voices EXCEPT ![Wanted(t)] = @ + 1]
  /\ Get(t, voices[Wanted(t)] + 1)
  /\ UNCHANGED <<request, sound>>

\* No voice could be loaded.
Refuse(t) ==
  /\ stage[t] = "asking"
  /\ Move(t, "outside")
  /\ UNCHANGED <<voices, request, voice, sound>>

\* What the chunk is to sound like, whoever used the voice before.
Chosen(t, v) ==
  [f \in Fields |-> IF f \in request[t].overrides THEN t ELSE Original[Wanted(t)][v][f]]

Speak(t) ==
  /\ stage[t] = "holding"
  /\ Move(t, "speaking")
  /\ sound' = [sound EXCEPT ![t] = {Chosen(t, v) : v \in voice[t]}]
  /\ UNCHANGED <<voices, request, voice>>

\* A text of several sentences is spoken sentence by sentence, and the silence
\* is put between them.
SpeakApart(t) ==
  /\ stage[t] = "speaking"
  /\ Move(t, "apart")
  /\ sound' = [sound EXCEPT ![t] = {[s EXCEPT !["sentenceSilence"] = "zero"] : s \in sound[t]}]
  /\ UNCHANGED <<voices, request, voice>>

\* The chunk is spoken, or given up.
Stop(t) ==
  /\ stage[t] \in {"holding", "speaking", "apart"}
  /\ Move(t, "leaving")
  /\ sound' = [sound EXCEPT ![t] = {}]
  /\ UNCHANGED <<voices, request, voice>>

Return(t) ==
  /\ stage[t] = "leaving"
  /\ Move(t, "outside")
  /\ voice' = [voice EXCEPT ![t] = {}]
  /\ UNCHANGED <<voices, request, sound>>

Next ==
  \E t \in Threads :
    \/ \E m \in Models, o \in SUBSET Fields : Ask(t, m, o)
    \/ Take(t) \/ Grow(t) \/ Refuse(t)
    \/ Speak(t) \/ SpeakApart(t) \/ Stop(t) \/ Return(t)

Spec == Init /\ [][Next]_vars
=============================================================================
