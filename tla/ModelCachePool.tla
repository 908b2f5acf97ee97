---------------------------- MODULE ModelCachePool ----------------------------
(***************************************************************************)
(* ModelCache implements VoicePool.  A worker asks as long as it waits,    *)
(* sleeps or loads; it holds its voice until reset() takes it out of       *)
(* inUse; what its chunk sounds like is what synthesisConfig of the shared *)
(* voice says during the inference.                                        *)
(***************************************************************************)
EXTENDS ModelCache

Stage(t) ==
  CASE thread[t].pc = "idle"                                         -> "outside"
    [] thread[t].pc \in {"entering", "asleep", "woken", "loading"}   -> "asking"
    [] thread[t].pc \in {"leased", "configured"}                     -> "holding"
    [] thread[t].pc = "infer"                                        -> "speaking"
    [] thread[t].pc = "split"                                        -> "apart"
    [] OTHER                                                         -> "leaving"

Requested(t) == [model |-> thread[t].model, overrides |-> thread[t].overrides]

VoiceOf(t) == IF Leasing(t) THEN {thread[t].slot} ELSE {}

SoundOf(t) == IF thread[t].pc \in {"infer", "split"} THEN {Leased(t)} ELSE {}

poolStage   == [t \in Threads |-> Stage(t)]
poolRequest == [t \in Threads |-> Requested(t)]
poolVoice   == [t \in Threads |-> VoiceOf(t)]
poolSound   == [t \in Threads |-> SoundOf(t)]

Pool == INSTANCE VoicePool WITH
  FirstVoices <- [m \in Models |-> IF m = DefaultModel THEN 1 ELSE 0],
  MostVoices  <- maxReplicas,
  Original    <- [m \in Models |-> [s \in Replicas |-> Baseline(m, s)]],
  voices      <- slots,
  stage       <- poolStage,
  request     <- poolRequest,
  voice       <- poolVoice,
  sound       <- poolSound

\* checkout(), the lease and the saving and restoring of synthesisConfig keep
\* what VoicePool promises: with loads that fail, workers that sleep and clients
\* that leave at any moment, a chunk sounds as if its voice were its own and
\* nobody had used it before.
ImplementsPool == Pool!Spec
=============================================================================
