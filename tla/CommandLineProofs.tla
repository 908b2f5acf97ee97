-------------------------- MODULE CommandLineProofs --------------------------
(***************************************************************************)
(* The proofs about the command line program, for every number of lines    *)
(* and buffers and every text.                                             *)
(*                                                                         *)
(* First the raw output, which loses and repeats nothing.  Each buffer is  *)
(* in one of three places: written, in the writer's own buffer, or in the  *)
(* shared one; in this order they hold all that was made (Flow).  Where    *)
(* the two threads are says which of them are empty (Places), and what the *)
(* two flags are (Flags).  Then both modes together: the program behaves   *)
(* as the stream reader and as the raw output, so all that was proved of   *)
(* either holds of it.                                                     *)
(***************************************************************************)
EXTENDS CommandLine, StreamReaderProofs

RawTypes ==
  /\ main \in {"reading", "speaking", "joining", "ended", "aborted"}
  /\ writer \in {"none", "running", "asleep", "writing", "ended"}
  /\ lines \in 0..MaxLines /\ buffers \in 0..MaxBuffers
  /\ made \in Nat
  /\ written \in Seq(Nat) /\ internal \in Seq(Nat) /\ shared \in Seq(Nat)
  /\ ready \in BOOLEAN /\ finished \in BOOLEAN

\* What each place holds, buffer by buffer.
Written  == \A i \in 1..Len(written) : written[i] = i
Internal == \A i \in 1..Len(internal) : internal[i] = Len(written) + i
Shared   == \A i \in 1..Len(shared) : shared[i] = Len(written) + Len(internal) + i
Flow == Written /\ Internal /\ Shared /\ Len(written) + Len(internal) + Len(shared) = made

Places ==
  /\ main \in {"reading", "ended"} => writer = "none" /\ shared = <<>>
  /\ main = "speaking" => ~finished /\ writer # "ended"
  /\ writer # "writing" /\ main # "aborted" => internal = <<>>
  /\ writer = "ended" => shared = <<>> /\ main = "joining"
  /\ writer = "none" <=> main \in {"reading", "ended", "aborted"}

\* What the writer is told by the flags: it never sleeps beside a raised one.
Flags ==
  /\ writer = "asleep" => ~ready
  /\ shared # <<>> /\ main # "aborted" => ready
  /\ finished => ready
  /\ main = "joining" => finished

RawInv == RawTypes /\ Flow /\ Places /\ Flags

-----------------------------------------------------------------------------

\* Initially there is nothing anywhere.
LEMMA InitRawInv == RawInit => RawInv
<1> SUFFICES ASSUME RawInit PROVE RawInv
  OBVIOUS
<1>1. <<>> \in Seq(Nat) /\ Len(<<>>) = 0
  OBVIOUS
<1>2. RawTypes
  <2>1. MaxLines \in 0..MaxLines /\ 0 \in 0..MaxBuffers
    BY RawAssumption DEF RawAssumption
  <2> QED BY <1>1, <2>1 DEF RawInit, RawTypes
<1>3. Flow
  BY <1>1 DEF RawInit, Flow, Written, Internal, Shared
<1>4. Places /\ Flags
  BY DEF RawInit, Places, Flags
<1> QED BY <1>2, <1>3, <1>4 DEF RawInv

\* Appending the next buffer to the shared ones keeps the order.
LEMMA CallbackKeeps == RawInv /\ Callback => RawInv'
<1> SUFFICES ASSUME RawInv, Callback PROVE RawInv'
  OBVIOUS
<1> USE DEF RawInv
<1>1. /\ shared' = Append(shared, made + 1) /\ made' = made + 1
      /\ written' = written /\ internal' = internal
      /\ ready' = TRUE /\ finished' = finished /\ main' = main /\ main = "speaking"
      /\ lines' = lines /\ buffers' = buffers - 1 /\ buffers > 0
  BY DEF Callback
<1>2. writer' = IF writer = "asleep" THEN "running" ELSE writer
  BY DEF Callback, NotifyOne
<1>3. /\ Len(shared') = Len(shared) + 1
      /\ \A i \in 1..Len(shared) : shared'[i] = shared[i]
      /\ shared'[Len(shared) + 1] = made + 1
      /\ shared' \in Seq(Nat)
  BY <1>1 DEF RawTypes
<1>4. RawTypes'
  <2>1. lines' \in 0..MaxLines /\ buffers' \in 0..MaxBuffers
    BY <1>1, RawAssumption DEF RawTypes, RawAssumption
  <2> QED BY <1>1, <1>2, <1>3, <2>1 DEF RawTypes
<1>5. Flow'
  <2>1. Written' /\ Internal'
    BY <1>1 DEF Flow, Written, Internal
  <2>2. Len(written') + Len(internal') + Len(shared') = made'
    BY <1>1, <1>3 DEF Flow, RawTypes
  <2>3. ASSUME NEW i \in 1..Len(shared')
        PROVE  shared'[i] = Len(written') + Len(internal') + i
    <3>1. CASE i \in 1..Len(shared)
      BY <3>1, <1>1, <1>3 DEF Flow, Shared
    <3>2. CASE i = Len(shared) + 1
      <4>1. Len(written) + Len(internal) + i = made + 1
        <5>1. Len(written) + Len(internal) + Len(shared) = made
          BY DEF Flow
        <5>2. Len(written) \in Nat /\ Len(internal) \in Nat /\ Len(shared) \in Nat
          BY DEF RawTypes
        <5> QED BY <3>2, <5>1, <5>2
      <4>2. shared'[i] = made + 1 /\ written' = written /\ internal' = internal
        BY <3>2, <1>1, <1>3
      <4> QED BY <4>1, <4>2
    <3> QED BY <3>1, <3>2, <1>3 DEF RawTypes
  <2> QED BY <2>1, <2>2, <2>3 DEF Flow, Shared
<1>6. Places' /\ Flags'
  <2>1. ~finished /\ writer \in {"running", "asleep", "writing"}
    BY <1>1 DEF Places, RawTypes
  <2>2. writer' \in {"running", "writing"} /\ (writer' = "writing" => writer = "writing")
    BY <1>2, <2>1
  <2>3. Places'
    <3>1. writer' # "writing" => writer # "writing"
      BY <1>2
    <3>2. writer' # "writing" /\ main' # "aborted" => internal' = <<>>
      BY <1>1, <3>1 DEF Places
    <3> QED BY <1>1, <2>1, <2>2, <3>2 DEF Places
  <2>4. Flags'
    BY <1>1, <2>2 DEF Flags
  <2> QED BY <2>3, <2>4
<1> QED BY <1>4, <1>5, <1>6

\* The writer takes all of the shared buffers behind those it still holds.
LEMMA TakeKeeps == RawInv /\ Take => RawInv'
<1> SUFFICES ASSUME RawInv, Take PROVE RawInv'
  OBVIOUS
<1> USE DEF RawInv
<1>1. CASE shared = <<>> /\ finished /\ writer' = "ended" /\ UNCHANGED <<shared, internal, ready>>
  <2>1. UNCHANGED <<main, lines, buffers, made, finished, written>> /\ writer = "running"
    BY DEF Take
  <2>2. RawTypes' /\ Flow'
    BY <1>1, <2>1 DEF RawTypes, Flow, Written, Internal, Shared
  <2>3. main = "joining"
    BY <2>1, <1>1 DEF Places, RawTypes
  <2> QED BY <1>1, <2>1, <2>2, <2>3 DEF Places, Flags
<1>2. CASE /\ internal' = internal \o shared /\ shared' = <<>>
           /\ ready' = finished /\ writer' = "writing"
  <2>1. UNCHANGED <<main, lines, buffers, made, finished, written>> /\ writer = "running"
    BY DEF Take
  <2>2. /\ Len(internal') = Len(internal) + Len(shared)
        /\ internal' \in Seq(Nat) /\ shared' \in Seq(Nat) /\ Len(shared') = 0
        /\ \A i \in 1..Len(internal) : internal'[i] = internal[i]
        /\ \A i \in 1..Len(shared) : internal'[Len(internal) + i] = shared[i]
    BY <1>2 DEF RawTypes
  <2>3. RawTypes'
    BY <1>2, <2>1, <2>2 DEF RawTypes
  <2>4. Flow'
    <3>1. ASSUME NEW i \in 1..Len(internal') PROVE internal'[i] = Len(written) + i
      <4>1. CASE i \in 1..Len(internal)
        BY <4>1, <2>2 DEF Flow, Internal
      <4>2. CASE i \in (Len(internal) + 1)..Len(internal')
        <5>1. PICK k \in 1..Len(shared) : i = Len(internal) + k
          <6>1. i - Len(internal) \in 1..Len(shared) /\ i = Len(internal) + (i - Len(internal))
            BY <4>2, <2>2 DEF RawTypes
          <6> QED BY <6>1
        <5> QED BY <5>1, <2>2 DEF Flow, Shared, RawTypes
      <4> QED BY <4>1, <4>2, <2>2 DEF RawTypes
    <3>2. Len(written') + Len(internal') + Len(shared') = made'
      BY <2>1, <2>2 DEF Flow, RawTypes
    <3> QED BY <3>1, <3>2, <2>1, <2>2 DEF Flow, Written, Internal, Shared
  <2> QED BY <1>2, <2>1, <2>3, <2>4 DEF Places, Flags
<1> QED BY <1>1, <1>2 DEF Take

\* What the writer holds comes next.
LEMMA WriteKeeps == RawInv /\ Write => RawInv'
<1> SUFFICES ASSUME RawInv, Write PROVE RawInv'
  OBVIOUS
<1> USE DEF RawInv
<1>1. /\ written' = written \o internal /\ internal' = <<>> /\ writer' = "running"
      /\ UNCHANGED <<main, lines, buffers, made, shared, ready, finished>> /\ writer = "writing"
  BY DEF Write
<1>2. /\ Len(written') = Len(written) + Len(internal)
      /\ written' \in Seq(Nat) /\ internal' \in Seq(Nat) /\ Len(internal') = 0
      /\ \A i \in 1..Len(written) : written'[i] = written[i]
      /\ \A i \in 1..Len(internal) : written'[Len(written) + i] = internal[i]
  BY <1>1 DEF RawTypes
<1>3. RawTypes'
  BY <1>1, <1>2 DEF RawTypes
<1>4. Flow'
  <2>1. ASSUME NEW i \in 1..Len(written') PROVE written'[i] = i
    <3>1. CASE i \in 1..Len(written)
      BY <3>1, <1>2 DEF Flow, Written
    <3>2. CASE i \in (Len(written) + 1)..Len(written')
      <4>1. PICK k \in 1..Len(internal) : i = Len(written) + k
        <5>1. i - Len(written) \in 1..Len(internal) /\ i = Len(written) + (i - Len(written))
          BY <3>2, <1>2 DEF RawTypes
        <5> QED BY <5>1
      <4> QED BY <4>1, <1>2 DEF Flow, Internal, RawTypes
    <3> QED BY <3>1, <3>2, <1>2 DEF RawTypes
  <2>2. Len(written') + Len(internal') + Len(shared') = made'
    BY <1>1, <1>2 DEF Flow, RawTypes
  <2>3. Shared'
    BY <1>1, <1>2 DEF Flow, Shared, RawTypes
  <2> QED BY <2>1, <2>2, <2>3, <1>2 DEF Flow, Written, Internal
<1>5. Places' /\ Flags'
  BY <1>1 DEF Places, Flags
<1> QED BY <1>3, <1>4, <1>5

\* The other steps move no buffer; a new line finds nothing left of the last.
LEMMA QuietKeeps ==
  ASSUME RawInv, StartLine \/ EndOfLines \/ Finish \/ Throw \/ Join \/ FallAsleep
  PROVE  RawInv'
<1> USE DEF RawInv, RawTypes, Flow, Written, Internal, Shared, Places, Flags
<1>1. CASE StartLine
  <2>1. lines' \in 0..MaxLines /\ buffers' \in 0..MaxBuffers
    BY <1>1, RawAssumption DEF StartLine, RawAssumption
  <2> QED BY <1>1, <2>1 DEF StartLine
<1>2. CASE EndOfLines
  BY <1>2 DEF EndOfLines
<1>3. CASE Finish
  BY <1>3 DEF Finish, NotifyOne
<1>4. CASE Throw
  BY <1>4 DEF Throw
<1>5. CASE Join
  BY <1>5 DEF Join
<1>6. CASE FallAsleep
  BY <1>6 DEF FallAsleep
<1> QED BY <1>1, <1>2, <1>3, <1>4, <1>5, <1>6

\* Every buffer that was made is in its place.
THEOREM RawInductive == RawSpec => []RawInv
<1>1. RawInv /\ [RawNext]_rawVars => RawInv'
  <2> SUFFICES ASSUME RawInv, [RawNext]_rawVars PROVE RawInv'
    OBVIOUS
  <2>1. CASE UNCHANGED rawVars
    BY <2>1 DEF rawVars, RawInv, RawTypes, Flow, Written, Internal, Shared, Places, Flags
  <2>2. CASE RawNext
    BY <2>2, CallbackKeeps, TakeKeeps, WriteKeeps, QuietKeeps
      DEF RawNext, MainStep, WriterStep
  <2> QED BY <2>1, <2>2
<1> QED BY InitRawInv, <1>1, PTL DEF RawSpec

\* A sequence whose elements are all in a set is one over that set.
LEMMA SequencesOver ==
  ASSUME NEW S, NEW s \in Seq(Nat), \A i \in 1..Len(s) : s[i] \in S
  PROVE  s \in Seq(S)
OBVIOUS

\* A sequence that counts up from 1 is UpTo of its length.
LEMMA Counting ==
  ASSUME NEW s \in Seq(Nat), \A i \in 1..Len(s) : s[i] = i
  PROVE  s = UpTo(Len(s))
BY DEF UpTo

\* What the program writes is a prefix of what was synthesized, also when it is
\* aborted.
THEOREM AudioInOrderHolds == RawSpec => []AudioInOrder
<1>1. RawInv => AudioInOrder
  <2> SUFFICES ASSUME RawInv PROVE AudioInOrder
    OBVIOUS
  <2>1. written = UpTo(Len(written))
    BY Counting DEF RawInv, RawTypes, Flow, Written
  <2>2. Len(written) <= made
    BY DEF RawInv, RawTypes, Flow
  <2> QED BY <2>1, <2>2 DEF AudioInOrder
<1> QED BY RawInductive, <1>1, PTL

\* All audio of a line has been written when the next line begins, and all of it
\* when the input ends.
THEOREM AllAudioWrittenHolds == RawSpec => []AllAudioWritten
<1>1. RawInv => AllAudioWritten
  <2> SUFFICES ASSUME RawInv, main \in {"reading", "ended"} PROVE written = UpTo(made)
    BY DEF AllAudioWritten
  <2>1. internal = <<>> /\ shared = <<>>
    BY DEF RawInv, Places
  <2>2. Len(written) = made
    BY <2>1 DEF RawInv, RawTypes, Flow
  <2>3. written = UpTo(Len(written))
    BY Counting DEF RawInv, RawTypes, Flow, Written
  <2> QED BY <2>2, <2>3
<1> QED BY RawInductive, <1>1, PTL

\* The writer never sleeps beside buffers to write or a main thread that joins
\* it: sharedAudioBuffer and the flags change under mutAudio with a notification.
THEOREM NoWakeupLostHolds == RawSpec => []NoWakeupLost
<1>1. RawInv => NoWakeupLost
  BY DEF RawInv, RawTypes, Places, Flags, NoWakeupLost
<1> QED BY RawInductive, <1>1, PTL

\* Each variable of the raw output keeps its type; what is in a buffer has been
\* made.
THEOREM RawTypeCorrect == RawSpec => []RawTypeOK
<1>1. RawInv => RawTypeOK
  <2> SUFFICES ASSUME RawInv PROVE RawTypeOK
    OBVIOUS
  <2>1. /\ RawTypes /\ Flow
        /\ Len(written) \in Nat /\ Len(internal) \in Nat /\ Len(shared) \in Nat
    BY DEF RawInv, RawTypes
  <2>2. /\ \A i \in 1..Len(written) : written[i] \in 1..made
        /\ \A i \in 1..Len(internal) : internal[i] \in 1..made
        /\ \A i \in 1..Len(shared) : shared[i] \in 1..made
    BY <2>1 DEF RawTypes, Flow, Written, Internal, Shared
  <2>3. written \in Seq(1..made) /\ internal \in Seq(1..made) /\ shared \in Seq(1..made)
    BY <2>1, <2>2, SequencesOver DEF RawTypes
  <2> QED BY <2>1, <2>3 DEF RawTypes, RawTypeOK
<1> QED BY RawInductive, <1>1, PTL

-----------------------------------------------------------------------------
(* Both modes together                                                     *)

\* Whichever mode runs, the other one stands still.
THEOREM BothModes == Spec => StreamSpec /\ RawSpec
<1>1. Init => StreamInit /\ RawInit
  BY DEF Init
<1>2. [Next]_vars => [StreamNext]_streamVars
  BY DEF Next, MainThread, WriterThread, vars
<1>3. [Next]_vars => [RawNext]_rawVars
  BY DEF Next, MainThread, WriterThread, RawNext, vars
<1> QED BY <1>1, <1>2, <1>3, PTL DEF Spec, StreamSpec, RawSpec

\* Every variable of the program keeps its type.
THEOREM ProgramTypeCorrect == Spec => []TypeOK
<1>1. Init => output \in {"file", "raw"}
  BY DEF Init
<1>2. output \in {"file", "raw"} /\ [Next]_vars => (output \in {"file", "raw"})'
  BY DEF Next, MainThread, WriterThread, vars
<1>3. output \in {"file", "raw"} /\ StreamTypeOK /\ RawTypeOK => TypeOK
  BY DEF TypeOK
<1> QED BY <1>1, <1>2, <1>3, BothModes, TypeCorrect, RawTypeCorrect, PTL DEF Spec

\* What main() reads is spoken, in either mode: no byte of a text is lost, no more
\* is repeated than there were blanks, and every buffer of audio is written once
\* and in order.
THEOREM ProgramSpeaks ==
  Spec => [](NothingLost /\ RepeatBounded /\ AllAudioWritten /\ AudioInOrder)
BY BothModes, NothingLostHolds, RepeatBoundedHolds, AllAudioWrittenHolds, AudioInOrderHolds, PTL

\* The safety half of the end of the program, for a text it speaks as a stream:
\* what the next step needs is always there, and on a well-formed text every step
\* takes the reader further.  UTF-8 is well-formed; on other bytes the splitter
\* may spin, and main() refuses none.
THEOREM ProgramAdvances == Spec => Advances /\ []GoesOn
BY BothModes, AdvancesHolds, NeverStuck, PTL
=============================================================================
