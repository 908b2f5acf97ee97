------------------------------ MODULE RawOutput ------------------------------
(***************************************************************************)
(* --output_raw of src/cpp/main.cpp: for each line of text the main thread *)
(* starts a thread that writes the samples, hands it one buffer after the  *)
(* other through sharedAudioBuffer while the synthesis goes on, says that  *)
(* there is no more and joins it.  One action is one critical section of   *)
(* mutAudio, or what a thread does between two.                            *)
(***************************************************************************)
EXTENDS Integers, Sequences

CONSTANTS
  MaxLines,    \* bound: the lines of text
  MaxBuffers   \* bound: the buffers of audio the synthesis of one line gives

ASSUME RawAssumption == MaxLines \in Nat /\ MaxBuffers \in Nat

VARIABLES
  main,      \* what the main thread does
  writer,    \* what rawOutputProc() does, "none" before and after the thread
  lines,     \* lines of text still to come
  buffers,   \* buffers the synthesis of this line can still give
  made,      \* the number of buffers made; they are numbered
  shared,    \* sharedAudioBuffer
  internal,  \* internalAudioBuffer
  ready,     \* audioReady
  finished,  \* audioFinished
  written    \* what was written to stdout

rawVars == <<main, writer, lines, buffers, made, shared, internal, ready, finished, written>>

RawTypeOK ==
  /\ main \in {"reading", "speaking", "joining", "ended", "aborted"}
  /\ writer \in {"none", "running", "asleep", "writing", "ended"}
  /\ lines \in 0..MaxLines /\ buffers \in 0..MaxBuffers
  /\ made \in Nat
  /\ shared \in Seq(1..made) /\ internal \in Seq(1..made) /\ written \in Seq(1..made)
  /\ ready \in BOOLEAN /\ finished \in BOOLEAN

RawInit ==
  /\ main = "reading" /\ writer = "none"
  /\ lines = MaxLines /\ buffers = 0 /\ made = 0
  /\ shared = <<>> /\ internal = <<>> /\ written = <<>>
  /\ ready = FALSE /\ finished = FALSE

-----------------------------------------------------------------------------
(* The main thread                                                         *)

\* A line of text: fresh buffers and flags, and a new thread.
StartLine ==
  /\ main = "reading" /\ lines > 0
  /\ main' = "speaking" /\ writer' = "running"
  /\ lines' = lines - 1 /\ buffers' = MaxBuffers
  /\ shared' = <<>> /\ internal' = <<>> /\ ready' = FALSE /\ finished' = FALSE
  /\ UNCHANGED <<made, written>>

EndOfLines ==
  /\ main = "reading"
  /\ main' = "ended"
  /\ UNCHANGED <<writer, lines, buffers, made, shared, internal, ready, finished, written>>

NotifyOne == writer' = IF writer = "asleep" THEN "running" ELSE writer

\* audioCallback
Callback ==
  /\ main = "speaking" /\ buffers > 0
  /\ buffers' = buffers - 1 /\ made' = made + 1
  /\ shared' = Append(shared, made + 1)
  /\ ready' = TRUE
  /\ NotifyOne
  /\ UNCHANGED <<main, lines, internal, finished, written>>

MutFinish ==
  /\ main = "speaking"
  /\ main' = "joining" /\ finished' = TRUE
  /\ NotifyOne
  /\ UNCHANGED <<lines, buffers, made, shared, internal, ready, written>>

\* textToAudio() returns: there is no more audio.
Finish ==
  /\ main = "speaking"
  /\ main' = "joining" /\ ready' = TRUE /\ finished' = TRUE
  /\ NotifyOne
  /\ UNCHANGED <<lines, buffers, made, shared, internal, written>>

\* textToAudio() throws while the thread is joinable: the program is aborted.
Throw ==
  /\ main = "speaking"
  /\ main' = "aborted" /\ writer' = "none"
  /\ UNCHANGED <<lines, buffers, made, shared, internal, ready, finished, written>>

Join ==
  /\ main = "joining" /\ writer = "ended"
  /\ main' = "reading" /\ writer' = "none"
  /\ UNCHANGED <<lines, buffers, made, shared, internal, ready, finished, written>>

-----------------------------------------------------------------------------
(* rawOutputProc()                                                         *)

FallAsleep ==
  /\ writer = "running" /\ ~ready
  /\ writer' = "asleep"
  /\ UNCHANGED <<main, lines, buffers, made, shared, internal, ready, finished, written>>

MutTake ==
  /\ writer = "running" /\ ready
  /\ IF finished
     THEN writer' = "ended" /\ UNCHANGED <<shared, internal, ready>>
     ELSE /\ internal' = internal \o shared /\ shared' = <<>> /\ ready' = FALSE
          /\ writer' = "writing"
  /\ UNCHANGED <<main, lines, buffers, made, finished, written>>

\* The flag stays set once there is no more audio, so that the last turn of the
\* loop is not waited for.
Take ==
  /\ writer = "running" /\ ready
  /\ \/ /\ shared = <<>> /\ finished
        /\ writer' = "ended"
        /\ UNCHANGED <<shared, internal, ready>>
     \/ /\ shared # <<>> \/ ~finished
        /\ internal' = internal \o shared /\ shared' = <<>>
        /\ ready' = finished
        /\ writer' = "writing"
  /\ UNCHANGED <<main, lines, buffers, made, finished, written>>

MutWrite ==
  /\ writer = "writing"
  /\ written' = written \o internal
  /\ writer' = "running"
  /\ UNCHANGED <<main, lines, buffers, made, shared, internal, ready, finished>>

Write ==
  /\ writer = "writing"
  /\ written' = written \o internal /\ internal' = <<>>
  /\ writer' = "running"
  /\ UNCHANGED <<main, lines, buffers, made, shared, ready, finished>>

-----------------------------------------------------------------------------

MainStep == StartLine \/ EndOfLines \/ Callback \/ Finish \/ Throw \/ Join
WriterStep == FallAsleep \/ Take \/ Write

RawNext == MainStep \/ WriterStep

RawSpec == RawInit /\ [][RawNext]_rawVars

\* The two threads run.
RawFair == WF_rawVars(MainStep) /\ WF_rawVars(WriterStep)

-----------------------------------------------------------------------------

UpTo(n) == [i \in 1..n |-> i]

\* When the main thread goes on to the next line, everything made so far has been
\* written, in order and once; and so it has at the end.
AllAudioWritten == main \in {"reading", "ended"} => written = UpTo(made)

\* What was written is a prefix of what was made, also when the program is
\* aborted.
AudioInOrder == written = UpTo(Len(written)) /\ Len(written) <= made

\* The writer sleeps only while nothing is there to be written and the main
\* thread will still notify it: no buffer waits for a wake-up that was missed
\* and the join does not wait for a thread that nobody will wake.
NoWakeupLost == writer = "asleep" => shared = <<>> /\ main = "speaking"
=============================================================================
