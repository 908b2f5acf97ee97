----------------------------- MODULE CommandLine -----------------------------
(***************************************************************************)
(* The two ways in which main() of src/cpp/main.cpp speaks what it reads:  *)
(* as one WAV file made from the stream (StreamReader), or line by line as *)
(* raw samples written by a second thread (RawOutput).                     *)
(***************************************************************************)
EXTENDS StreamReader, RawOutput

VARIABLE output  \* outputType: OUTPUT_FILE or OUTPUT_RAW

vars == <<output, streamVars, rawVars>>

TypeOK == output \in {"file", "raw"} /\ StreamTypeOK /\ RawTypeOK

\* Only the mode that speaks a stream depends on the text.
Init ==
  /\ output \in {"file", "raw"} /\ StreamInit /\ RawInit
  /\ output = "raw" => input = <<>>

MainThread ==
  \/ output = "file" /\ StreamNext /\ UNCHANGED <<output, rawVars>>
  \/ output = "raw" /\ MainStep /\ UNCHANGED <<output, streamVars>>

WriterThread == output = "raw" /\ WriterStep /\ UNCHANGED <<output, streamVars>>

Next == MainThread \/ WriterThread

Spec == Init /\ [][Next]_vars

\* Both threads are scheduled.
FairSpec == Spec /\ WF_vars(MainThread) /\ WF_vars(WriterThread)

Ended == IF output = "file" THEN phase = "ended" ELSE main \in {"ended", "aborted"}

\* On a well-formed text splitting always advances and the carry always shrinks,
\* and the hand-over of the raw samples, which does not split, loses no wake-up:
\* the program comes to its end.
ProgramEnds == WellFormed(input) => <>Ended
=============================================================================
