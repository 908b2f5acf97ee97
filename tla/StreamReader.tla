---------------------------- MODULE StreamReader ----------------------------
(***************************************************************************)
(* textToWavFileFromStream() of src/cpp/piper.cpp: a text is read line by  *)
(* line; as soon as more than two chunks' worth is pending it is split and *)
(* all chunks but the last are spoken; the rest is carried to the next     *)
(* line.  The pending text is the part of the input from begin up to end,  *)
(* where the lines read so far end.                                        *)
(***************************************************************************)
EXTENDS TextChunks, FiniteSets

VARIABLES
  phase,     \* where the reader is
  offset,    \* of the splitter in the pending text
  chunks,    \* the chunks it has cut, each from a position to another
  next,      \* the next chunk to speak
  consumed,  \* consumedBytes
  atEnd,     \* the stream has no more lines
  spoken     \* the positions of the bytes that were given to the synthesis

streamVars == <<input, begin, end, phase, offset, chunks, next, consumed, atEnd, spoken>>

Span(c) == c.from..(c.to - 1)

StreamTypeOK ==
  /\ input \in Seq(Bytes) /\ end \in 0..Len(input)
  /\ begin \in 0..end /\ offset \in begin..end
  /\ phase \in {"read", "split", "spins", "speak", "ended"}
  /\ chunks \in Seq([from : 0..end, to : 0..end])
  /\ next \in Nat \ {0} /\ consumed \in Nat /\ atEnd \in BOOLEAN
  /\ spoken \subseteq 0..(end - 1)

StreamInit ==
  /\ input \in Texts /\ begin = 0 /\ end = 0 /\ phase = "read" /\ offset = 0
  /\ chunks = <<>> /\ next = 1 /\ consumed = 0 /\ atEnd = FALSE /\ spoken = {}

-----------------------------------------------------------------------------

MutPending(from, to) == IF to - end > 2 * MaxChunkBytes THEN "split" ELSE "read"

\* The loop around the splitting is left when the pending text is short.
Pending(from, to) == IF to - from > 2 * MaxChunkBytes THEN "split" ELSE "read"

ReadLine ==
  /\ phase = "read"
  /\ end' \in Least({i \in (end + 1)..Len(input) : input[i] = "newline"})
  /\ phase' = Pending(begin, end')
  /\ offset' = begin /\ chunks' = <<>>
  /\ UNCHANGED <<input, begin, next, consumed, atEnd, spoken>>

EndOfStream ==
  /\ phase = "read" /\ ~atEnd /\ end = Len(input)
  /\ atEnd' = TRUE
  /\ phase' = IF begin = end THEN "ended" ELSE "split"
  /\ offset' = begin /\ chunks' = <<>>
  /\ UNCHANGED <<input, begin, end, next, consumed, spoken>>

StartSpeaking ==
  /\ phase' = "speak" /\ next' = 1 /\ consumed' = 0

\* splitTextIntoChunks() does not split a short text, nor trim it.
WholeText ==
  /\ phase = "split" /\ end - begin <= MaxChunkBytes
  /\ chunks' = <<[from |-> begin, to |-> end]>>
  /\ StartSpeaking
  /\ UNCHANGED <<input, begin, end, offset, atEnd, spoken>>

\* One turn of the loop.
CutChunk ==
  /\ phase = "split" /\ end - begin > MaxChunkBytes
  /\ \E from \in Trimmed(offset) :
       /\ from < end
       /\ \E to \in ChunkEnd(from) :
            /\ from < to
            /\ chunks' = Append(chunks, [from |-> from, to |-> to]) /\ offset' = to
  /\ UNCHANGED <<input, begin, end, phase, next, consumed, atEnd, spoken>>

\* On a text that is not well-formed a turn may end where it began, or in front of
\* that.  All the turns that follow do the same (SpinsForEver), each with one more
\* chunk, until there is no memory for another; nobody comes to speak them.
Spin ==
  /\ phase = "split" /\ end - begin > MaxChunkBytes
  /\ \E from \in Trimmed(offset) : from < end /\ \E to \in ChunkEnd(from) : to <= from
  /\ phase' = "spins"
  /\ UNCHANGED <<input, begin, end, offset, chunks, next, consumed, atEnd, spoken>>

\* The text is split; a text of blanks gives no chunk, and the reader reads on.
SplitDone ==
  /\ phase = "split" /\ end - begin > MaxChunkBytes
  /\ end \in Trimmed(offset)
  /\ \/ chunks # <<>> /\ StartSpeaking
     \/ /\ chunks = <<>> /\ phase' = IF atEnd THEN "ended" ELSE "read"
        /\ UNCHANGED <<next, consumed>>
  /\ UNCHANGED <<input, begin, end, offset, chunks, atEnd, spoken>>

\* The last chunk may go on in the next line and is carried, unless it is the
\* only one or there is no next line.
ChunksToSpeak == IF ~atEnd /\ Len(chunks) > 1 THEN Len(chunks) - 1 ELSE Len(chunks)

MutSpeakChunk ==
  /\ phase = "speak" /\ next <= ChunksToSpeak
  /\ spoken' = spoken \cup Span(chunks[next])
  /\ consumed' = consumed + Cardinality({i \in Span(chunks[next]) : ~Is(i, Continuations)})
  /\ next' = next + 1
  /\ UNCHANGED <<input, begin, end, phase, offset, chunks, atEnd>>

SpeakChunk ==
  /\ phase = "speak" /\ next <= ChunksToSpeak
  /\ spoken' = spoken \cup Span(chunks[next])
  /\ consumed' = consumed + (chunks[next].to - chunks[next].from)
  /\ next' = next + 1
  /\ UNCHANGED <<input, begin, end, phase, offset, chunks, atEnd>>

MutCarryOffset ==
  /\ phase = "speak" /\ next > ChunksToSpeak /\ ~atEnd
  /\ IF consumed >= end - begin
     THEN begin' = end /\ phase' = "read"
     ELSE begin' \in Trimmed(begin + consumed) /\ phase' = Pending(begin', end)
  /\ chunks' = <<>>
  /\ UNCHANGED <<input, end, offset, next, consumed, atEnd, spoken>>

MutCarry ==
  /\ phase = "speak" /\ next > ChunksToSpeak /\ ~atEnd
  /\ begin' = end /\ phase' = "read" /\ offset' = begin' /\ chunks' = <<>>
  /\ UNCHANGED <<input, end, next, consumed, atEnd, spoken>>

MutEraseNothing ==
  /\ phase = "speak" /\ next > ChunksToSpeak /\ ~atEnd
  /\ IF consumed >= end - begin
     THEN begin' = end /\ phase' = "read"
     ELSE begin' = begin /\ phase' = Pending(begin', end)
  /\ offset' = begin' /\ chunks' = <<>>
  /\ UNCHANGED <<input, end, next, consumed, atEnd, spoken>>

\* As many bytes as were spoken are erased, and the blanks behind them.
Carry ==
  /\ phase = "speak" /\ next > ChunksToSpeak /\ ~atEnd
  /\ \/ /\ consumed = 0 \/ consumed >= end - begin
        /\ begin' = end /\ phase' = "read"
     \/ /\ 0 < consumed /\ consumed < end - begin
        /\ begin' \in Trimmed(begin + consumed)
        /\ phase' = Pending(begin', end)
  /\ offset' = begin' /\ chunks' = <<>>
  /\ UNCHANGED <<input, end, next, consumed, atEnd, spoken>>

EndStream ==
  /\ phase = "speak" /\ next > ChunksToSpeak /\ atEnd
  /\ phase' = "ended"
  /\ UNCHANGED <<input, begin, end, offset, chunks, next, consumed, atEnd, spoken>>

StreamNext ==
  \/ ReadLine \/ EndOfStream
  \/ WholeText \/ CutChunk \/ Spin \/ SplitDone
  \/ SpeakChunk \/ Carry \/ EndStream

StreamSpec == StreamInit /\ [][StreamNext]_streamVars

-----------------------------------------------------------------------------

\* Every byte that has left the pending text was spoken, unless it is a blank,
\* and at the end so was everything.
NothingLost ==
  \A i \in 0..(end - 1) :
    i < begin \/ phase = "ended" => i \in spoken \/ Is(i, Blanks)

\* The chunks of one split, which are spoken, are in order and do not overlap,
\* none is longer than twice the preferred size, and none ends inside a
\* character, nor in front of a stray byte of one.
ChunksFit ==
  \A k \in DOMAIN chunks :
    LET c == chunks[k] IN
      /\ c.to - c.from <= 2 * MaxChunkBytes
      /\ k > 1 => chunks[k - 1].to <= c.from
      /\ c.to < end => ~Is(c.to, Continuations)

\* The memory of the reader is bounded: when it reads on, no more than two
\* chunks' worth is pending, unless all of that is blank.
CarryBounded ==
  phase = "read" /\ ~atEnd =>
    \/ end - begin <= 2 * MaxChunkBytes
    \/ \A i \in begin..(end - 1) : Is(i, Blanks)

BlanksBefore(i) == {b \in 0..(i - 1) : Is(b, Blanks)}

\* The bytes erased are counted without the blanks skipped before each chunk, and
\* what is carried may begin in front of what was spoken last; but over all lines
\* together by no more bytes than there were blanks.
RepeatBounded ==
  phase = "read" => \A i \in spoken : i < begin + Cardinality(BlanksBefore(i))

\* How far the reader is, the most significant part first.
Stage == [spins |-> 0, split |-> 1, speak |-> 2, read |-> 3, ended |-> 4]
Progress == <<begin, end, IF atEnd THEN 1 ELSE 0, Stage[phase], offset, next>>

Below(s, t) == \E k \in DOMAIN s : s[k] < t[k] /\ \A m \in 1..(k - 1) : s[m] = t[m]

\* Every step of the three nested loops, reading, carrying and splitting, takes
\* the reader further on: on a well-formed text none of them turns on the spot,
\* even where a place to split at is moved back to where its chunk begins.  On
\* other texts the splitter may (Spin).
Advances == [][WellFormed(input) => Below(Progress, Progress')]_streamVars

-----------------------------------------------------------------------------
(* What the documentation says and the code does not keep                  *)

\* README.md: smart text chunking avoids breaking UTF-8 characters.  No chunk
\* begins inside one.
CharactersWhole ==
  \A k \in DOMAIN chunks : ~Is(chunks[k].from, Continuations)
=============================================================================
