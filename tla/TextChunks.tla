----------------------------- MODULE TextChunks -----------------------------
(***************************************************************************)
(* Where splitTextIntoChunks() of src/cpp/piper.cpp cuts a text.           *)
(*                                                                         *)
(* The text that is split is the part of the input from begin up to end.   *)
(* Positions count bytes from 0, as in the code: the byte at position i is *)
(* input[i + 1].  A byte is a letter "a", a mark, a blank, or a byte of a  *)
(* character of several bytes, named by its value.  An operator that       *)
(* searches the text gives the set of what it finds, which is empty (npos  *)
(* in the code) or has one element.                                        *)
(***************************************************************************)
EXTENDS Integers, Sequences

CONSTANTS
  Texts,           \* the texts that can be the input
  MaxChunkBytes    \* --max-text-chunk-bytes, the preferred size of a chunk

Blanks == {" ", "newline", "return", "vtab"}
SoftMarks == {";", ":", ",", " ", "newline", "return"}
SentenceMarks == {".", "!", "?"}
ClosingMarks == {")"}
Leads == {"C2", "E2"}
Continuations == {"BF", "A1", "BB", "80", "A6", "9D"}
Bytes == {"a"} \cup Blanks \cup SoftMarks \cup SentenceMarks \cup ClosingMarks
           \cup Leads \cup Continuations

\* A text is made of lines that end in a newline.  Nobody looks whether the
\* bytes between are UTF-8.
ASSUME TextAssumption ==
  /\ MaxChunkBytes \in Nat \ {0}
  /\ \A text \in Texts :
       /\ text \in Seq(Bytes)
       /\ text # <<>> => text[Len(text)] = "newline"

\* What the progress of the splitter depends on: the text has no run of
\* continuation bytes as long as a chunk.  UTF-8 has none, as no character has
\* more than three and main() refuses chunks of fewer than 512 bytes.
WellFormed(text) ==
  \A i \in 1..Len(text) :
    \E j \in 1..i : i - j < MaxChunkBytes /\ text[j] \notin Continuations

VARIABLES
  input,   \* the whole input
  begin,   \* where the text that is split begins
  end      \* and ends

Greatest(S) == {x \in S : \A y \in S : y <= x}
Least(S) == {x \in S : \A y \in S : x <= y}

Is(i, kind) == input[i + 1] \in kind

\* startsWithBytes()
Starts(i, bytes) ==
  /\ i + Len(bytes) <= end
  /\ \A k \in 1..Len(bytes) : input[i + k] = bytes[k]

MutBoundary(index) == IF index >= end THEN {end} ELSE {index}

\* clampToUtf8Boundary()
Boundary(index) ==
  IF index >= end THEN {end}
  ELSE Greatest({i \in begin..index : i = begin \/ ~Is(i, Continuations)})

\* The byte at position i belongs to a closing mark that starts at j.
InClosingMark(i, j) ==
  \/ i = j /\ Is(i, ClosingMarks)
  \/ i - j < 3 /\ Starts(j, <<"E2", "80", "9D">>)
  \/ i - j < 2 /\ Starts(j, <<"C2", "BB">>)

\* skipClosingMarksForward()
AfterClosingMarks(index, limit) ==
  Least({i \in index..limit : i = limit \/ \A j \in index..i : ~InClosingMark(i, j)})

\* isStrongSentenceBoundary(): where a sentence whose last mark is at position i
\* ends, its closing marks included.
SentenceEnd(i) ==
  LET after == IF Is(i, SentenceMarks) THEN {i + 1}
               ELSE IF Starts(i, <<"E2", "80", "A6">>) THEN {i + 3} ELSE {}
      ends == UNION {AfterClosingMarks(j, end) : j \in after}
  IN  {s \in ends : s = end \/ Is(s, Blanks)}

\* findUnclosedSpanishPairEnd(): a question or exclamation opened before the
\* candidate and closed between it and the limit.
PairEnd(opening, closing, offset, candidate, hardLimit) ==
  LET Closes(i) == Is(i, {closing})
      open == \E i \in offset..(candidate - 1) :
                Starts(i, opening) /\ \A k \in (i + 1)..(candidate - 1) : ~Closes(k)
      close == Least({i \in candidate..(hardLimit - 1) : Closes(i)})
  IN  IF open THEN UNION {AfterClosingMarks(i + 1, hardLimit) : i \in close} ELSE {}

\* The searches of chooseSmartSplitPoint(), in their order.
Searches(offset, candidate, hardLimit) ==
  LET third == MaxChunkBytes \div 3
      minBoundary == offset + (IF third > 1 THEN third ELSE 1)
      before == offset..(candidate - 1)
      Behind(found) == Greatest({i + 1 : i \in {j \in found : minBoundary <= j + 1}})
  IN  << PairEnd(<<"C2", "BF">>, "?", offset, candidate, hardLimit),
         PairEnd(<<"C2", "A1">>, "!", offset, candidate, hardLimit),
         Behind({i \in before \ {offset} :
                   Is(i, {"newline"}) /\ Is(i - 1, {"newline", "return"})}),
         Greatest({s \in UNION {SentenceEnd(i) : i \in before} :
                     minBoundary <= s /\ s <= candidate}),
         Behind({i \in before : Is(i, SoftMarks)}),
         Behind({i \in before : Is(i, Blanks)}),
         Least({i + 1 : i \in {j \in candidate..(hardLimit - 1) : Is(j, Blanks)}}),
         {IF hardLimit > offset THEN hardLimit ELSE candidate} >>

FirstFound(searches) ==
  UNION {searches[n] : n \in Least({k \in DOMAIN searches : searches[k] # {}})}

\* chooseSmartSplitPoint()
SplitPoint(offset, candidate, hardLimit) ==
  UNION {FirstFound(found) : found \in {Searches(offset, candidate, hardLimit)}}

\* trimLeadingAsciiWhitespace()
Trimmed(offset) == Least({i \in offset..end : i = end \/ ~Is(i, Blanks)})

MutChunkEnd(offset) ==
  IF end - offset <= MaxChunkBytes THEN {end}
  ELSE UNION {
    UNION {Boundary(s) : s \in SplitPoint(offset, candidate, hardLimit)} :
    candidate \in Boundary(offset + MaxChunkBytes),
    hardLimit \in Boundary(offset + 2 * MaxChunkBytes)}

\* One turn of the loop of splitTextIntoChunks(): where the chunk that begins at
\* offset ends.  A place to split at that is not behind offset, once it was moved
\* back, is given up for the candidate; in a text that is not well-formed that may
\* not be behind offset either.
ChunkEnd(offset) ==
  IF end - offset <= MaxChunkBytes THEN {end}
  ELSE UNION {
    LET cut == UNION {Boundary(s) : s \in SplitPoint(offset, candidate, hardLimit)}
    IN  {s \in cut : s > offset}
          \cup (IF \E s \in cut : s <= offset THEN Boundary(offset + MaxChunkBytes) ELSE {}) :
    candidate \in Boundary(offset + MaxChunkBytes),
    hardLimit \in Boundary(offset + 2 * MaxChunkBytes)}
=============================================================================
