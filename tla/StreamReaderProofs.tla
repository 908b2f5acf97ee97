------------------------- MODULE StreamReaderProofs -------------------------
(***************************************************************************)
(* The proofs about the stream reader, for all texts and chunk sizes.      *)
(*                                                                         *)
(* First the splitter: a chunk ends at most twice the preferred size behind *)
(* its beginning and never inside a character.  Then the invariant of the  *)
(* reader: its chunks are in order and, with blanks, cover the pending     *)
(* text as far as it was split (Cut); those that were spoken reach at      *)
(* least as far as the bytes that will be erased (Speaking), and further   *)
(* by no more than there were blanks (Lag).                                *)
(* At last that the reader goes on: the splitter always cuts, at one place, *)
(* so the next step is always there (GoesOn).  All this holds of any bytes. *)
(* On a well-formed text that place is further on, and so is the reader    *)
(* after every step (Progress); where it is not, it will never be          *)
(* (SpinsForEver).                                                         *)
(***************************************************************************)
EXTENDS StreamReader, FiniteSetTheorems, WellFoundedInduction, TLAPS

LEMMA Size == MaxChunkBytes \in Nat /\ MaxChunkBytes > 0
BY TextAssumption

LEMMA GreatestIn == ASSUME NEW S, NEW x \in Greatest(S) PROVE x \in S /\ \A y \in S : y <= x
BY DEF Greatest

LEMMA LeastIn == ASSUME NEW S, NEW x \in Least(S) PROVE x \in S /\ \A y \in S : x <= y
BY DEF Least

\* The pending text is a part of an input that is one of Texts.
InText == input \in Texts /\ end \in 0..Len(input) /\ begin \in 0..end

LEMMA InTextTypes == InText => input \in Seq(Bytes) /\ end \in Nat /\ begin \in Nat /\ begin <= end
<1> SUFFICES ASSUME InText PROVE input \in Seq(Bytes) /\ end \in Nat /\ begin \in Nat /\ begin <= end
  OBVIOUS
<1>1. input \in Seq(Bytes)
  BY TextAssumption DEF InText
<1>2. Len(input) \in Nat
  BY <1>1
<1> QED BY <1>1, <1>2 DEF InText

-----------------------------------------------------------------------------
(* The splitter                                                            *)

\* A position is moved back, and not behind the beginning; unless it is one of
\* the ends it is then that of a character.
LEMMA BoundaryBack ==
  ASSUME InText, NEW i \in Nat, begin <= i, NEW b \in Boundary(i)
  PROVE  /\ b \in Nat /\ begin <= b /\ b <= end /\ b <= i
         /\ b = end \/ b = begin \/ ~Is(b, Continuations)
<1>1. CASE i >= end
  BY <1>1, InTextTypes DEF Boundary
<1>2. CASE ~(i >= end)
  <2>1. b \in {j \in begin..i : j = begin \/ ~Is(j, Continuations)}
    BY <1>2, GreatestIn DEF Boundary
  <2> QED BY <1>2, <2>1, InTextTypes
<1> QED BY <1>1, <1>2

\* It is not moved back over the beginning of a character,
LEMMA BoundaryStops ==
  ASSUME InText, NEW p \in Nat, begin <= p, p < end, p = begin \/ ~Is(p, Continuations),
         NEW i \in Nat, p <= i, NEW b \in Boundary(i)
  PROVE  p <= b
<1>1. CASE i >= end
  BY <1>1, InTextTypes DEF Boundary
<1>2. CASE ~(i >= end)
  <2>1. p \in {j \in begin..i : j = begin \/ ~Is(j, Continuations)}
    BY InTextTypes
  <2> QED BY <1>2, <2>1, GreatestIn DEF Boundary
<1> QED BY <1>1, <1>2

\* and in a well-formed text by less than a chunk.
LEMMA BoundaryNear ==
  ASSUME InText, WellFormed(input), NEW o \in Nat, NEW i \in Nat, begin <= o, o + MaxChunkBytes <= i, o < end,
         NEW b \in Boundary(i)
  PROVE  o < b /\ (b = end \/ ~Is(b, Continuations))
<1>1. CASE i >= end
  BY <1>1 DEF Boundary
<1>2. CASE ~(i >= end)
  <2>1. i + 1 \in 1..Len(input)
    BY <1>2, InTextTypes DEF InText
  <2>2. PICK j \in 1..(i + 1) : i + 1 - j < MaxChunkBytes /\ input[j] \notin Continuations
    <3>1. PICK j \in 1..(i + 1) : (i + 1) - j < MaxChunkBytes /\ input[j] \notin Continuations
      BY <2>1 DEF WellFormed
    <3> QED BY <3>1
  <2>3. j - 1 \in begin..i /\ o < j - 1 /\ (j - 1) + 1 = j
    BY <2>2, Size, InTextTypes
  <2>4. ~Is(j - 1, Continuations)
    BY <2>2, <2>3 DEF Is
  <2>5. b \in Greatest({k \in begin..i : k = begin \/ ~Is(k, Continuations)})
    BY <1>2 DEF Boundary
  <2>6. j - 1 <= b
    BY <2>3, <2>4, <2>5, GreatestIn
  <2>7. b \in Nat /\ (b = begin \/ ~Is(b, Continuations))
    BY <2>5, GreatestIn, InTextTypes
  <2> QED BY <2>2, <2>3, <2>6, <2>7, InTextTypes
<1> QED BY <1>1, <1>2

\* Closing marks are skipped up to the limit.
LEMMA MarksWithin ==
  ASSUME NEW i \in Nat, NEW limit \in Nat, NEW s \in AfterClosingMarks(i, limit)
  PROVE  s \in Nat /\ i <= s /\ s <= limit
<1>1. s \in {k \in i..limit : k = limit \/ \A j \in i..k : ~InClosingMark(k, j)}
  BY LeastIn DEF AfterClosingMarks
<1> QED BY <1>1

\* Whatever search finds it, the place to split at is within the hard limit.
LEMMA SearchWithin ==
  ASSUME InText, NEW o \in Nat, NEW candidate \in Nat, NEW hardLimit \in Nat, NEW limit \in Nat,
         candidate <= limit, hardLimit <= limit, begin <= o, begin <= candidate, begin <= hardLimit,
         NEW s \in SplitPoint(o, candidate, hardLimit)
  PROVE  s \in Nat /\ begin <= s /\ s <= limit
<1> DEFINE Good(x) == x \in Nat /\ begin <= x /\ x <= limit
           third == MaxChunkBytes \div 3
           minBoundary == o + (IF third > 1 THEN third ELSE 1)
           before == o..(candidate - 1)
           Behind(found) == Greatest({i + 1 : i \in {j \in found : minBoundary <= j + 1}})
           marks == {x \in UNION {SentenceEnd(i) : i \in before} :
                       minBoundary <= x /\ x <= candidate}
<1>1. PICK n \in DOMAIN Searches(o, candidate, hardLimit) : s \in Searches(o, candidate, hardLimit)[n]
  <2> DEFINE all == Searches(o, candidate, hardLimit)
  <2>1. s \in FirstFound(all)
    BY DEF SplitPoint
  <2> HIDE DEF all
  <2>2. PICK n \in Least({k \in DOMAIN all : all[k] # {}}) : s \in all[n]
    BY <2>1 DEF FirstFound
  <2>3. n \in DOMAIN all
    BY <2>2, LeastIn
  <2> QED BY <2>2, <2>3 DEF all
<1>2. ASSUME NEW opening, NEW closing, NEW x \in PairEnd(opening, closing, o, candidate, hardLimit)
      PROVE  Good(x)
  <2>1. PICK i \in Least({k \in candidate..(hardLimit - 1) : Is(k, {closing})}) :
          x \in AfterClosingMarks(i + 1, hardLimit)
    BY DEF PairEnd
  <2>2. i \in Nat /\ candidate <= i
    BY <2>1, LeastIn
  <2> QED BY <2>1, <2>2, MarksWithin, InTextTypes
<1>3. ASSUME NEW found \in SUBSET before, NEW x \in Behind(found)
      PROVE  Good(x)
  <2>1. x \in {i + 1 : i \in {j \in found : minBoundary <= j + 1}}
    BY GreatestIn
  <2>2. PICK i \in found : x = i + 1
    BY <2>1
  <2>3. i \in before
    BY <2>2
  <2> QED BY <2>2, <2>3, InTextTypes
<1>4. ASSUME NEW x \in Greatest(marks)
      PROVE  Good(x)
  <2>1. x \in marks
    BY GreatestIn
  <2>2. PICK i \in before : x \in SentenceEnd(i)
    BY <2>1
  <2>3. PICK j \in {i + 1, i + 3} : x \in AfterClosingMarks(j, end)
    BY <2>2 DEF SentenceEnd
  <2>4. x \in Nat /\ j <= x
    BY <2>3, MarksWithin, InTextTypes
  <2> QED BY <2>1, <2>2, <2>3, <2>4, InTextTypes
<1>5. ASSUME NEW x \in Least({i + 1 : i \in {j \in candidate..(hardLimit - 1) : Is(j, Blanks)}})
      PROVE  Good(x)
  <2>1. PICK i \in candidate..(hardLimit - 1) : x = i + 1
    BY LeastIn
  <2> QED BY <2>1, InTextTypes
<1>6. ASSUME NEW x \in {IF hardLimit > o THEN hardLimit ELSE candidate}
      PROVE  Good(x)
  BY <1>6, InTextTypes
<1>7. DOMAIN Searches(o, candidate, hardLimit) = 1..8
  BY DEF Searches
<1> DEFINE Found(k) == Searches(o, candidate, hardLimit)[k]
<1>8. /\ Found(1) = PairEnd(<<"C2", "BF">>, "?", o, candidate, hardLimit)
      /\ Found(2) = PairEnd(<<"C2", "A1">>, "!", o, candidate, hardLimit)
      /\ Found(3) = Behind({i \in before \ {o} : Is(i, {"newline"}) /\ Is(i - 1, {"newline", "return"})})
      /\ Found(4) = Greatest(marks)
      /\ Found(5) = Behind({i \in before : Is(i, SoftMarks)})
      /\ Found(6) = Behind({i \in before : Is(i, Blanks)})
      /\ Found(7) = Least({i + 1 : i \in {j \in candidate..(hardLimit - 1) : Is(j, Blanks)}})
      /\ Found(8) = {IF hardLimit > o THEN hardLimit ELSE candidate}
  BY DEF Searches
<1> HIDE DEF Good, Found, Behind, marks
<1>9. /\ {i \in before \ {o} : Is(i, {"newline"}) /\ Is(i - 1, {"newline", "return"})} \in SUBSET before
      /\ {i \in before : Is(i, SoftMarks)} \in SUBSET before
      /\ {i \in before : Is(i, Blanks)} \in SUBSET before
  OBVIOUS
<1> HIDE DEF before
<1>10. n \in {1, 2, 3, 4, 5, 6, 7, 8} /\ s \in Found(n)
  BY <1>1, <1>7 DEF Found
<1>11. (n \in {1, 2}) => Good(s)
  BY <1>2, <1>8, <1>10
<1>12. (n \in {3, 5, 6}) => Good(s)
  BY <1>3, <1>8, <1>9, <1>10
<1>13. (n = 4) => Good(s)
  BY <1>4, <1>8, <1>10
<1>14. (n = 7) => Good(s)
  BY <1>5, <1>8, <1>10
<1>15. (n = 8) => Good(s)
  BY <1>6, <1>8, <1>10
<1>16. Good(s)
  BY <1>10, <1>11, <1>12, <1>13, <1>14, <1>15
<1> QED BY <1>16 DEF Good

\* A chunk is of limited size and ends with a whole character.
LEMMA ChunkEndWithin ==
  ASSUME InText, NEW o \in Nat, begin <= o, o < end, NEW to \in ChunkEnd(o)
  PROVE  /\ to \in Nat /\ begin <= to /\ to <= end /\ to - o <= 2 * MaxChunkBytes
         /\ to = end \/ to = begin \/ ~Is(to, Continuations)
<1> USE Size
<1>1. CASE end - o <= MaxChunkBytes
  BY <1>1, InTextTypes DEF ChunkEnd
<1>2. CASE ~(end - o <= MaxChunkBytes)
  <2> DEFINE Cut(candidate, hardLimit) ==
               UNION {Boundary(s) : s \in SplitPoint(o, candidate, hardLimit)}
  <2>1. PICK candidate \in Boundary(o + MaxChunkBytes), hardLimit \in Boundary(o + 2 * MaxChunkBytes) :
          \/ to \in Cut(candidate, hardLimit) /\ to > o
          \/ to \in Boundary(o + MaxChunkBytes)
    BY <1>2 DEF ChunkEnd
  <2>a. /\ o + MaxChunkBytes \in Nat /\ begin <= o + MaxChunkBytes
        /\ o + 2 * MaxChunkBytes \in Nat /\ begin <= o + 2 * MaxChunkBytes
        /\ o + MaxChunkBytes <= o + 2 * MaxChunkBytes /\ o + MaxChunkBytes <= o + MaxChunkBytes
    BY InTextTypes
  <2>2. /\ candidate \in Nat /\ begin <= candidate /\ candidate <= o + MaxChunkBytes
    BY <2>a, BoundaryBack
  <2>3. hardLimit \in Nat /\ hardLimit <= o + 2 * MaxChunkBytes /\ begin <= hardLimit
    BY <2>a, BoundaryBack
  <2>4. CASE to \in Boundary(o + MaxChunkBytes)
    <3>1. /\ to \in Nat /\ begin <= to /\ to <= end /\ to <= o + MaxChunkBytes
          /\ to = end \/ to = begin \/ ~Is(to, Continuations)
      BY <2>4, <2>a, BoundaryBack
    <3>2. to - o <= 2 * MaxChunkBytes
      BY <3>1
    <3> QED BY <3>1, <3>2
  <2>5. CASE to \in Cut(candidate, hardLimit) /\ to > o
    <3>1. PICK s \in SplitPoint(o, candidate, hardLimit) : to \in Boundary(s)
      BY <2>5
    <3>2. s \in Nat /\ begin <= s /\ s <= o + 2 * MaxChunkBytes
      BY <2>a, <2>2, <2>3, <3>1, SearchWithin
    <3>3. /\ to \in Nat /\ begin <= to /\ to <= end /\ to <= s
          /\ to = end \/ to = begin \/ ~Is(to, Continuations)
      BY <3>1, <3>2, BoundaryBack
    <3> QED BY <2>5, <3>2, <3>3, InTextTypes
  <2> QED BY <2>1, <2>4, <2>5
<1> QED BY <1>1, <1>2

\* It is not empty, unless the place to cut at, moved back, would be behind none.
LEMMA ChunkEndBack ==
  ASSUME InText, NEW o \in Nat, begin <= o, o < end, NEW to \in ChunkEnd(o), to <= o
  PROVE  to \in Boundary(o + MaxChunkBytes)
<1>1. ~(end - o <= MaxChunkBytes)
  BY InTextTypes, Size DEF ChunkEnd
<1> DEFINE Cut(candidate, hardLimit) ==
             UNION {Boundary(s) : s \in SplitPoint(o, candidate, hardLimit)}
<1>2. \/ \E candidate, hardLimit : to \in Cut(candidate, hardLimit) /\ to > o
      \/ to \in Boundary(o + MaxChunkBytes)
  BY <1>1 DEF ChunkEnd
<1>3. to \in Nat
  BY ChunkEndWithin
<1> HIDE DEF Cut
<1> QED BY <1>2, <1>3

\* So in a well-formed text it is not empty.
LEMMA ChunkEndAdvances ==
  ASSUME InText, WellFormed(input), NEW o \in Nat, begin <= o, o < end, NEW to \in ChunkEnd(o)
  PROVE  o < to
<1>1. to \in Nat
  BY ChunkEndWithin
<1> SUFFICES ASSUME to <= o PROVE FALSE
  BY <1>1
<1>2. to \in Boundary(o + MaxChunkBytes)
  BY ChunkEndBack
<1>3. o + MaxChunkBytes \in Nat /\ o + MaxChunkBytes <= o + MaxChunkBytes
  BY Size
<1>4. o < to
  BY <1>2, <1>3, BoundaryNear
<1> QED BY <1>1, <1>4

\* What is trimmed is blank.
LEMMA TrimmedBlank ==
  ASSUME InText, NEW o \in Nat, o <= end, NEW x \in Trimmed(o)
  PROVE  /\ x \in Nat /\ o <= x /\ x <= end /\ \A i \in o..(x - 1) : Is(i, Blanks)
         /\ x = end \/ ~Is(x, Blanks)
<1>1. x \in {i \in o..end : i = end \/ ~Is(i, Blanks)} /\ \A i \in o..end : i = end \/ ~Is(i, Blanks) => x <= i
  BY LeastIn DEF Trimmed
<1> QED BY <1>1, InTextTypes

-----------------------------------------------------------------------------
(* The splitter finds one place                                            *)

\* The numbers are well-founded.
LEMMA LessThanOnNat == IsWellFoundedOn(OpToRel(<, Nat), Nat)
BY NatLessThanWellFounded

\* A set of numbers that is not empty has one least element,
LEMMA OneLeast ==
  ASSUME NEW S \in SUBSET Nat, S # {}
  PROVE  \E x \in S : Least(S) = {x}
<1>1. PICK x \in S : \A y \in S : ~(<<y, x>> \in OpToRel(<, Nat))
  BY LessThanOnNat, WFMin
<1>2. \A y \in S : ~(y < x)
  BY <1>1 DEF OpToRel
<1>3. \A y \in S : y \in Nat /\ x \in Nat
  OBVIOUS
<1>4. \A y \in S : x <= y
  BY <1>2, <1>3
<1>5. x \in Least(S)
  BY <1>4 DEF Least
<1>6. \A y \in Least(S) : y \in S /\ y <= x
  BY LeastIn
<1>7. ASSUME NEW y \in Least(S) PROVE y = x
  <2>1. y \in Nat /\ x \in Nat /\ y <= x /\ x <= y
    BY <1>3, <1>4, <1>6
  <2> QED BY <2>1
<1>8. Least(S) = {x}
  BY <1>5, <1>7
<1> QED BY <1>8

\* and, when it is bounded, one greatest.
LEMMA OneGreatest ==
  ASSUME NEW h \in Nat, NEW S \in SUBSET (0..h), S # {}
  PROVE  \E x \in S : Greatest(S) = {x}
<1> DEFINE T == {n \in 0..h : h - n \in S}
<1>1. T \in SUBSET Nat /\ T # {}
  <2>1. PICK x \in S : TRUE
    OBVIOUS
  <2>2. h - x \in 0..h /\ h - (h - x) = x
    OBVIOUS
  <2>3. h - x \in T
    BY <2>2
  <2>4. T \subseteq 0..h
    OBVIOUS
  <2> HIDE DEF T
  <2> QED BY <2>3, <2>4
<1> HIDE DEF T
<1>2. PICK n \in T : Least(T) = {n}
  BY <1>1, OneLeast
<1>3. n \in 0..h /\ h - n \in S /\ \A m \in T : n <= m
  BY <1>2, LeastIn DEF T
<1>4. ASSUME NEW y \in S PROVE y \in 0..h /\ y <= h - n
  <2>1. y \in 0..h /\ h - y \in T
    BY DEF T
  <2> QED BY <1>3, <2>1
<1>5. h - n \in Greatest(S)
  BY <1>3, <1>4 DEF Greatest
<1>6. \A y \in Greatest(S) : y \in S /\ h - n <= y
  BY <1>5, <1>3, GreatestIn
<1>7. ASSUME NEW y \in Greatest(S) PROVE y = h - n
  <2>1. y \in S /\ h - n <= y
    BY <1>6
  <2>2. y \in 0..h /\ y <= h - n
    BY <1>4, <2>1
  <2> QED BY <1>3, <2>1, <2>2
<1> QED BY <1>3, <1>5, <1>7

AtMostOne(S) == \A x, y \in S : x = y

LEMMA SearchOne ==
  ASSUME NEW h \in Nat, NEW S \in SUBSET (0..h)
  PROVE  AtMostOne(Greatest(S)) /\ AtMostOne(Least(S))
<1>1. ASSUME NEW x \in Greatest(S), NEW y \in Greatest(S) PROVE x = y
  <2>1. x \in S /\ y \in S /\ x <= y /\ y <= x
    BY GreatestIn
  <2> QED BY <2>1
<1>2. ASSUME NEW x \in Least(S), NEW y \in Least(S) PROVE x = y
  <2>1. x \in S /\ y \in S /\ x <= y /\ y <= x
    BY LeastIn
  <2> QED BY <2>1
<1> QED BY <1>1, <1>2 DEF AtMostOne

LEMMA OneTrimmed ==
  ASSUME InText, NEW o \in Nat, o <= end
  PROVE  \E x \in o..end : Trimmed(o) = {x}
<1> DEFINE S == {i \in o..end : i = end \/ ~Is(i, Blanks)}
<1>1. S \in SUBSET Nat /\ end \in S
  BY InTextTypes
<1>2. S # {} /\ S \subseteq o..end
  BY <1>1
<1> HIDE DEF S
<1>3. \E x \in S : Least(S) = {x}
  BY <1>1, <1>2, OneLeast
<1>4. Trimmed(o) = Least(S)
  BY DEF Trimmed, S
<1> QED BY <1>2, <1>3, <1>4

LEMMA OneBoundary ==
  ASSUME InText, NEW i \in Nat, begin <= i
  PROVE  \E b \in Nat : Boundary(i) = {b}
<1>1. CASE i >= end
  BY <1>1, InTextTypes DEF Boundary
<1>2. CASE ~(i >= end)
  <2> DEFINE S == {j \in begin..i : j = begin \/ ~Is(j, Continuations)}
  <2>1. S \in SUBSET (0..i) /\ begin \in S
    BY InTextTypes
  <2>2. S # {}
    BY <2>1
  <2>3. Boundary(i) = Greatest(S)
    BY <1>2 DEF Boundary
  <2> HIDE DEF S
  <2>4. \E x \in S : Greatest(S) = {x}
    BY <2>1, <2>2, OneGreatest
  <2>5. S \subseteq Nat
    BY <2>1
  <2> QED BY <2>3, <2>4, <2>5
<1> QED BY <1>1, <1>2

LEMMA OneMarks ==
  ASSUME NEW i \in Nat, NEW limit \in Nat, i <= limit
  PROVE  \E s \in Nat : AfterClosingMarks(i, limit) = {s}
<1> DEFINE S == {k \in i..limit : k = limit \/ \A j \in i..k : ~InClosingMark(k, j)}
<1>1. S \in SUBSET Nat /\ limit \in S
  OBVIOUS
<1>2. S # {}
  BY <1>1
<1>3. AfterClosingMarks(i, limit) = Least(S)
  BY DEF AfterClosingMarks
<1> HIDE DEF S
<1> QED BY <1>1, <1>2, <1>3, OneLeast

LEMMA PairEndOne ==
  ASSUME NEW o \in Nat, NEW candidate \in Nat, NEW hardLimit \in Nat,
         NEW opening, NEW closing
  PROVE  AtMostOne(PairEnd(opening, closing, o, candidate, hardLimit))
<1> DEFINE S == {k \in candidate..(hardLimit - 1) : Is(k, {closing})}
           End == UNION {AfterClosingMarks(i + 1, hardLimit) : i \in Least(S)}
<1>1. PairEnd(opening, closing, o, candidate, hardLimit) \in SUBSET End
  BY DEF PairEnd
<1>2. S \in SUBSET (0..hardLimit)
  OBVIOUS
<1>3. \A i \in S : i + 1 \in Nat /\ i + 1 <= hardLimit
  OBVIOUS
<1> HIDE DEF S
<1>4. ASSUME NEW x \in End, NEW y \in End PROVE x = y
  <2>1. PICK i \in Least(S) : x \in AfterClosingMarks(i + 1, hardLimit)
    OBVIOUS
  <2>2. PICK j \in Least(S) : y \in AfterClosingMarks(j + 1, hardLimit)
    OBVIOUS
  <2>3. i = j /\ i \in S
    BY <1>2, SearchOne, LeastIn DEF AtMostOne
  <2>4. \E s \in Nat : AfterClosingMarks(i + 1, hardLimit) = {s}
    BY <1>3, <2>3, OneMarks
  <2> QED BY <2>1, <2>2, <2>3, <2>4
<1> HIDE DEF End
<1> QED BY <1>1, <1>4 DEF AtMostOne

\* The searches end with one that always finds a place.
LEMMA OneSplitPoint ==
  ASSUME InText, NEW o \in Nat, NEW candidate \in Nat, NEW hardLimit \in Nat
  PROVE  \E s : SplitPoint(o, candidate, hardLimit) = {s}
<1> DEFINE third == MaxChunkBytes \div 3
           minBoundary == o + (IF third > 1 THEN third ELSE 1)
           before == o..(candidate - 1)
           Found(k) == Searches(o, candidate, hardLimit)[k]
           Behind(found) == Greatest({i + 1 : i \in {j \in found : minBoundary <= j + 1}})
           marks == {x \in UNION {SentenceEnd(i) : i \in before} :
                       minBoundary <= x /\ x <= candidate}
           gaps == {i + 1 : i \in {j \in candidate..(hardLimit - 1) : Is(j, Blanks)}}
<1>1. DOMAIN Searches(o, candidate, hardLimit) = 1..8
  BY DEF Searches
<1>2. /\ Found(1) = PairEnd(<<"C2", "BF">>, "?", o, candidate, hardLimit)
      /\ Found(2) = PairEnd(<<"C2", "A1">>, "!", o, candidate, hardLimit)
      /\ Found(3) = Behind({i \in before \ {o} : Is(i, {"newline"}) /\ Is(i - 1, {"newline", "return"})})
      /\ Found(4) = Greatest(marks)
      /\ Found(5) = Behind({i \in before : Is(i, SoftMarks)})
      /\ Found(6) = Behind({i \in before : Is(i, Blanks)})
      /\ Found(7) = Least(gaps)
      /\ Found(8) = {IF hardLimit > o THEN hardLimit ELSE candidate}
  BY DEF Searches
<1>3. AtMostOne(Found(1)) /\ AtMostOne(Found(2))
  BY <1>2, PairEndOne
<1>4. ASSUME NEW found \in SUBSET before PROVE AtMostOne(Behind(found))
  <2> DEFINE S == {i + 1 : i \in {j \in found : minBoundary <= j + 1}}
  <2>1. S \in SUBSET (0..candidate)
    OBVIOUS
  <2> HIDE DEF S
  <2>2. AtMostOne(Greatest(S))
    BY <2>1, SearchOne
  <2> QED BY <2>2 DEF S
<1>5. /\ {i \in before \ {o} : Is(i, {"newline"}) /\ Is(i - 1, {"newline", "return"})} \in SUBSET before
      /\ {i \in before : Is(i, SoftMarks)} \in SUBSET before
      /\ {i \in before : Is(i, Blanks)} \in SUBSET before
  OBVIOUS
<1>6. AtMostOne(Greatest(marks))
  <2>1. \A x, y \in Greatest(marks) : x \in marks /\ y \in marks /\ x <= y /\ y <= x
    BY GreatestIn
  <2>2. ASSUME NEW x \in marks PROVE x \in Nat
    <3>1. PICK i \in before : x \in SentenceEnd(i)
      OBVIOUS
    <3>2. PICK j \in {i + 1, i + 3} : x \in AfterClosingMarks(j, end)
      BY <3>1 DEF SentenceEnd
    <3> QED BY <3>2, MarksWithin, InTextTypes
  <2> HIDE DEF marks
  <2> QED BY <2>1, <2>2 DEF AtMostOne
<1>7. AtMostOne(Least(gaps))
  <2>1. gaps \in SUBSET (0..hardLimit)
    OBVIOUS
  <2> HIDE DEF gaps
  <2> QED BY <2>1, SearchOne
<1> HIDE DEF Behind, marks, gaps, before
<1>8. AtMostOne(Found(3)) /\ AtMostOne(Found(5)) /\ AtMostOne(Found(6))
  BY <1>2, <1>4, <1>5
<1>9. AtMostOne(Found(4)) /\ AtMostOne(Found(7))
  BY <1>2, <1>6, <1>7
<1>10. AtMostOne(Found(8)) /\ Found(8) # {}
  BY <1>2 DEF AtMostOne
<1> DEFINE all == Searches(o, candidate, hardLimit)
<1>11. \A k \in DOMAIN all : AtMostOne(all[k])
  <2>1. \A k \in DOMAIN all : k \in {1, 2, 3, 4, 5, 6, 7, 8}
    BY <1>1
  <2> HIDE DEF all
  <2> QED BY <2>1, <1>3, <1>8, <1>9, <1>10 DEF all
<1>12. 8 \in DOMAIN all /\ all[8] # {} /\ DOMAIN all \subseteq Nat
  BY <1>1, <1>10
<1> HIDE DEF all, Found
<1> DEFINE N == {k \in DOMAIN all : all[k] # {}}
<1>13. N \in SUBSET Nat /\ N # {}
  BY <1>12
<1>14. \A k \in N : k \in DOMAIN all /\ all[k] # {}
  OBVIOUS
<1>15. FirstFound(all) = UNION {all[n] : n \in Least(N)}
  BY DEF FirstFound
<1> HIDE DEF N
<1>16. PICK n \in N : Least(N) = {n}
  BY <1>13, OneLeast
<1>17. FirstFound(all) = all[n]
  BY <1>15, <1>16
<1>18. \E s : all[n] = {s}
  BY <1>11, <1>14, <1>16 DEF AtMostOne
<1>19. SplitPoint(o, candidate, hardLimit) = FirstFound(all)
  BY DEF SplitPoint, all
<1> QED BY <1>17, <1>18, <1>19

\* The splitter answers: whatever the bytes and wherever it stands, it cuts at
\* exactly one place, which need not be further on (splitTextIntoChunks,
\* chooseSmartSplitPoint).
THEOREM SplitterAnswers ==
  ASSUME InText, NEW o \in Nat, begin <= o, o < end
  PROVE  \E to : ChunkEnd(o) = {to}
<1> USE Size
<1>1. CASE end - o <= MaxChunkBytes
  BY <1>1 DEF ChunkEnd
<1>2. CASE ~(end - o <= MaxChunkBytes)
  <2>1. /\ o + MaxChunkBytes \in Nat /\ begin <= o + MaxChunkBytes
        /\ o + 2 * MaxChunkBytes \in Nat /\ begin <= o + 2 * MaxChunkBytes
        /\ o + MaxChunkBytes <= o + 2 * MaxChunkBytes /\ o + MaxChunkBytes <= o + MaxChunkBytes
    BY InTextTypes
  <2>2. PICK candidate \in Nat : Boundary(o + MaxChunkBytes) = {candidate}
    BY <2>1, OneBoundary
  <2>3. PICK hardLimit \in Nat : Boundary(o + 2 * MaxChunkBytes) = {hardLimit}
    BY <2>1, OneBoundary
  <2>4. PICK s : SplitPoint(o, candidate, hardLimit) = {s}
    BY OneSplitPoint
  <2>5. /\ candidate <= o + MaxChunkBytes /\ begin <= candidate
        /\ hardLimit <= o + 2 * MaxChunkBytes /\ begin <= hardLimit
    BY <2>1, <2>2, <2>3, BoundaryBack
  <2>6. s \in Nat /\ begin <= s
    <3>1. s \in SplitPoint(o, candidate, hardLimit)
      BY <2>4
    <3> QED BY <2>1, <2>5, <3>1, SearchWithin
  <2>7. PICK t \in Nat : Boundary(s) = {t}
    BY <2>6, OneBoundary
  <2> DEFINE Cut2(c, h) == UNION {Boundary(x) : x \in SplitPoint(o, c, h)}
             Ends(c, h) == {x \in Cut2(c, h) : x > o}
                             \cup (IF \E x \in Cut2(c, h) : x <= o THEN Boundary(o + MaxChunkBytes) ELSE {})
  <2>8. Cut2(candidate, hardLimit) = {t}
    BY <2>4, <2>7
  <2>9. ChunkEnd(o) = UNION {Ends(c, h) : c \in {candidate}, h \in {hardLimit}}
    <3>1. ChunkEnd(o) = UNION {Ends(c, h) : c \in Boundary(o + MaxChunkBytes),
                                            h \in Boundary(o + 2 * MaxChunkBytes)}
      BY <1>2 DEF ChunkEnd
    <3> HIDE DEF Ends
    <3> QED BY <2>2, <2>3, <3>1
  <2> HIDE DEF Cut2
  <2>10. Ends(candidate, hardLimit) = IF t > o THEN {t} ELSE {candidate}
    BY <2>2, <2>8
  <2> HIDE DEF Ends
  <2>11. ChunkEnd(o) = Ends(candidate, hardLimit)
    BY <2>9
  <2> QED BY <2>10, <2>11
<1> QED BY <1>1, <1>2

-----------------------------------------------------------------------------
(* The invariant of the reader                                             *)

\* The chunks of a split: in order, inside the pending text, of the right size.
Fits(c) ==
  /\ begin <= c.from /\ c.from < c.to /\ c.to <= end
  /\ c.to - c.from <= 2 * MaxChunkBytes
  /\ c.to < end => ~Is(c.to, Continuations)

Chopped ==
  /\ \A k \in 1..Len(chunks) : Fits(chunks[k])
  /\ \A k, m \in 1..Len(chunks) : k < m => chunks[k].to <= chunks[m].from

\* Up to position n the pending text is in chunks, or blank.
CoveredTo(n) ==
  \A i \in begin..(n - 1) :
    Is(i, Blanks) \/ \E k \in 1..Len(chunks) : i \in Span(chunks[k])

Cut ==
  phase = "split" =>
    /\ begin < end /\ CoveredTo(offset)
    /\ offset = begin \/ offset = end \/ ~Is(offset, Continuations)
    /\ \A k \in 1..Len(chunks) : chunks[k].to <= offset

\* What is erased after speaking ends inside or right behind the last chunk
\* that was spoken.
Speaking ==
  phase = "speak" =>
    /\ Len(chunks) > 0 /\ CoveredTo(end)
    /\ next - 1 <= Len(chunks)
    /\ \A k \in 1..(next - 1) : Span(chunks[k]) \subseteq spoken
    /\ next = 1 => consumed = 0
    /\ next > 1 => consumed > 0 /\ begin + consumed <= chunks[next - 1].to

GoneTo(n) == \A i \in 0..(n - 1) : i \in spoken \/ Is(i, Blanks)

Past == GoneTo(begin) /\ (phase = "ended" => GoneTo(end))

Types == input \in Texts /\ StreamTypeOK

IInv == Types /\ Chopped /\ Cut /\ Speaking /\ Past /\ CarryBounded

Chunk == [from : 0..end, to : 0..end]

LEMMA TypeFacts ==
  ASSUME Types
  PROVE  /\ InText /\ input \in Seq(Bytes) /\ Len(input) \in Nat
         /\ begin \in Nat /\ end \in Nat /\ offset \in Nat
         /\ begin <= offset /\ offset <= end
         /\ chunks \in Seq(Chunk) /\ Len(chunks) \in Nat
         /\ \A k \in 1..Len(chunks) :
              /\ chunks[k] \in Chunk
              /\ chunks[k].from \in Nat /\ chunks[k].to \in Nat /\ chunks[k].to <= end
         /\ next \in Nat /\ next > 0 /\ consumed \in Nat
<1>1. input \in Seq(Bytes) /\ end \in 0..Len(input)
  BY DEF Types, StreamTypeOK
<1>2. Len(input) \in Nat
  BY <1>1
<1>3. chunks \in Seq(Chunk)
  BY DEF Types, StreamTypeOK, Chunk
<1>4. Len(chunks) \in Nat /\ \A k \in 1..Len(chunks) : chunks[k] \in Chunk
  BY <1>3
<1>5. /\ end \in Nat /\ begin \in 0..end /\ offset \in begin..end
      /\ next \in Nat /\ next > 0 /\ consumed \in Nat
  BY <1>1, <1>2 DEF Types, StreamTypeOK
<1>6. InText
  BY <1>1, <1>5 DEF Types, InText
<1> QED BY <1>1, <1>2, <1>3, <1>4, <1>5, <1>6 DEF Chunk

LEMMA InitIInv == StreamInit => IInv
<1> SUFFICES ASSUME StreamInit PROVE IInv
  OBVIOUS
<1>1. input \in Texts /\ input \in Seq(Bytes) /\ Len(input) \in Nat
  BY TextAssumption DEF StreamInit
<1>2. Types
  <2>1. chunks \in Seq([from : 0..end, to : 0..end]) /\ spoken \subseteq 0..(end - 1)
    BY DEF StreamInit
  <2>2. end \in 0..Len(input) /\ begin \in 0..end /\ offset \in begin..end
    BY <1>1 DEF StreamInit
  <2>3. next \in Nat \ {0} /\ consumed \in Nat
    BY DEF StreamInit
  <2>4. phase \in {"read", "split", "spins", "speak", "ended"} /\ atEnd \in BOOLEAN
    BY DEF StreamInit
  <2> QED BY <1>1, <2>1, <2>2, <2>3, <2>4 DEF Types, StreamTypeOK
<1> QED BY <1>2 DEF StreamInit, IInv, Chopped, Cut, Speaking, Past, GoneTo, CarryBounded

\* What was spoken and blank stays so, as the input does not change.
LEMMA GoneStays ==
  ASSUME input' = input, spoken \subseteq spoken', NEW n, GoneTo(n)
  PROVE  \A i \in 0..(n - 1) : i \in spoken' \/ Is(i, Blanks)'
BY DEF GoneTo, Is

LEMMA ReadLineKeeps == IInv /\ ReadLine => IInv'
<1> SUFFICES ASSUME IInv, ReadLine PROVE IInv'
  OBVIOUS
<1> USE DEF ReadLine
<1>1. Types /\ Past /\ phase = "read"
  BY DEF IInv
<1>2. end' \in (end + 1)..Len(input)
  BY LeastIn
<1>3. /\ end' \in Nat /\ end < end' /\ end' <= Len(input) /\ begin <= end'
      /\ phase' \in {"read", "split"}
  BY <1>1, <1>2, TypeFacts DEF Pending
<1>4. Types'
  <2>1. 0..(end - 1) \subseteq 0..(end' - 1)
    BY <1>1, <1>3, TypeFacts
  <2>2. spoken' \subseteq 0..(end' - 1)
    BY <1>1, <2>1 DEF Types, StreamTypeOK
  <2>3. next' \in Nat \ {0} /\ consumed' \in Nat /\ atEnd' \in BOOLEAN
    BY <1>1 DEF Types, StreamTypeOK
  <2>4. input' \in Texts /\ input' \in Seq(Bytes)
    BY <1>1, TypeFacts DEF Types
  <2>5. end' \in 0..Len(input') /\ begin' \in 0..end' /\ offset' \in begin'..end'
    BY <1>1, <1>3, TypeFacts
  <2>6. chunks' \in Seq([from : 0..end', to : 0..end'])
    OBVIOUS
  <2> QED BY <1>3, <2>2, <2>3, <2>4, <2>5, <2>6 DEF Types, StreamTypeOK
<1>5. Chopped'
  BY DEF Chopped
<1>6. Cut'
  BY <1>1, <1>3, TypeFacts, Size DEF Cut, CoveredTo, Pending
<1>7. Past'
  BY <1>1, <1>3, GoneStays DEF Past, GoneTo
<1>8. CarryBounded'
  <2>1. phase' = "read" => ~(end' - begin > 2 * MaxChunkBytes)
    BY DEF Pending
  <2>2. end' - begin \in Int /\ 2 * MaxChunkBytes \in Int
    BY <1>1, <1>3, TypeFacts, Size
  <2>3. phase' = "read" => end' - begin' <= 2 * MaxChunkBytes
    BY <2>1, <2>2
  <2> QED BY <2>3 DEF CarryBounded
<1> QED BY <1>3, <1>4, <1>5, <1>6, <1>7, <1>8 DEF IInv, Speaking

LEMMA EndOfStreamKeeps == IInv /\ EndOfStream => IInv'
<1> SUFFICES ASSUME IInv, EndOfStream PROVE IInv'
  OBVIOUS
<1> USE DEF EndOfStream
<1>1. Types /\ Past /\ phase' \in {"ended", "split"}
  BY DEF IInv
<1>2. Types'
  BY <1>1, TypeFacts DEF Types, StreamTypeOK
<1>3. Chopped'
  BY DEF Chopped
<1>4. Cut'
  BY <1>1, TypeFacts DEF Cut, CoveredTo
<1>5. Past'
  BY <1>1, GoneStays DEF Past, GoneTo
<1> QED BY <1>1, <1>2, <1>3, <1>4, <1>5 DEF IInv, Speaking, CarryBounded

LEMMA WholeTextKeeps == IInv /\ WholeText => IInv'
<1> SUFFICES ASSUME IInv, WholeText PROVE IInv'
  OBVIOUS
<1> USE DEF WholeText, StartSpeaking
<1>1. Types /\ Past /\ begin < end
  BY DEF IInv, Cut
<1>2. /\ Len(chunks') = 1 /\ chunks'[1] = [from |-> begin, to |-> end]
      /\ chunks'[1].from = begin /\ chunks'[1].to = end
  OBVIOUS
<1>3. Types'
  <2>1. [from |-> begin, to |-> end] \in Chunk
    BY <1>1, TypeFacts DEF Chunk
  <2>2. chunks' \in Seq(Chunk)
    BY <2>1
  <2> QED BY <1>1, <2>2 DEF Types, StreamTypeOK, Chunk
<1>4. Chopped'
  BY <1>1, <1>2, TypeFacts, Size DEF Chopped, Fits
<1>5. CoveredTo(end)'
  BY <1>1, <1>2, TypeFacts DEF CoveredTo, Span
<1>6. Speaking'
  BY <1>2, <1>5 DEF Speaking
<1>7. Past'
  BY <1>1, GoneStays DEF Past, GoneTo
<1> QED BY <1>3, <1>4, <1>6, <1>7 DEF IInv, Cut, CarryBounded

LEMMA CutChunkKeeps == IInv /\ CutChunk => IInv'
<1> SUFFICES ASSUME IInv, CutChunk PROVE IInv'
  OBVIOUS
<1>1. Types /\ Past /\ Chopped /\ Cut /\ phase = "split" /\ phase' = "split"
  BY DEF IInv, CutChunk
<1>2. UNCHANGED <<input, begin, end, next, consumed, atEnd, spoken>>
  BY DEF CutChunk
<1>a. PICK from \in Trimmed(offset) :
        /\ from < end
        /\ \E to \in ChunkEnd(from) :
             /\ from < to
             /\ chunks' = Append(chunks, [from |-> from, to |-> to]) /\ offset' = to
  BY DEF CutChunk
<1>b. PICK to \in ChunkEnd(from) :
        /\ from < to
        /\ chunks' = Append(chunks, [from |-> from, to |-> to]) /\ offset' = to
  BY <1>a
<1>3. /\ from < end /\ from < to
      /\ chunks' = Append(chunks, [from |-> from, to |-> to]) /\ offset' = to
  BY <1>a, <1>b
<1>4. from \in Nat /\ offset <= from /\ \A i \in offset..(from - 1) : Is(i, Blanks)
  BY <1>1, TypeFacts, TrimmedBlank
<1>5. /\ to \in Nat /\ from < to /\ to <= end /\ to - from <= 2 * MaxChunkBytes
      /\ begin < to /\ (to = end \/ ~Is(to, Continuations))
  BY <1>1, <1>3, <1>4, TypeFacts, ChunkEndWithin
<1> DEFINE c == [from |-> from, to |-> to]
<1>6. c \in Chunk /\ c.from = from /\ c.to = to
  BY <1>1, <1>3, <1>4, <1>5, TypeFacts DEF Chunk
<1> HIDE DEF c
<1>7. /\ chunks' \in Seq(Chunk) /\ Len(chunks') = Len(chunks) + 1
      /\ \A k \in 1..Len(chunks) : chunks'[k] = chunks[k]
      /\ chunks'[Len(chunks) + 1] = c
  BY <1>1, <1>3, <1>6, TypeFacts DEF c
<1>8. \A k \in 1..Len(chunks') : k \in 1..Len(chunks) \/ k = Len(chunks) + 1
  BY <1>1, <1>7, TypeFacts
<1>9. Types'
  <2>1. offset' \in begin'..end'
    BY <1>1, <1>2, <1>3, <1>4, <1>5, TypeFacts
  <2> QED BY <1>1, <1>2, <1>7, <2>1 DEF Types, StreamTypeOK, Chunk
<1>10. Chopped'
  <2>1. \A k \in 1..Len(chunks) : Fits(chunks[k]) /\ chunks[k].to <= offset
    BY <1>1 DEF Chopped, Cut
  <2>2. \A k \in 1..Len(chunks') : Fits(chunks'[k])
    <3>1. Fits(c)
      BY <1>1, <1>3, <1>4, <1>5, <1>6, TypeFacts DEF Fits
    <3> QED BY <1>7, <1>8, <2>1, <3>1
  <2>3. (\A k \in 1..Len(chunks) : Fits(chunks[k]))'
    BY <1>2, <2>2 DEF Fits, Is
  <2>4. \A k \in 1..Len(chunks) : chunks[k].to <= c.from
    BY <1>1, <1>4, <1>6, <2>1, TypeFacts
  <2>5. ASSUME NEW k \in 1..Len(chunks'), NEW m \in 1..Len(chunks'), k < m
        PROVE  chunks'[k].to <= chunks'[m].from
    <3>1. k \in 1..Len(chunks) /\ Len(chunks) \in Nat
      BY <1>1, <1>7, <2>5, TypeFacts
    <3>2. CASE m \in 1..Len(chunks)
      BY <1>1, <1>7, <2>5, <3>1, <3>2 DEF Chopped
    <3>3. CASE m = Len(chunks) + 1
      BY <1>7, <2>4, <3>1, <3>3
    <3> QED BY <1>8, <3>2, <3>3
  <2> QED BY <2>3, <2>5 DEF Chopped
<1>11. Cut'
  <2>1. \A k \in 1..Len(chunks') : chunks'[k].to <= offset'
    BY <1>1, <1>3, <1>4, <1>5, <1>6, <1>7, <1>8, TypeFacts DEF Cut
  <2>2. ASSUME NEW i \in begin..(to - 1)
        PROVE  Is(i, Blanks) \/ \E k \in 1..Len(chunks') : i \in Span(chunks'[k])
    <3>1. CASE i < offset
      <4>a. CoveredTo(offset) /\ i \in begin..(offset - 1)
        BY <1>1, <3>1, TypeFacts DEF Cut
      <4>1. Is(i, Blanks) \/ \E k \in 1..Len(chunks) : i \in Span(chunks[k])
        BY <4>a DEF CoveredTo
      <4>2. 1..Len(chunks) \subseteq 1..Len(chunks')
        BY <1>1, <1>7, TypeFacts
      <4> QED BY <1>7, <4>1, <4>2
    <3>2. CASE offset <= i /\ i < from
      BY <1>1, <1>4, <3>2, TypeFacts
    <3>3. CASE from <= i
      <4>1. i \in Span(c)
        BY <1>1, <1>4, <1>5, <1>6, <3>3, TypeFacts DEF Span
      <4>2. Len(chunks) + 1 \in 1..Len(chunks')
        BY <1>1, <1>7, TypeFacts
      <4> QED BY <1>7, <4>1, <4>2
    <3> QED BY <1>1, <1>4, <3>1, <3>2, <3>3, TypeFacts
  <2>3. CoveredTo(offset)'
    BY <1>2, <1>3, <2>2 DEF CoveredTo, Is, Span
  <2>4. (offset = begin \/ offset = end \/ ~Is(offset, Continuations))'
    BY <1>2, <1>3, <1>5 DEF Is
  <2> QED BY <1>1, <1>2, <2>1, <2>3, <2>4 DEF Cut
<1>12. Past'
  BY <1>1, <1>2, GoneStays DEF Past, GoneTo
<1> QED BY <1>1, <1>9, <1>10, <1>11, <1>12 DEF IInv, Speaking, CarryBounded

LEMMA SpinKeeps == IInv /\ Spin => IInv'
<1> SUFFICES ASSUME IInv, Spin PROVE IInv'
  OBVIOUS
<1>1. /\ Types /\ Past /\ Chopped /\ phase' = "spins"
      /\ UNCHANGED <<input, begin, end, offset, chunks, next, consumed, atEnd, spoken>>
  BY DEF IInv, Spin
<1>2. Types' /\ Chopped'
  BY <1>1 DEF Types, StreamTypeOK, Chopped, Fits, Is
<1>3. Past'
  BY <1>1, GoneStays DEF Past, GoneTo
<1> QED BY <1>1, <1>2, <1>3 DEF IInv, Cut, Speaking, CarryBounded

LEMMA SplitDoneKeeps == IInv /\ SplitDone => IInv'
<1> SUFFICES ASSUME IInv, SplitDone PROVE IInv'
  OBVIOUS
<1>1. /\ Types /\ Past /\ Chopped /\ Cut /\ phase = "split"
      /\ end \in Trimmed(offset)
      /\ UNCHANGED <<input, begin, end, offset, chunks, atEnd, spoken>>
  BY DEF IInv, SplitDone
<1>2. CoveredTo(end)
  <2>1. \A i \in offset..(end - 1) : Is(i, Blanks)
    BY <1>1, TypeFacts, TrimmedBlank
  <2>2. CoveredTo(offset)
    BY <1>1 DEF Cut
  <2>3. \A i \in begin..(end - 1) : i \in begin..(offset - 1) \/ i \in offset..(end - 1)
    BY <1>1, TypeFacts
  <2> QED BY <2>1, <2>2, <2>3 DEF CoveredTo
<1>3. /\ CoveredTo(end)' /\ Chopped'
  BY <1>1, <1>2 DEF CoveredTo, Chopped, Fits, Is, Span
<1>4. \/ chunks # <<>> /\ phase' = "speak" /\ next' = 1 /\ consumed' = 0
      \/ /\ chunks = <<>> /\ phase' \in {"read", "ended"}
         /\ UNCHANGED <<next, consumed>>
  BY DEF SplitDone, StartSpeaking
<1>5. Types'
  BY <1>1, <1>4 DEF Types, StreamTypeOK
<1>6. CASE chunks # <<>> /\ phase' = "speak" /\ next' = 1 /\ consumed' = 0
  <2>1. Len(chunks') > 0 /\ Len(chunks') \in Nat
    BY <1>1, <1>6, TypeFacts
  <2>2. Speaking'
    BY <1>3, <1>6, <2>1 DEF Speaking
  <2>3. Past'
    BY <1>1, <1>6, GoneStays DEF Past, GoneTo
  <2> QED BY <1>3, <1>5, <1>6, <2>2, <2>3 DEF IInv, Cut, CarryBounded
<1>7. CASE chunks = <<>> /\ phase' \in {"read", "ended"}
  <2>1. \A i \in begin..(end - 1) : Is(i, Blanks)
    BY <1>2, <1>7 DEF CoveredTo
  <2>2. \A i \in begin'..(end' - 1) : Is(i, Blanks)'
    BY <1>1, <2>1 DEF Is
  <2>3. GoneTo(end)
    BY <1>1, <2>1, TypeFacts DEF Past, GoneTo
  <2>4. Past'
    BY <1>1, <2>3, GoneStays DEF Past, GoneTo
  <2>5. CarryBounded'
    BY <2>2 DEF CarryBounded
  <2> QED BY <1>3, <1>5, <1>7, <2>4, <2>5 DEF IInv, Cut, Speaking
<1> QED BY <1>4, <1>6, <1>7

LEMMA SpeakChunkKeeps == IInv /\ SpeakChunk => IInv'
<1> SUFFICES ASSUME IInv, SpeakChunk PROVE IInv'
  OBVIOUS
<1>1. /\ Types /\ Past /\ Chopped /\ Speaking /\ phase = "speak" /\ phase' = "speak"
      /\ UNCHANGED <<input, begin, end, offset, chunks, atEnd>>
      /\ spoken' = spoken \cup Span(chunks[next])
      /\ consumed' = consumed + (chunks[next].to - chunks[next].from)
      /\ next' = next + 1
  BY DEF IInv, SpeakChunk
<1>2. next \in 1..Len(chunks)
  <2>1. next <= ChunksToSpeak
    BY DEF SpeakChunk
  <2>2. ChunksToSpeak <= Len(chunks)
    BY <1>1, TypeFacts DEF ChunksToSpeak
  <2>3. ChunksToSpeak \in Int
    BY <1>1, TypeFacts DEF ChunksToSpeak
  <2> QED BY <1>1, <2>1, <2>2, <2>3, TypeFacts
<1> DEFINE c == chunks[next]
<1>3. /\ c.from \in Nat /\ c.to \in Nat /\ begin <= c.from /\ c.from < c.to /\ c.to <= end
  BY <1>1, <1>2, TypeFacts DEF Chopped, Fits
<1>4. consumed' \in Nat /\ consumed' > 0 /\ begin + consumed' <= c.to
  <2>1. CASE next = 1
    <3>1. consumed = 0
      BY <1>1, <2>1 DEF Speaking
    <3> HIDE DEF c
    <3>2. consumed' = consumed + (c.to - c.from)
      BY <1>1 DEF c
    <3> QED BY <1>1, <1>3, <3>1, <3>2, TypeFacts
  <2>2. CASE next > 1
    <3>1. next - 1 \in 1..Len(chunks) /\ next - 1 < next
      BY <1>1, <1>2, <2>2, TypeFacts
    <3>2. begin + consumed <= chunks[next - 1].to /\ chunks[next - 1].to <= c.from
      BY <1>1, <1>2, <2>2, <3>1 DEF Speaking, Chopped
    <3>3. chunks[next - 1].to \in Nat
      BY <1>1, <3>1, TypeFacts
    <3> HIDE DEF c
    <3>4. consumed' = consumed + (c.to - c.from)
      BY <1>1 DEF c
    <3>5. \A b, u, f, t, p \in Nat : b + u <= p /\ p <= f /\ f < t =>
            u + (t - f) \in Nat /\ u + (t - f) > 0 /\ b + (u + (t - f)) <= t
      OBVIOUS
    <3>6. begin \in Nat /\ consumed \in Nat
      BY <1>1, TypeFacts
    <3> QED BY <1>3, <3>2, <3>3, <3>4, <3>5, <3>6
  <2> QED BY <1>1, <2>1, <2>2, TypeFacts
<1>5. Types'
  <2>1. Span(c) \subseteq 0..(end - 1)
    BY <1>1, <1>3, TypeFacts DEF Span
  <2>2. spoken' \subseteq 0..(end' - 1)
    BY <1>1, <2>1 DEF Types, StreamTypeOK
  <2>3. next' \in Nat \ {0}
    BY <1>1, TypeFacts
  <2> QED BY <1>1, <1>4, <2>2, <2>3 DEF Types, StreamTypeOK
<1>6. Chopped'
  BY <1>1 DEF Chopped, Fits, Is
<1>7. Speaking'
  <2>1. CoveredTo(end)'
    BY <1>1 DEF Speaking, CoveredTo, Is, Span
  <2>2. next' - 1 = next /\ next' > 1 /\ next' # 1
    BY <1>1, TypeFacts
  <2>3. \A k \in 1..(next' - 1) : Span(chunks'[k]) \subseteq spoken'
    <3>1. \A k \in 1..(next' - 1) : k \in 1..(next - 1) \/ k = next
      BY <1>1, <2>2, TypeFacts
    <3> QED BY <1>1, <3>1 DEF Speaking
  <2>4. (\A k \in 1..(next - 1) : Span(chunks[k]) \subseteq spoken)'
    BY <2>3 DEF Span
  <2>5. Len(chunks') > 0 /\ next' - 1 <= Len(chunks')
    BY <1>1, <1>2, <2>2, TypeFacts
  <2>6. begin' + consumed' <= chunks'[next' - 1].to
    BY <1>1, <1>4, <2>2
  <2> QED BY <1>4, <2>1, <2>2, <2>4, <2>5, <2>6 DEF Speaking
<1>8. Past'
  BY <1>1, GoneStays DEF Past, GoneTo
<1> QED BY <1>1, <1>5, <1>6, <1>7, <1>8 DEF IInv, Cut, CarryBounded

\* Behind the chunks that were spoken, everything that is erased is blank.
LEMMA Erased ==
  ASSUME Types, Chopped, Speaking, phase = "speak", next > ChunksToSpeak,
         NEW n \in Nat, begin <= n, n <= end, next - 1 = Len(chunks) \/ n <= begin + consumed,
         NEW i \in begin..(n - 1)
  PROVE  i \in spoken \/ Is(i, Blanks)
<1>1. SUFFICES ASSUME NEW k \in 1..Len(chunks), i \in Span(chunks[k])
               PROVE  i \in spoken
  BY TypeFacts DEF Speaking, CoveredTo
<1>2. CASE k <= next - 1
  <2>1. k \in 1..(next - 1)
    BY <1>2, TypeFacts
  <2> QED BY <1>1, <2>1 DEF Speaking
<1>3. CASE k > next - 1
  <2>1. Len(chunks) > 0 /\ Len(chunks) \in Nat
    BY TypeFacts DEF Speaking
  <2>2. next > 1
    BY <2>1, TypeFacts DEF ChunksToSpeak
  <2>3. next - 1 \in 1..Len(chunks) /\ next - 1 < k
    BY <1>3, <2>1, <2>2, TypeFacts
  <2>4. begin + consumed <= chunks[next - 1].to /\ chunks[next - 1].to <= chunks[k].from
    BY <2>2, <2>3 DEF Speaking, Chopped
  <2>5. chunks[next - 1].to \in Nat /\ chunks[k].from \in Nat /\ chunks[k].from <= i
    BY <1>1, <2>3, TypeFacts DEF Span
  <2>6. i < n /\ n <= begin + consumed
    BY <2>3, TypeFacts
  <2> QED BY <2>4, <2>5, <2>6, TypeFacts
<1> QED BY <1>2, <1>3, TypeFacts

LEMMA CarryKeeps == IInv /\ Carry => IInv'
<1> SUFFICES ASSUME IInv, Carry PROVE IInv'
  OBVIOUS
<1>1. /\ Types /\ Past /\ Chopped /\ Speaking /\ phase = "speak" /\ next > ChunksToSpeak
      /\ offset' = begin' /\ chunks' = <<>>
      /\ UNCHANGED <<input, end, next, consumed, atEnd, spoken>>
  BY DEF IInv, Carry
<1>2. PICK n \in Nat :
        /\ begin <= n /\ n <= end /\ n <= begin + consumed
        /\ n <= begin' /\ begin' <= end /\ begin' \in Nat
        /\ \A i \in n..(begin' - 1) : Is(i, Blanks)
        /\ \/ phase' = "read" /\ end - begin' <= 2 * MaxChunkBytes
           \/ phase' = "split" /\ begin' < end
  <2>1. consumed > 0
    <3>1. Len(chunks) > 0 /\ Len(chunks) \in Nat
      BY <1>1, TypeFacts DEF Speaking
    <3>2. next > 1
      BY <1>1, <3>1, TypeFacts DEF ChunksToSpeak
    <3> QED BY <1>1, <3>2 DEF Speaking
  <2>2. CASE consumed >= end - begin /\ begin' = end /\ phase' = "read"
    <3>1. /\ end \in Nat /\ begin <= end /\ end <= end /\ end <= begin + consumed
          /\ end <= begin' /\ begin' <= end /\ begin' \in Nat
          /\ \A i \in end..(begin' - 1) : Is(i, Blanks)
          /\ end - begin' <= 2 * MaxChunkBytes
      BY <1>1, <2>2, TypeFacts, Size
    <3> QED BY <2>2, <3>1
  <2>3. CASE /\ consumed < end - begin
             /\ begin' \in Trimmed(begin + consumed) /\ phase' = Pending(begin', end)
    <3>1. begin + consumed \in Nat /\ begin + consumed <= end
      BY <1>1, <2>3, TypeFacts
    <3>2. /\ begin' \in Nat /\ begin + consumed <= begin' /\ begin' <= end
          /\ \A i \in (begin + consumed)..(begin' - 1) : Is(i, Blanks)
      BY <1>1, <2>3, <3>1, TypeFacts, TrimmedBlank
    <3>3. \/ phase' = "read" /\ end - begin' <= 2 * MaxChunkBytes
          \/ phase' = "split" /\ begin' < end
      BY <1>1, <2>3, <3>2, TypeFacts, Size DEF Pending
    <3> DEFINE m == begin + consumed
    <3>4. m \in Nat /\ m <= end /\ m <= begin' /\ \A i \in m..(begin' - 1) : Is(i, Blanks)
      BY <3>1, <3>2
    <3>5. begin <= m /\ m <= begin + consumed
      BY <1>1, TypeFacts
    <3> HIDE DEF m
    <3> QED BY <3>2, <3>3, <3>4, <3>5
  <2> QED BY <2>1, <2>2, <2>3, <1>1, TypeFacts DEF Carry
<1>3. Types'
  <2>1. chunks' \in Seq([from : 0..end', to : 0..end'])
    BY <1>1
  <2>2. begin' \in 0..end' /\ offset' \in begin'..end'
    BY <1>1, <1>2, TypeFacts
  <2> QED BY <1>1, <1>2, <2>1, <2>2 DEF Types, StreamTypeOK
<1>4. Chopped'
  BY <1>1 DEF Chopped
<1>5. Cut'
  <2>a. PICK b \in Nat : b = begin'
    BY <1>2
  <2>b. \A i \in b..(b - 1) : FALSE
    OBVIOUS
  <2>c. \A i \in begin'..(offset' - 1) : FALSE
    BY <1>1, <2>a, <2>b
  <2>1. CoveredTo(offset)'
    BY <2>c DEF CoveredTo
  <2>2. phase' = "split" => begin' < end'
    BY <1>1, <1>2
  <2>3. \A k \in 1..Len(chunks') : FALSE
    BY <1>1
  <2>4. (offset = begin)'
    BY <1>1
  <2> QED BY <2>1, <2>2, <2>3, <2>4 DEF Cut
<1>6. Past'
  <2>1. ASSUME NEW i \in 0..(begin' - 1)
        PROVE  i \in spoken \/ Is(i, Blanks)
    <3>1. CASE i < begin
      BY <1>1, <1>2, <3>1, TypeFacts DEF Past, GoneTo
    <3>2. CASE begin <= i /\ i < n
      <4>1. i \in begin..(n - 1)
        BY <1>1, <1>2, <3>2, TypeFacts
      <4> QED BY <1>1, <1>2, <4>1, Erased
    <3>3. CASE n <= i
      <4>a. PICK b \in Nat : b = begin'
        BY <1>2
      <4>b. i \in 0..(b - 1)
        BY <4>a
      <4>c. i \in n..(b - 1)
        BY <3>3, <4>b
      <4>1. i \in n..(begin' - 1)
        BY <4>a, <4>c
      <4> QED BY <1>2, <4>1
    <3> QED BY <1>1, <1>2, <3>1, <3>2, <3>3, TypeFacts
  <2>2. \A i \in 0..(begin' - 1) : i \in spoken' \/ Is(i, Blanks)'
    BY <1>1, <2>1 DEF Is
  <2> QED BY <1>2, <2>2 DEF Past, GoneTo
<1>7. CarryBounded'
  BY <1>1, <1>2 DEF CarryBounded
<1> QED BY <1>2, <1>3, <1>4, <1>5, <1>6, <1>7 DEF IInv, Speaking

LEMMA EndStreamKeeps == IInv /\ EndStream => IInv'
<1> SUFFICES ASSUME IInv, EndStream PROVE IInv'
  OBVIOUS
<1>1. /\ Types /\ Past /\ Chopped /\ Speaking /\ phase = "speak" /\ next > ChunksToSpeak
      /\ atEnd /\ phase' = "ended"
      /\ UNCHANGED <<input, begin, end, offset, chunks, next, consumed, atEnd, spoken>>
  BY DEF IInv, EndStream
<1>2. Types' /\ Chopped'
  BY <1>1 DEF Types, StreamTypeOK, Chopped, Fits, Is
<1>3. next - 1 = Len(chunks)
  BY <1>1, TypeFacts DEF Speaking, ChunksToSpeak
<1>4. GoneTo(end)
  <2> SUFFICES ASSUME NEW i \in 0..(end - 1) PROVE i \in spoken \/ Is(i, Blanks)
    BY DEF GoneTo
  <2>1. CASE i < begin
    BY <1>1, <2>1, TypeFacts DEF Past, GoneTo
  <2>2. CASE begin <= i
    <3>1. i \in begin..(end - 1) /\ begin <= end /\ end <= end /\ end \in Nat
      BY <1>1, <2>2, TypeFacts
    <3> QED BY <1>1, <1>3, <3>1, Erased
  <2> QED BY <1>1, <2>1, <2>2, TypeFacts
<1>5. Past'
  BY <1>1, <1>4, GoneStays DEF Past, GoneTo
<1> QED BY <1>1, <1>2, <1>5 DEF IInv, Cut, Speaking, CarryBounded

\* The invariant of the reader of a stream (textToWavFileFromStream): its
\* chunks are in order and cover what was split, and what is erased was spoken.
THEOREM Inductive == StreamSpec => []IInv
<1>1. IInv /\ UNCHANGED streamVars => IInv'
  <2> SUFFICES ASSUME IInv, UNCHANGED streamVars PROVE IInv'
    OBVIOUS
  <2>1. UNCHANGED <<input, begin, end, phase, offset, chunks, next, consumed, atEnd, spoken>>
    BY DEF streamVars
  <2>2. Types' /\ Chopped'
    BY <2>1 DEF IInv, Types, StreamTypeOK, Chopped, Fits, Is
  <2>3. Cut'
    BY <2>1 DEF IInv, Cut, CoveredTo, Is, Span
  <2>4. Speaking'
    BY <2>1 DEF IInv, Speaking, CoveredTo, Is, Span
  <2>5. Past' /\ CarryBounded'
    BY <2>1 DEF IInv, Past, GoneTo, CarryBounded, Is
  <2> QED BY <2>2, <2>3, <2>4, <2>5 DEF IInv
<1>2. IInv /\ [StreamNext]_streamVars => IInv'
  BY <1>1, ReadLineKeeps, EndOfStreamKeeps, WholeTextKeeps, CutChunkKeeps, SpinKeeps,
     SplitDoneKeeps, SpeakChunkKeeps, CarryKeeps, EndStreamKeeps DEF StreamNext
<1> QED BY InitIInv, <1>2, PTL DEF StreamSpec

\* Every variable of the reader keeps its type; in particular no position runs
\* past the lines that were read (textToWavFileFromStream).
THEOREM TypeCorrect == StreamSpec => []StreamTypeOK
<1>1. IInv => StreamTypeOK
  BY DEF IInv, Types
<1> QED BY Inductive, <1>1, PTL

\* Every byte that left the pending text was spoken or is blank, whatever the
\* text and the size of the chunks (splitTextIntoChunks, textToWavFileFromStream).
THEOREM NothingLostHolds == StreamSpec => []NothingLost
<1>1. IInv => NothingLost
  <2> SUFFICES ASSUME IInv, NEW i \in 0..(end - 1), i < begin \/ phase = "ended"
               PROVE  i \in spoken \/ Is(i, Blanks)
    BY DEF NothingLost
  <2>1. Types /\ Past
    BY DEF IInv
  <2>2. i < begin => i \in 0..(begin - 1)
    BY <2>1, TypeFacts
  <2> QED BY <2>1, <2>2 DEF Past, GoneTo
<1> QED BY Inductive, <1>1, PTL

\* The chunks that are spoken are in order, at most twice the preferred size long,
\* and end with whole characters, whatever the bytes of the text
\* (chooseSmartSplitPoint, clampToUtf8Boundary).
THEOREM ChunksFitHolds == StreamSpec => []ChunksFit
<1>1. IInv => ChunksFit
  <2> SUFFICES ASSUME IInv, NEW k \in DOMAIN chunks
               PROVE  /\ Fits(chunks[k])
                      /\ k > 1 => chunks[k - 1].to <= chunks[k].from
    BY DEF ChunksFit, Fits
  <2>1. Types /\ Chopped
    BY DEF IInv
  <2>2. k \in 1..Len(chunks) /\ Len(chunks) \in Nat
    BY <2>1, TypeFacts
  <2>3. k > 1 => k - 1 \in 1..Len(chunks) /\ k - 1 < k
    BY <2>2
  <2> QED BY <2>1, <2>2, <2>3 DEF Chopped
<1> QED BY Inductive, <1>1, PTL

\* The reader reads on with at most two chunks' worth of text pending, unless
\* all of it is blank (the loop of textToWavFileFromStream).
THEOREM CarryBoundedHolds == StreamSpec => []CarryBounded
<1>1. IInv => CarryBounded
  BY DEF IInv
<1> QED BY Inductive, <1>1, PTL

-----------------------------------------------------------------------------
(* What is spoken again                                                    *)

\* What is still pending begins in front of what was spoken last by no more
\* bytes than there were blanks; while a split is spoken, what it has spoken is
\* not pending any more.
Erasing == IF phase = "speak" THEN begin + consumed ELSE begin

Lag == phase # "ended" => \A i \in spoken : i < Erasing + Cardinality(BlanksBefore(i))

LEMMA BlanksFinite ==
  ASSUME NEW n \in Nat
  PROVE  IsFiniteSet(BlanksBefore(n)) /\ Cardinality(BlanksBefore(n)) \in Nat
<1>1. IsFiniteSet(0..(n - 1))
  BY FS_Interval
<1>2. BlanksBefore(n) \subseteq 0..(n - 1)
  BY DEF BlanksBefore
<1>3. IsFiniteSet(BlanksBefore(n))
  BY <1>1, <1>2, FS_Subset
<1> QED BY <1>3, FS_CardinalityType

LEMMA BlanksGrow ==
  ASSUME NEW m \in Nat, NEW n \in Nat, m <= n
  PROVE  Cardinality(BlanksBefore(m)) <= Cardinality(BlanksBefore(n))
<1>1. BlanksBefore(m) \subseteq BlanksBefore(n)
  BY DEF BlanksBefore
<1> QED BY <1>1, BlanksFinite, FS_Subset

\* A gap of blanks counts in full.
LEMMA BlankGap ==
  ASSUME NEW m \in Nat, NEW n \in Nat, m <= n, \A i \in m..(n - 1) : Is(i, Blanks)
  PROVE  Cardinality(BlanksBefore(m)) + (n - m) <= Cardinality(BlanksBefore(n))
<1>1. CASE m = n
  BY <1>1, BlanksFinite
<1>2. CASE m < n
  <2>1. /\ IsFiniteSet(m..(n - 1)) /\ Cardinality(m..(n - 1)) = n - m
    <3>1. /\ IsFiniteSet(m..(n - 1))
          /\ Cardinality(m..(n - 1)) = IF m > n - 1 THEN 0 ELSE (n - 1) - m + 1
      BY FS_Interval
    <3> QED BY <1>2, <3>1
  <2>2. BlanksBefore(m) \cap (m..(n - 1)) = {}
    BY DEF BlanksBefore
  <2>3. BlanksBefore(m) \cup (m..(n - 1)) \subseteq BlanksBefore(n)
    BY <1>2 DEF BlanksBefore
  <2>4. Cardinality(BlanksBefore(m) \cup (m..(n - 1)))
          = Cardinality(BlanksBefore(m)) + Cardinality(m..(n - 1))
    <3>1. Cardinality(BlanksBefore(m) \cap (m..(n - 1))) = 0
      BY <2>2, FS_EmptySet
    <3>2. IsFiniteSet(BlanksBefore(m)) /\ Cardinality(BlanksBefore(m)) \in Nat
      BY BlanksFinite
    <3>3. Cardinality(BlanksBefore(m) \cup (m..(n - 1)))
            = Cardinality(BlanksBefore(m)) + Cardinality(m..(n - 1))
                - Cardinality(BlanksBefore(m) \cap (m..(n - 1)))
      BY <2>1, <3>2, FS_Union
    <3> QED BY <1>2, <2>1, <3>1, <3>2, <3>3
  <2>5. Cardinality(BlanksBefore(m) \cup (m..(n - 1))) <= Cardinality(BlanksBefore(n))
    BY <2>3, BlanksFinite, FS_Subset
  <2> QED BY <2>1, <2>4, <2>5, BlanksFinite
<1> QED BY <1>1, <1>2

\* Between two chunks of a split, and before the first, everything is blank.
LEMMA BlankBetween ==
  ASSUME Types, Chopped, Speaking, phase = "speak", NEW k \in 1..Len(chunks),
         NEW from \in Nat, begin <= from,
         \A m \in 1..Len(chunks) : m < k => chunks[m].to <= from,
         NEW i \in from..(chunks[k].from - 1)
  PROVE  Is(i, Blanks)
<1>1. chunks[k].from \in Nat /\ chunks[k].from < chunks[k].to /\ chunks[k].to <= end
  BY TypeFacts DEF Chopped, Fits
<1>2. i \in begin..(end - 1)
  BY <1>1, TypeFacts
<1>3. ASSUME NEW m \in 1..Len(chunks), i \in Span(chunks[m])
      PROVE  FALSE
  <2>1. chunks[m].from \in Nat /\ chunks[m].to \in Nat /\ chunks[m].from <= i /\ i < chunks[m].to
    BY <1>3, TypeFacts DEF Span
  <2>2. CASE m < k
    BY <1>1, <2>1, <2>2
  <2>3. CASE m = k
    BY <1>1, <2>1, <2>3
  <2>4. CASE m > k
    <3>1. chunks[k].to <= chunks[m].from /\ chunks[k].to \in Nat
      BY <2>4, TypeFacts DEF Chopped
    <3> QED BY <1>1, <2>1, <3>1
  <2> QED BY <2>2, <2>3, <2>4
<1> QED BY <1>2, <1>3 DEF Speaking, CoveredTo

\* The blanks skipped so far make up for what the erasing falls short.
LEMMA Skipped ==
  ASSUME Types, Chopped, Speaking, Lag, phase = "speak", next \in 1..Len(chunks)
  PROVE  chunks[next].from <= begin + consumed + Cardinality(BlanksBefore(chunks[next].from))
<1>a. PICK n \in Nat : n = chunks[next].from
  BY TypeFacts
<1>b. begin <= n /\ begin \in Nat /\ consumed \in Nat
  BY <1>a, TypeFacts DEF Chopped, Fits
<1>1. CASE next = 1
  <2>1. \A m \in 1..Len(chunks) : m < next => chunks[m].to <= begin
    BY <1>1
  <2>2. \A i \in begin..(n - 1) : Is(i, Blanks)
    BY <1>a, <1>b, <2>1, BlankBetween
  <2>3. Cardinality(BlanksBefore(begin)) + (n - begin) <= Cardinality(BlanksBefore(n))
    BY <1>b, <2>2, BlankGap
  <2>4. Cardinality(BlanksBefore(begin)) \in Nat /\ Cardinality(BlanksBefore(n)) \in Nat
    BY <1>b, BlanksFinite
  <2> QED BY <1>a, <1>b, <2>3, <2>4
<1>2. CASE next > 1
  <2>1. next - 1 \in 1..Len(chunks) /\ next - 1 < next /\ next - 1 \in 1..(next - 1)
    BY <1>2, TypeFacts
  <2>2. PICK p \in Nat : p = chunks[next - 1].to
    BY <2>1, TypeFacts
  <2>3. /\ chunks[next - 1].from \in Nat /\ chunks[next - 1].from < p
        /\ begin <= chunks[next - 1].from /\ p <= n
    BY <1>a, <2>1, <2>2, TypeFacts DEF Chopped, Fits
  <2>4. \A m \in 1..Len(chunks) : m < next => chunks[m].to <= p
    <3> SUFFICES ASSUME NEW m \in 1..Len(chunks), m < next PROVE chunks[m].to <= p
      OBVIOUS
    <3>1. CASE m = next - 1
      BY <2>2, <3>1
    <3>2. CASE m < next - 1
      <4>1. chunks[m].to <= chunks[next - 1].from /\ chunks[m].to \in Nat
        BY <2>1, <3>2, TypeFacts DEF Chopped
      <4> QED BY <2>3, <4>1
    <3> QED BY <3>1, <3>2, TypeFacts
  <2>5. \A i \in p..(n - 1) : Is(i, Blanks)
    <3>1. begin <= p
      BY <1>b, <2>3
    <3> QED BY <1>a, <2>4, <3>1, BlankBetween
  <2>6. p - 1 \in spoken
    <3>1. p - 1 \in Span(chunks[next - 1])
      BY <2>2, <2>3 DEF Span
    <3> QED BY <2>1, <3>1 DEF Speaking
  <2>7. p - 1 < begin + consumed + Cardinality(BlanksBefore(p - 1))
    BY <2>6 DEF Lag, Erasing
  <2>8. /\ Cardinality(BlanksBefore(p)) + (n - p) <= Cardinality(BlanksBefore(n))
        /\ Cardinality(BlanksBefore(p - 1)) <= Cardinality(BlanksBefore(p))
    BY <2>3, <2>5, BlankGap, BlanksGrow
  <2>9. /\ Cardinality(BlanksBefore(p)) \in Nat /\ Cardinality(BlanksBefore(n)) \in Nat
        /\ Cardinality(BlanksBefore(p - 1)) \in Nat
    <3>1. p \in Nat /\ n \in Nat /\ p - 1 \in Nat
      BY <2>3
    <3> QED BY <3>1, BlanksFinite
  <2> QED BY <1>a, <1>b, <2>7, <2>8, <2>9
<1> QED BY <1>1, <1>2, TypeFacts

LEMMA SpeakChunkLags ==
  ASSUME IInv, Lag, SpeakChunk
  PROVE  Lag'
<1>1. /\ Types /\ Chopped /\ Speaking /\ phase = "speak" /\ phase' = "speak"
      /\ UNCHANGED <<input, begin, end, chunks>>
      /\ spoken' = spoken \cup Span(chunks[next])
      /\ consumed' = consumed + (chunks[next].to - chunks[next].from)
  BY DEF IInv, SpeakChunk
<1>2. next \in 1..Len(chunks)
  <2>1. next <= ChunksToSpeak
    BY DEF SpeakChunk
  <2>2. ChunksToSpeak <= Len(chunks) /\ ChunksToSpeak \in Int
    BY <1>1, TypeFacts DEF ChunksToSpeak
  <2> QED BY <1>1, <2>1, <2>2, TypeFacts
<1>3. PICK f \in Nat : f = chunks[next].from
  BY <1>1, <1>2, TypeFacts
<1>4. PICK t \in Nat : t = chunks[next].to /\ f < t
  BY <1>1, <1>2, <1>3, TypeFacts DEF Chopped, Fits
<1>5. /\ begin \in Nat /\ consumed \in Nat /\ consumed' = consumed + (t - f)
      /\ f <= begin + consumed + Cardinality(BlanksBefore(f))
  BY <1>1, <1>2, <1>3, <1>4, Skipped, TypeFacts
<1>6. ASSUME NEW i \in spoken'
      PROVE  i < begin + consumed' + Cardinality(BlanksBefore(i))
  <2>1. i \in Nat
    BY <1>1, <1>2, TypeFacts DEF Types, StreamTypeOK, Span
  <2>2. Cardinality(BlanksBefore(i)) \in Nat
    BY <2>1, BlanksFinite
  <2>3. CASE i \in spoken
    <3>1. i < begin + consumed + Cardinality(BlanksBefore(i))
      BY <1>1, <2>3 DEF Lag, Erasing
    <3> QED BY <1>4, <1>5, <2>1, <2>2, <3>1
  <2>4. CASE i \in Span(chunks[next])
    <3>1. f <= i /\ i < t
      BY <1>3, <1>4, <2>4 DEF Span
    <3>2. Cardinality(BlanksBefore(f)) <= Cardinality(BlanksBefore(i))
      BY <2>1, <3>1, BlanksGrow
    <3>3. Cardinality(BlanksBefore(f)) \in Nat
      BY BlanksFinite
    <3> QED BY <1>5, <2>1, <2>2, <3>1, <3>2, <3>3
  <2> QED BY <1>1, <2>3, <2>4
<1>7. \A i : BlanksBefore(i)' = BlanksBefore(i)
  BY <1>1 DEF BlanksBefore, Is
<1> QED BY <1>1, <1>6, <1>7 DEF Lag, Erasing

\* The erasing takes away what was spoken, and never puts anything back.
LEMMA OthersLag ==
  ASSUME IInv, IInv', Lag, UNCHANGED <<input, spoken>>, phase' # "ended",
         \/ phase # "ended" /\ Erasing <= Erasing'
         \/ begin' = end
  PROVE  Lag'
<1>1. \A i : BlanksBefore(i)' = BlanksBefore(i)
  BY DEF BlanksBefore, Is
<1>2. /\ begin \in Nat /\ end \in Nat /\ consumed \in Nat
      /\ begin' \in Nat /\ consumed' \in Nat /\ spoken \subseteq 0..(end - 1)
  BY DEF IInv, Types, StreamTypeOK
<1>3. Erasing \in Nat /\ Erasing' \in Nat /\ begin' <= Erasing'
  <2>1. Erasing \in Nat
    BY <1>2 DEF Erasing
  <2>2. Erasing' = begin' + consumed' \/ Erasing' = begin'
    BY DEF Erasing
  <2>3. begin' \in Nat /\ consumed' \in Nat
    BY <1>2
  <2> QED BY <2>1, <2>2, <2>3
<1>4. ASSUME NEW i \in spoken
      PROVE  i < Erasing' + Cardinality(BlanksBefore(i))
  <2>1. i \in Nat /\ i < end
    BY <1>2
  <2>2. Cardinality(BlanksBefore(i)) \in Nat
    BY <2>1, BlanksFinite
  <2>3. CASE begin' = end
    BY <1>2, <1>3, <2>1, <2>2, <2>3
  <2>4. CASE phase # "ended" /\ Erasing <= Erasing'
    <3>1. i < Erasing + Cardinality(BlanksBefore(i))
      BY <2>4 DEF Lag
    <3> QED BY <1>3, <2>1, <2>2, <2>4, <3>1
  <2> QED BY <2>3, <2>4
<1> QED BY <1>1, <1>4 DEF Lag

LEMMA LagStep ==
  ASSUME IInv, IInv', Lag, [StreamNext]_streamVars
  PROVE  Lag'
<1>0. /\ begin \in Nat /\ end \in Nat /\ consumed \in Nat /\ begin <= end
      /\ begin' \in Nat /\ consumed' \in Nat
  BY DEF IInv, Types, StreamTypeOK
<1>1. CASE UNCHANGED streamVars
  BY <1>1 DEF streamVars, Lag, Erasing, BlanksBefore, Is
<1>2. CASE ReadLine \/ EndOfStream
  <2>1. phase = "read" /\ phase' # "speak" /\ UNCHANGED <<input, spoken, begin>>
    BY <1>2 DEF ReadLine, EndOfStream, Pending
  <2>2. phase' # "ended" => Erasing <= Erasing'
    BY <1>0, <2>1 DEF Erasing
  <2> QED BY <2>1, <2>2, OthersLag DEF Lag
<1>3. CASE WholeText \/ CutChunk \/ Spin \/ SplitDone
  <2>1. phase = "split" /\ UNCHANGED <<input, spoken, begin>> /\ (phase' = "speak" => consumed' = 0)
    BY <1>3 DEF WholeText, CutChunk, Spin, SplitDone, StartSpeaking
  <2>2. Erasing = begin /\ (Erasing' = begin \/ Erasing' = begin + 0)
    BY <2>1 DEF Erasing
  <2>3. Erasing <= Erasing'
    BY <1>0, <2>2
  <2> QED BY <2>1, <2>3, OthersLag DEF Lag
<1>4. CASE SpeakChunk
  BY <1>4, SpeakChunkLags
<1>5. CASE Carry
  <2>1. phase = "speak" /\ phase' \in {"read", "split"} /\ UNCHANGED <<input, spoken>>
    BY <1>5 DEF Carry, Pending
  <2>2. CASE begin' = end
    BY <2>1, <2>2, OthersLag
  <2>3. CASE consumed < end - begin /\ begin' \in Trimmed(begin + consumed)
    <3>1. begin + consumed \in Nat /\ begin + consumed <= end
      BY <1>0, <2>3
    <3>2. begin + consumed <= begin'
      BY <2>3, <3>1, TypeFacts, TrimmedBlank DEF IInv
    <3>3. Erasing <= Erasing'
      BY <1>0, <2>1, <3>2 DEF Erasing
    <3> QED BY <2>1, <3>3, OthersLag
  <2> QED BY <1>5, <2>2, <2>3 DEF Carry
<1>6. CASE EndStream
  BY <1>6 DEF EndStream, Lag
<1> QED BY <1>1, <1>2, <1>3, <1>4, <1>5, <1>6 DEF StreamNext

\* What is spoken again, because the bytes erased are counted without the
\* blanks skipped before a chunk, is over all lines together no more than there
\* were blanks (consumedBytes in textToWavFileFromStream).
THEOREM RepeatBoundedHolds == StreamSpec => []RepeatBounded
<1>1. StreamInit => Lag
  BY DEF StreamInit, Lag
<1>2. IInv /\ IInv' /\ Lag /\ [StreamNext]_streamVars => Lag'
  BY LagStep
<1>3. Lag => RepeatBounded
  BY DEF Lag, RepeatBounded, Erasing
<1> QED BY Inductive, <1>1, <1>2, <1>3, PTL DEF StreamSpec

-----------------------------------------------------------------------------
(* The reader goes on                                                      *)

\* What the next step needs is there, wherever the reader is: a line or the end
\* of the stream to read, a place to cut at, a place to carry on from.  On a
\* well-formed text it does not spin.
GoesOn ==
  /\ phase = "read" =>
       ~atEnd /\ (end = Len(input)
                    \/ Least({i \in (end + 1)..Len(input) : input[i] = "newline"}) # {})
  /\ phase = "split" =>
       \E from \in Trimmed(offset) : from = end \/ (from < end /\ ChunkEnd(from) # {})
  /\ phase = "speak" /\ consumed < end - begin => Trimmed(begin + consumed) # {}
  /\ phase = "spins" => ~WellFormed(input)

OnlyOnce == phase = "read" => ~atEnd

Spinning == phase = "spins" => ~WellFormed(input)

LEMMA NextLine ==
  ASSUME InText, end < Len(input)
  PROVE  Least({i \in (end + 1)..Len(input) : input[i] = "newline"}) # {}
<1> DEFINE S == {i \in (end + 1)..Len(input) : input[i] = "newline"}
<1>1. Len(input) \in Nat /\ Len(input) \in (end + 1)..Len(input) /\ end \in Nat
  BY InTextTypes
<1>2. input # <<>>
  BY <1>1
<1>3. input[Len(input)] = "newline"
  BY <1>2, TextAssumption DEF InText
<1>4. S \in SUBSET Nat /\ Len(input) \in S
  BY <1>1, <1>3
<1> HIDE DEF S
<1>5. \E x \in S : Least(S) = {x}
  BY <1>4, OneLeast
<1>6. Least(S) # {}
  BY <1>5
<1> QED BY <1>6 DEF S

\* A turn that does not take the splitter further needs a text that is not
\* well-formed.
LEMMA SpinMalformed == IInv /\ Spin => ~WellFormed(input)
<1> SUFFICES ASSUME IInv, Spin, WellFormed(input) PROVE FALSE
  OBVIOUS
<1>1. Types
  BY DEF IInv
<1>2. PICK from \in Trimmed(offset) : from < end /\ \E to \in ChunkEnd(from) : to <= from
  BY DEF Spin
<1>3. PICK to \in ChunkEnd(from) : to <= from
  BY <1>2
<1>4. from \in Nat /\ begin <= from /\ InText
  BY <1>1, TypeFacts, TrimmedBlank
<1>5. to \in Nat /\ from < to
  BY <1>2, <1>4, ChunkEndWithin, ChunkEndAdvances
<1> QED BY <1>3, <1>4, <1>5

\* Once a turn of splitTextIntoChunks does not take it further, none does: wherever
\* the splitter is then, the next turn begins the same chunk, and nothing it cuts by
\* has changed.
THEOREM SpinsForEver ==
  ASSUME IInv, phase = "split",
         NEW from \in Trimmed(offset), from < end, NEW to \in ChunkEnd(from), to <= from
  PROVE  Trimmed(to) = {from}
<1>1. Types /\ (offset = begin \/ offset = end \/ ~Is(offset, Continuations))
  BY DEF IInv, Cut
<1>2. /\ InText /\ begin \in Nat /\ end \in Nat /\ offset \in Nat /\ begin <= offset /\ offset <= end
      /\ from \in Nat /\ offset <= from
      /\ \A i \in offset..(from - 1) : Is(i, Blanks)
      /\ ~Is(from, Blanks)
  BY <1>1, TypeFacts, TrimmedBlank
<1>3. to \in Nat /\ begin <= to /\ to \in Boundary(from + MaxChunkBytes)
  BY <1>2, ChunkEndWithin, ChunkEndBack
<1>4. from + MaxChunkBytes \in Nat /\ from <= from + MaxChunkBytes
  BY <1>2, Size
<1>5. offset <= to /\ \A i \in to..(from - 1) : Is(i, Blanks)
  <2>1. CASE offset = from
    <3>1. from <= to
      BY <1>1, <1>2, <1>3, <1>4, <2>1, BoundaryStops
    <3> QED BY <1>2, <1>3, <2>1, <3>1
  <2>2. CASE offset < from
    <3>1. from - 1 \in offset..(from - 1) /\ from - 1 \in Nat
      BY <1>2, <2>2
    <3>2. ~Is(from - 1, Continuations)
      BY <1>2, <3>1 DEF Is, Blanks, Continuations
    <3>3. from - 1 <= to
      <4>1. begin <= from - 1 /\ from - 1 < end /\ from - 1 <= from + MaxChunkBytes
        BY <1>2, <2>2, Size
      <4> QED BY <1>2, <1>3, <1>4, <3>1, <3>2, <4>1, BoundaryStops
    <3> QED BY <1>2, <1>3, <2>2, <3>3
  <2> QED BY <1>2, <2>1, <2>2
<1>6. from \in Trimmed(to)
  <2>1. from \in to..end
    BY <1>2, <1>3
  <2>2. ASSUME NEW i \in to..end, i = end \/ ~Is(i, Blanks) PROVE from <= i
    BY <1>2, <1>3, <1>5, <2>2
  <2> QED BY <1>2, <2>1, <2>2 DEF Trimmed, Least
<1>7. \E x \in to..end : Trimmed(to) = {x}
  BY <1>2, <1>3, OneTrimmed
<1> QED BY <1>6, <1>7

\* The reader is never stuck before the end of its input, whatever its bytes: with
\* AdvancesHolds, for a well-formed text the safety half of the end of the loops of
\* textToWavFileFromStream and splitTextIntoChunks.
THEOREM NeverStuck == StreamSpec => []GoesOn
<1>1. StreamInit => OnlyOnce /\ Spinning
  BY DEF StreamInit, OnlyOnce, Spinning
<1>2. OnlyOnce /\ [StreamNext]_streamVars => OnlyOnce'
  <2> SUFFICES ASSUME OnlyOnce, [StreamNext]_streamVars PROVE OnlyOnce'
    OBVIOUS
  <2> USE DEF OnlyOnce
  <2>1. CASE ReadLine
    BY <2>1 DEF ReadLine
  <2>2. CASE EndOfStream
    BY <2>2 DEF EndOfStream
  <2>3. CASE WholeText \/ CutChunk \/ Spin \/ SpeakChunk
    BY <2>3 DEF WholeText, CutChunk, Spin, SpeakChunk, StartSpeaking
  <2>4. CASE SplitDone
    BY <2>4 DEF SplitDone, StartSpeaking
  <2>5. CASE Carry
    BY <2>5 DEF Carry
  <2>6. CASE EndStream \/ UNCHANGED streamVars
    BY <2>6 DEF EndStream, streamVars
  <2> QED BY <2>1, <2>2, <2>3, <2>4, <2>5, <2>6 DEF StreamNext
<1>3. IInv /\ Spinning /\ [StreamNext]_streamVars => Spinning'
  <2> SUFFICES ASSUME IInv, Spinning, [StreamNext]_streamVars, phase' = "spins"
               PROVE  ~WellFormed(input)'
    BY DEF Spinning
  <2>1. input' = input
    BY DEF StreamNext, ReadLine, EndOfStream, WholeText, CutChunk, Spin, SplitDone, SpeakChunk,
           Carry, EndStream, streamVars
  <2>2. phase = "spins" \/ Spin
    BY DEF StreamNext, ReadLine, EndOfStream, WholeText, CutChunk, SplitDone, StartSpeaking,
           SpeakChunk, Carry, EndStream, Pending, streamVars
  <2>3. ~WellFormed(input)
    BY <2>2, SpinMalformed DEF Spinning
  <2> QED BY <2>1, <2>3 DEF WellFormed
<1>4. IInv /\ OnlyOnce /\ Spinning => GoesOn
  <2> SUFFICES ASSUME IInv, OnlyOnce, Spinning PROVE GoesOn
    OBVIOUS
  <2>1. /\ InText /\ begin \in Nat /\ end \in Nat /\ offset \in Nat /\ consumed \in Nat
        /\ begin <= offset /\ offset <= end /\ end <= Len(input) /\ Len(input) \in Nat
    BY TypeFacts DEF IInv, Types, StreamTypeOK
  <2>2. end = Len(input) \/ end < Len(input)
    BY <2>1
  <2>3. PICK from \in offset..end : Trimmed(offset) = {from}
    BY <2>1, OneTrimmed
  <2>4. from \in Nat /\ begin <= from /\ (from = end \/ from < end)
    BY <2>1, <2>3
  <2>5. from < end => ChunkEnd(from) # {}
    <3> SUFFICES ASSUME from < end PROVE ChunkEnd(from) # {}
      OBVIOUS
    <3>1. \E to : ChunkEnd(from) = {to}
      BY <2>1, <2>4, SplitterAnswers
    <3> QED BY <3>1
  <2>6. consumed < end - begin => Trimmed(begin + consumed) # {}
    <3> SUFFICES ASSUME consumed < end - begin PROVE Trimmed(begin + consumed) # {}
      OBVIOUS
    <3>1. begin + consumed \in Nat /\ begin + consumed <= end
      BY <2>1
    <3>2. \E x \in (begin + consumed)..end : Trimmed(begin + consumed) = {x}
      BY <2>1, <3>1, OneTrimmed
    <3> QED BY <3>2
  <2>7. phase = "read" => ~atEnd
    BY DEF OnlyOnce
  <2> QED BY <2>1, <2>2, <2>3, <2>4, <2>5, <2>6, <2>7, NextLine DEF GoesOn, Spinning
<1> QED BY Inductive, <1>1, <1>2, <1>3, <1>4, PTL DEF StreamSpec

LEMMA BelowAt ==
  ASSUME NEW a1, NEW a2, NEW a3, NEW a4, NEW a5, NEW a6,
         NEW b1, NEW b2, NEW b3, NEW b4, NEW b5, NEW b6,
         \/ a1 < b1
         \/ a1 = b1 /\ a2 < b2
         \/ a1 = b1 /\ a2 = b2 /\ a3 < b3
         \/ a1 = b1 /\ a2 = b2 /\ a3 = b3 /\ a4 < b4
         \/ a1 = b1 /\ a2 = b2 /\ a3 = b3 /\ a4 = b4 /\ a5 < b5
         \/ a1 = b1 /\ a2 = b2 /\ a3 = b3 /\ a4 = b4 /\ a5 = b5 /\ a6 < b6
  PROVE  Below(<<a1, a2, a3, a4, a5, a6>>, <<b1, b2, b3, b4, b5, b6>>)
<1> DEFINE s == <<a1, a2, a3, a4, a5, a6>>
           t == <<b1, b2, b3, b4, b5, b6>>
<1>1. DOMAIN s = 1..6
  OBVIOUS
<1>2. \A k \in 1..6 : k \in {1, 2, 3, 4, 5, 6}
  OBVIOUS
<1>3. /\ s[1] = a1 /\ s[2] = a2 /\ s[3] = a3 /\ s[4] = a4 /\ s[5] = a5 /\ s[6] = a6
      /\ t[1] = b1 /\ t[2] = b2 /\ t[3] = b3 /\ t[4] = b4 /\ t[5] = b5 /\ t[6] = b6
  OBVIOUS
<1> HIDE DEF s, t
<1>4. PICK k \in 1..6 : s[k] < t[k] /\ \A m \in 1..(k - 1) : s[m] = t[m]
  <2>1. /\ 1..(1 - 1) = {} /\ 1..(2 - 1) = {1} /\ 1..(3 - 1) = {1, 2}
        /\ 1..(4 - 1) = {1, 2, 3} /\ 1..(5 - 1) = {1, 2, 3, 4} /\ 1..(6 - 1) = {1, 2, 3, 4, 5}
    OBVIOUS
  <2>2. 1 \in 1..6 /\ 2 \in 1..6 /\ 3 \in 1..6 /\ 4 \in 1..6 /\ 5 \in 1..6 /\ 6 \in 1..6
    OBVIOUS
  <2>3. CASE a1 < b1
    BY <2>1, <2>2, <2>3, <1>3
  <2>4. CASE a1 = b1 /\ a2 < b2
    BY <2>1, <2>2, <2>4, <1>3
  <2>5. CASE a1 = b1 /\ a2 = b2 /\ a3 < b3
    BY <2>1, <2>2, <2>5, <1>3
  <2>6. CASE a1 = b1 /\ a2 = b2 /\ a3 = b3 /\ a4 < b4
    BY <2>1, <2>2, <2>6, <1>3
  <2>7. CASE a1 = b1 /\ a2 = b2 /\ a3 = b3 /\ a4 = b4 /\ a5 < b5
    BY <2>1, <2>2, <2>7, <1>3
  <2>8. CASE a1 = b1 /\ a2 = b2 /\ a3 = b3 /\ a4 = b4 /\ a5 = b5 /\ a6 < b6
    BY <2>1, <2>2, <2>8, <1>3
  <2> QED BY <2>3, <2>4, <2>5, <2>6, <2>7, <2>8
<1>5. Below(s, t)
  BY <1>1, <1>4 DEF Below
<1> QED BY <1>5 DEF s, t

\* The step from the loop of the splitting on to the next chunk, from there to
\* the speaking, and so on, is one further on.
LEMMA Stages ==
  Stage["split"] = 1 /\ Stage["speak"] = 2 /\ Stage["read"] = 3 /\ Stage["ended"] = 4
BY DEF Stage

AtEnd == IF atEnd THEN 1 ELSE 0

LEMMA Further ==
  ASSUME \/ begin < begin'
         \/ begin = begin' /\ end < end'
         \/ begin = begin' /\ end = end' /\ AtEnd < AtEnd'
         \/ begin = begin' /\ end = end' /\ AtEnd = AtEnd' /\ Stage[phase] < Stage'[phase']
         \/ begin = begin' /\ end = end' /\ AtEnd = AtEnd' /\ Stage[phase] = Stage'[phase']
              /\ offset < offset'
         \/ begin = begin' /\ end = end' /\ AtEnd = AtEnd' /\ Stage[phase] = Stage'[phase']
              /\ offset = offset' /\ next < next'
  PROVE  Below(Progress, Progress')
<1> DEFINE g == Stage[phase]
           h == Stage'[phase']
<1>1. /\ Progress = <<begin, end, AtEnd, g, offset, next>>
      /\ Progress' = <<begin', end', AtEnd', h, offset', next'>>
  BY DEF Progress, AtEnd
<1>2. Below(<<begin, end, AtEnd, g, offset, next>>, <<begin', end', AtEnd', h, offset', next'>>)
  <2> HIDE DEF g, h
  <2> QED BY BelowAt DEF g, h
<1> QED BY <1>1, <1>2

\* A text that is carried is shorter than before.
LEMMA CarryShrinks == IInv /\ Carry => begin < begin'
<1> SUFFICES ASSUME IInv, Carry PROVE begin < begin'
  OBVIOUS
<1>1. Types /\ Chopped /\ Speaking /\ phase = "speak" /\ next > ChunksToSpeak
  BY DEF IInv, Carry
<1>2. Len(chunks) > 0 /\ Len(chunks) \in Nat
  BY <1>1, TypeFacts DEF Speaking
<1>3. next > 1
  BY <1>1, <1>2, TypeFacts DEF ChunksToSpeak
<1>4. consumed > 0
  BY <1>1, <1>3 DEF Speaking
<1>5. begin < end
  <2>1. 1 \in 1..Len(chunks)
    BY <1>2
  <2>2. /\ begin <= chunks[1].from /\ chunks[1].from < chunks[1].to /\ chunks[1].to <= end
        /\ chunks[1].from \in Nat /\ chunks[1].to \in Nat
    BY <1>1, <2>1, TypeFacts DEF Chopped, Fits
  <2> QED BY <1>1, <2>2, TypeFacts
<1>6. CASE begin' = end
  BY <1>5, <1>6
<1>7. CASE consumed < end - begin /\ begin' \in Trimmed(begin + consumed)
  <2>1. begin + consumed \in Nat /\ begin + consumed <= end /\ begin < begin + consumed
    BY <1>1, <1>4, <1>7, TypeFacts
  <2>2. begin' \in Nat /\ begin + consumed <= begin'
    BY <1>1, <1>7, <2>1, TypeFacts, TrimmedBlank
  <2> QED BY <1>1, <2>1, <2>2, TypeFacts
<1> QED BY <1>6, <1>7 DEF Carry

\* A chunk that is cut ends behind where the splitter stood.
LEMMA CutGoesOn == IInv /\ CutChunk => offset < offset'
<1> SUFFICES ASSUME IInv, CutChunk PROVE offset < offset'
  OBVIOUS
<1>1. Types
  BY DEF IInv
<1>2. PICK from \in Trimmed(offset) : from < end /\ from < offset' /\ offset' \in ChunkEnd(from)
  BY DEF CutChunk
<1>3. from \in Nat /\ offset <= from /\ begin <= from /\ InText /\ offset \in Nat
  BY <1>1, TypeFacts, TrimmedBlank
<1>4. offset' \in Nat
  BY <1>2, <1>3, ChunkEndWithin
<1> QED BY <1>2, <1>3, <1>4

\* On a well-formed text every step of the reader takes it further on: reading,
\* carrying and splitting never turn on the spot, so that the loops of
\* textToWavFileFromStream and splitTextIntoChunks end.  UTF-8 is well-formed;
\* nobody refuses a text that is not.
THEOREM AdvancesHolds == StreamSpec => Advances
<1>1. IInv /\ StreamNext /\ WellFormed(input) => Below(Progress, Progress')
  <2> SUFFICES ASSUME IInv, StreamNext, WellFormed(input) PROVE Below(Progress, Progress')
    OBVIOUS
  <2>1. Types
    BY DEF IInv
  <2>2. begin \in Nat /\ end \in Nat /\ offset \in Nat /\ next \in Nat /\ atEnd \in BOOLEAN
    BY <2>1, TypeFacts DEF Types, StreamTypeOK
  <2>3. /\ Stage' = Stage
        /\ Stage["split"] < Stage["speak"] /\ Stage["split"] < Stage["read"]
        /\ Stage["split"] < Stage["ended"] /\ Stage["speak"] < Stage["ended"]
    BY Stages DEF Stage
  <2>4. CASE ReadLine
    <3>1. end' \in (end + 1)..Len(input) /\ begin' = begin
      BY <2>4, LeastIn DEF ReadLine
    <3>2. end < end'
      BY <2>1, <2>2, <3>1, TypeFacts
    <3> QED BY <3>1, <3>2, Further
  <2>5. CASE EndOfStream
    <3>1. AtEnd < AtEnd' /\ begin' = begin /\ end' = end
      BY <2>5 DEF EndOfStream, AtEnd
    <3> QED BY <3>1, Further
  <2>6. CASE WholeText
    <3>1. /\ UNCHANGED <<begin, end, AtEnd>> /\ Stage[phase] < Stage'[phase']
      BY <2>3, <2>6 DEF WholeText, StartSpeaking, AtEnd
    <3> QED BY <3>1, Further
  <2>7. CASE CutChunk
    <3>1. offset < offset'
      BY <2>7, CutGoesOn
    <3>2. UNCHANGED <<begin, end, AtEnd>> /\ Stage[phase] = Stage'[phase']
      BY <2>3, <2>7 DEF CutChunk, AtEnd
    <3> QED BY <3>1, <3>2, Further
  <2>8. CASE SplitDone
    <3>1. UNCHANGED <<begin, end, AtEnd>> /\ phase = "split" /\ phase' \in {"speak", "read", "ended"}
      BY <2>8 DEF SplitDone, StartSpeaking, AtEnd
    <3>2. Stage[phase] < Stage'[phase']
      BY <2>3, <3>1
    <3> QED BY <3>1, <3>2, Further
  <2>9. CASE SpeakChunk
    <3>1. /\ UNCHANGED <<begin, end, AtEnd, phase, offset>> /\ next' = next + 1
      BY <2>9 DEF SpeakChunk, AtEnd
    <3>2. next < next' /\ Stage[phase] = Stage'[phase']
      BY <2>2, <2>3, <3>1
    <3> QED BY <3>1, <3>2, Further
  <2>10. CASE Carry
    BY <2>10, CarryShrinks, Further
  <2>11. CASE EndStream
    <3>1. UNCHANGED <<begin, end, AtEnd>> /\ phase = "speak" /\ phase' = "ended"
      BY <2>11 DEF EndStream, AtEnd
    <3> QED BY <2>3, <3>1, Further
  <2>12. ~Spin
    BY SpinMalformed
  <2> QED BY <2>4, <2>5, <2>6, <2>7, <2>8, <2>9, <2>10, <2>11, <2>12 DEF StreamNext
<1>2. IInv /\ [StreamNext]_streamVars => [WellFormed(input) => Below(Progress, Progress')]_streamVars
  BY <1>1
<1> QED BY Inductive, <1>2, PTL DEF StreamSpec, Advances
=============================================================================
