--------------------------- MODULE TranscriptText ---------------------------
(***************************************************************************)
(* From the words of a recogniser's answer to the chunks of a video: the   *)
(* offsets of a word are repaired, words are put in order and joined to    *)
(* segments, and sentences are packed into chunks that overlap.            *)
(*                                                                         *)
(* A word is its position n in the answer, its bounds and whether it ends  *)
(* a sentence; it is one token.  The first step is the recogniser's        *)
(* client, the others are of the pipeline.                                 *)
(***************************************************************************)
EXTENDS Integers, Sequences, SequencesExt

CONSTANTS
  Answers,        \* what the recogniser may answer: sequences of words
  Overlaps,       \* settings of the number of sentences chunks share
  SegmentWords,   \* the longest segment
  MaxTokens       \* the longest chunk

Words == [n : Nat, start : Int, end : Int, mark : BOOLEAN]
ASSUME TextAssumption ==
  /\ \A a \in Answers : a \in Seq(Words) /\ \A i \in DOMAIN a : a[i].n = i
  /\ Overlaps \subseteq Nat

VARIABLES
  stage,     \* "answered", "parsed", "segmented", "chunked" or "invalid"
  answer,
  overlap,
  words,     \* repaired and in order
  segments,
  chunks     \* sequences of fragments
wvars == <<stage, answer, overlap, words, segments, chunks>>

TextInit ==
  /\ stage = "answered" /\ answer \in Answers /\ overlap \in Overlaps
  /\ words = <<>> /\ segments = <<>> /\ chunks = <<>>

(***************************************************************************)
(* Words.                                                                  *)
(***************************************************************************)

Reversed(word) == word.end < word.start

\* Its neighbours are taken as the recogniser gave them.
Repairable(ws, i) ==
  /\ 1 < i /\ i < Len(ws)
  /\ ~Reversed(ws[i - 1]) /\ ~Reversed(ws[i + 1]) /\ ws[i - 1].end <= ws[i + 1].start

Corrected(word, low, high) ==
  LET usable(t) == low <= t /\ t <= high
  IN  [word EXCEPT !.start = IF usable(@) /\ ~usable(word.end) THEN @ ELSE low,
                   !.end = IF usable(@) /\ ~usable(word.start) THEN @ ELSE high]

Repaired(ws) ==
  [i \in DOMAIN ws |-> IF Reversed(ws[i]) THEN Corrected(ws[i], ws[i - 1].end, ws[i + 1].start)
                       ELSE ws[i]]

\* After the last word that starts no later.
Spot(ws, word) ==
  CHOOSE k \in 0..Len(ws) : /\ \A i \in 1..k : ws[i].start <= word.start
                            /\ \A i \in (k + 1)..Len(ws) : word.start < ws[i].start
Inserted(ws, word) == InsertAt(ws, Spot(ws, word) + 1, word)

\* By their start, and where two have the same as in the answer.
InOrder(ws) ==
  LET acc[i \in 0..Len(ws)] == IF i = 0 THEN <<>> ELSE Inserted(acc[i - 1], ws[i])
  IN  acc[Len(ws)]

Parse ==
  /\ stage = "answered"
  /\ IF \E i \in DOMAIN answer : Reversed(answer[i]) /\ ~Repairable(answer, i)
     THEN stage' = "invalid" /\ UNCHANGED words
     ELSE stage' = "parsed" /\ words' = InOrder(Repaired(answer))
  /\ UNCHANGED <<answer, overlap, segments, chunks>>

(***************************************************************************)
(* Segments and chunks.  `open` is what is not yet closed.                 *)
(***************************************************************************)

Nothing == [closed |-> <<>>, open |-> <<>>]
Close(acc) == IF acc.open = <<>> THEN acc.closed ELSE Append(acc.closed, acc.open)

\* A mark that ends a sentence ends a piece, and so does its length.
AddWord(acc, word, longest) ==
  LET open == Append(acc.open, word)
  IN  IF word.mark \/ Len(open) >= longest
      THEN [closed |-> Append(acc.closed, open), open |-> <<>>] ELSE [acc EXCEPT !.open = open]

Pieces(ws, longest) ==
  LET acc[i \in 0..Len(ws)] == IF i = 0 THEN Nothing ELSE AddWord(acc[i - 1], ws[i], longest)
  IN  Close(acc[Len(ws)])

Segment ==
  /\ stage = "parsed" /\ stage' = "segmented" /\ segments' = Pieces(words, SegmentWords)
  /\ UNCHANGED <<answer, overlap, words, chunks>>

Span(ws) == [start |-> ws[1].start, end |-> Last(ws).end]

\* The sentences of a segment, of any length, keep its bounds.
Fragments(segment) ==
  LET sentences == Pieces(segment, Len(segment) + 1)
  IN  [i \in 1..Len(sentences) |-> [words |-> sentences[i], span |-> Span(segment)]]

AllFragments(segs) == FlattenSeq([i \in 1..Len(segs) |-> Fragments(segs[i])])

Tokens(fragments) == FoldLeft(LAMBDA n, f : n + Len(f.words), 0, fragments)

\* Mutation: the last 0 sentences of a chunk are all of it.
SharedUnguarded(fragments, count) ==
  IF count = 0 \/ count > Len(fragments) THEN fragments
  ELSE SubSeq(fragments, Len(fragments) - count + 1, Len(fragments))

Shared(fragments, count) ==
  IF count > Len(fragments) THEN fragments
  ELSE SubSeq(fragments, Len(fragments) - count + 1, Len(fragments))

AddFragment(acc, fragment, count) ==
  LET candidate == Append(acc.open, fragment)
  IN  IF acc.open # <<>> /\ Tokens(candidate) > MaxTokens
      THEN [closed |-> Append(acc.closed, acc.open), open |-> Append(Shared(acc.open, count), fragment)]
      ELSE [acc EXCEPT !.open = candidate]

Packed(fragments, count) ==
  LET acc[i \in 0..Len(fragments)] ==
        IF i = 0 THEN Nothing ELSE AddFragment(acc[i - 1], fragments[i], count)
  IN  Close(acc[Len(fragments)])

Chunk ==
  /\ stage = "segmented" /\ stage' = "chunked" /\ chunks' = Packed(AllFragments(segments), overlap)
  /\ UNCHANGED <<answer, overlap, words, segments>>

TextNext ==
  \/ Parse
  \/ Segment
  \/ Chunk

TextSpec == TextInit /\ [][TextNext]_wvars

(***************************************************************************)
(* Properties.                                                             *)
(***************************************************************************)

Said(fragments) == FlattenSeq([i \in 1..Len(fragments) |-> fragments[i].words])
New(i) == IF i = 1 THEN chunks[1]
          ELSE SubSeq(chunks[i], Len(Shared(chunks[i - 1], overlap)) + 1, Len(chunks[i]))

\* Whatever offsets the recogniser gave, no word, segment or chunk ends before it starts.
TextRunsForward ==
  /\ \A i \in DOMAIN words : ~Reversed(words[i])
  /\ \A i \in DOMAIN segments : ~Reversed(Span(segments[i]))
  /\ \A i \in DOMAIN chunks : ~Reversed([start |-> chunks[i][1].span.start, end |-> Last(chunks[i]).span.end])

\* Every word of the answer is in one segment, and in the chunks in the order it was said,
\* again only in the sentences a chunk shares with the one before it.
TextIsWhole ==
  /\ stage \in {"parsed", "segmented", "chunked"} =>
       Len(words) = Len(answer) /\ {words[i].n : i \in DOMAIN words} = DOMAIN answer
  /\ stage \in {"segmented", "chunked"} => FlattenSeq(segments) = words
  /\ stage = "chunked" =>
       /\ \A i \in DOMAIN chunks : i > 1 => IsPrefix(Shared(chunks[i - 1], overlap), chunks[i])
       /\ FlattenSeq([i \in 1..Len(chunks) |-> Said(New(i))]) = words

\* A chunk is longer than it may be only when what it shares and one sentence are.
ChunksFit == \A i \in DOMAIN chunks : Tokens(chunks[i]) > MaxTokens => Len(chunks[i]) <= overlap + 1
\* The text that is embedded and shown is what was said, in its order, in pieces the
\* embedding model can take.
TextIsFaithful == TextRunsForward /\ TextIsWhole /\ ChunksFit
=============================================================================
