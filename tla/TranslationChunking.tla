------------------------- MODULE TranslationChunking -------------------------
(***************************************************************************)
(* How the translation adapter cuts a transcript into requests             *)
(* (openai_translation.py): the greedy grouping of _chunk_transcript and    *)
(* the halving of _split_chunk.  A segment is its position, a chunk the    *)
(* interval lo..hi of positions it covers, with the splits it may still    *)
(* undergo.  The estimated prompt size is a predicate on intervals: the    *)
(* ones whose estimate is above max_chunk_characters are TooLarge.         *)
(***************************************************************************)
EXTENDS Integers, Sequences, SequencesExt

SplitLevels == 1   \* split_levels_remaining of a fresh chunk

Chunk(lo, hi, levels) == [lo |-> lo, hi |-> hi, levels |-> levels]

Size(chunk) == chunk.hi - chunk.lo + 1

Covered(chunk) == [k \in 1..Size(chunk) |-> chunk.lo + k - 1]

\* Plausible bug: the group is closed one segment after it is full.
PlaceLate(groups, s, maxSegments, TooLarge) ==
  LET open == Last(groups) IN
    IF \/ groups = <<>>
       \/ s - open.lo > maxSegments
       \/ <<open.lo, s>> \in TooLarge
    THEN Append(groups, Chunk(s, s, SplitLevels))
    ELSE [groups EXCEPT ![Len(groups)].hi = s]

\* Segment s joins the open group, or starts the next one when the group is not
\* empty and would grow past either limit.
Place(groups, s, maxSegments, TooLarge) ==
  LET open == Last(groups) IN
    IF \/ groups = <<>>
       \/ s + 1 - open.lo > maxSegments
       \/ <<open.lo, s>> \in TooLarge
    THEN Append(groups, Chunk(s, s, SplitLevels))
    ELSE [groups EXCEPT ![Len(groups)].hi = s]

\* A transcript without segments is one empty chunk.
ChunkTranscript(n, maxSegments, TooLarge) ==
  LET groups[s \in 0..n] ==
        IF s = 0 THEN <<>> ELSE Place(groups[s - 1], s, maxSegments, TooLarge)
  IN  IF n = 0 THEN <<Chunk(1, 0, SplitLevels)>> ELSE groups[n]

CanSplit(chunk) == chunk.levels > 0 /\ Size(chunk) > 1

\* Plausible bug: the second half starts on the last segment of the first.
SplitOverlapping(chunk) ==
  LET left == IF Size(chunk) \div 2 < 1 THEN 1 ELSE Size(chunk) \div 2 IN
    <<Chunk(chunk.lo, chunk.lo + left - 1, chunk.levels - 1),
      Chunk(chunk.lo + left - 1, chunk.hi, chunk.levels - 1)>>

\* Two halves, the first one shorter when the number is odd.
Split(chunk) ==
  LET left == IF Size(chunk) \div 2 < 1 THEN 1 ELSE Size(chunk) \div 2 IN
    <<Chunk(chunk.lo, chunk.lo + left - 1, chunk.levels - 1),
      Chunk(chunk.lo + left, chunk.hi, chunk.levels - 1)>>
=============================================================================
