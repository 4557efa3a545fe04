---------------------------- MODULE AlgorithmProofs ----------------------------
(***************************************************************************)
(* Proofs about the algorithms: the cut and the split of a transcript into *)
(* chunks (TranscriptCut), the synthesis of a transcript out of candidates *)
(* (TranscriptSynthesis), a stage of review with its decision              *)
(* (Adjudication), and the timing of cues and segments (TimedSegments),    *)
(* for every transcript, every set of candidates, every round and every    *)
(* segment that is typed as the assumptions of those modules say.          *)
(*                                                                         *)
(* The synthesis and the decision of an adjudication read what an earlier  *)
(* step computed from the same transcript or round, so their invariants    *)
(* say what the intermediate results are worth: which spans the candidates *)
(* cover, what a reviewer may say of whom.                                 *)
(***************************************************************************)
EXTENDS TranscriptCut, TranscriptSynthesis, Adjudication, TimedSegments, ChunkingProofs

-----------------------------------------------------------------------------
(* The cut of a transcript (TranscriptCut).                                *)

\* Chunks that follow one another from the first segment to segment m, none empty.
Follows(q, m) ==
  /\ q \in Seq(ChunkType) /\ m \in Nat
  /\ \A i \in 1..Len(q) : /\ q[i].lo <= q[i].hi
                          /\ q[i].lo = IF i = 1 THEN 1 ELSE q[i - 1].hi + 1
  /\ m = IF Len(q) = 0 THEN 0 ELSE q[Len(q)].hi

LEMMA NothingFollows == Follows(<<>>, 0)
<1>1. <<>> \in Seq(ChunkType) /\ Len(<<>>) = 0 /\ 1..0 = {}
  OBVIOUS
<1> QED BY <1>1 DEF Follows

\* The next chunk.
LEMMA OneMoreFollows ==
  ASSUME NEW q, NEW m, Follows(q, m), NEW a \in ChunkType, a.lo = m + 1, a.lo <= a.hi
  PROVE  Follows(q \o <<a>>, a.hi)
<1> DEFINE n == Len(q)
           after == q \o <<a>>
<1>1. q \in Seq(ChunkType) /\ n \in Nat /\ a.hi \in Nat /\ m \in Nat
  BY DEF Follows, ChunkType
<1>2. /\ after \in Seq(ChunkType) /\ Len(after) = n + 1
      /\ \A i \in 1..n : after[i] = q[i]
      /\ after[n + 1] = a
  BY <1>1
<1> HIDE DEF after
<1>3. ASSUME NEW i \in 1..(n + 1)
      PROVE  /\ after[i].lo <= after[i].hi
             /\ after[i].lo = IF i = 1 THEN 1 ELSE after[i - 1].hi + 1
  <2>1. CASE i \in 1..n
    <3>1. i # 1 => i - 1 \in 1..n
      BY <1>1, <2>1
    <3> QED BY <1>2, <2>1, <3>1 DEF Follows
  <2>2. CASE i = n + 1
    <3>1. CASE n = 0
      <4>1. m = 0
        BY <3>1 DEF Follows
      <4> QED BY <1>2, <2>2, <3>1, <4>1
    <3>2. CASE n # 0
      <4>1. m = q[n].hi /\ n \in 1..n /\ i # 1 /\ i - 1 = n
        BY <1>1, <2>2, <3>2 DEF Follows
      <4> QED BY <1>2, <2>2, <4>1
    <3> QED BY <3>1, <3>2
  <2> QED BY <1>1, <2>1, <2>2
<1>4. Len(after) # 0 /\ after[Len(after)].hi = a.hi
  BY <1>1, <1>2
<1>5. Follows(after, a.hi)
  BY <1>1, <1>2, <1>3, <1>4 DEF Follows
<1> QED BY <1>5 DEF after

\* A chunk, or the halves of one that can be split, after those before it.
LEMMA PieceFollows ==
  ASSUME NEW q, NEW m, Follows(q, m), NEW c \in ChunkType, c.lo = m + 1, c.lo <= c.hi
  PROVE  Follows(q \o (IF CanSplit(c) THEN Split(c) ELSE <<c>>), c.hi)
<1>1. CASE ~CanSplit(c)
  BY <1>1, OneMoreFollows
<1>2. CASE CanSplit(c)
  <2>1. PICK a, b \in ChunkType :
            /\ Split(c) = <<a, b>>
            /\ a.lo = c.lo /\ a.lo <= a.hi
            /\ b.lo = a.hi + 1 /\ b.lo <= b.hi /\ b.hi = c.hi
    BY <1>2, SplitCoversChunk
  <2>2. Follows(q \o <<a>>, a.hi)
    BY <2>1, OneMoreFollows
  <2>3. Follows((q \o <<a>>) \o <<b>>, b.hi)
    BY ONLY <2>1, <2>2, OneMoreFollows
  <2>4. q \in Seq(ChunkType)
    BY DEF Follows
  <2>5. (q \o <<a>>) \o <<b>> = q \o <<a, b>>
    <3>1. (q \o <<a>>) \o <<b>> \in Seq(ChunkType) /\ q \o <<a, b>> \in Seq(ChunkType)
      BY <2>4
    <3>2. /\ Len((q \o <<a>>) \o <<b>>) = Len(q) + 2 /\ Len(q \o <<a, b>>) = Len(q) + 2
          /\ \A i \in 1..(Len(q) + 2) : ((q \o <<a>>) \o <<b>>)[i] = (q \o <<a, b>>)[i]
      BY <2>4
    <3> QED BY <3>1, <3>2, SeqEqual
  <2> QED BY <1>2, <2>1, <2>3, <2>5
<1> QED BY <1>1, <1>2

\* Splitting every chunk that can be split leaves chunks that follow one another.
LEMMA HalvesFollow ==
  ASSUME NEW c, NEW m, Follows(c, m), Len(c) > 0
  PROVE  Follows(FlattenSeq([i \in 1..Len(c) |-> IF CanSplit(c[i]) THEN Split(c[i]) ELSE <<c[i]>>]), m)
<1> DEFINE n == Len(c)
           parts == [i \in 1..n |-> IF CanSplit(c[i]) THEN Split(c[i]) ELSE <<c[i]>>]
<1>1. c \in Seq(ChunkType) /\ n \in Nat /\ n > 0 /\ \A i \in 1..n : c[i] \in ChunkType
  BY DEF Follows
<1>2. \A i \in 1..n : c[i].hi \in Nat /\ c[i].lo <= c[i].hi
  BY <1>1 DEF Follows, ChunkType
<1>3. parts \in [1..n -> Seq(ChunkType)]
  <2>1. ASSUME NEW i \in 1..n PROVE parts[i] \in Seq(ChunkType)
    <3>1. CASE CanSplit(c[i])
      <4>1. PICK a, b \in ChunkType : Split(c[i]) = <<a, b>>
        BY <1>1, <3>1, SplitCoversChunk
      <4>2. parts[i] = <<a, b>>
        BY <3>1, <4>1
      <4>3. <<a, b>> \in Seq(ChunkType)
        OBVIOUS
      <4> QED BY ONLY <4>2, <4>3
    <3>2. CASE ~CanSplit(c[i])
      BY <1>1, <3>2
    <3> QED BY <3>1, <3>2
  <2> QED BY <2>1
<1>4. \A i \in 1..n : parts[i] = IF CanSplit(c[i]) THEN Split(c[i]) ELSE <<c[i]>>
  OBVIOUS
<1> HIDE DEF parts
<1>5. PICK f \in [1..n -> Seq(ChunkType)] : Joined(f, n, parts) /\ FlattenSeq(parts) = f[n]
  <2> HIDE DEF n
  <2> QED BY ONLY <1>1, <1>3, Flattening
<1> DEFINE Good == {i \in 1..n : Follows(f[i], c[i].hi)}
<1>6. 1 \in Good
  <2>1. 1 \in 1..n /\ c[1].lo = 0 + 1 /\ c[1].lo <= c[1].hi
    BY <1>1 DEF Follows
  <2>2. Follows(<<>> \o parts[1], c[1].hi)
    BY <1>1, <1>4, <2>1, NothingFollows, PieceFollows
  <2>3. <<>> \o parts[1] = f[1]
    <3>1. parts[1] \in Seq(ChunkType) /\ f[1] = parts[1]
      BY <1>3, <1>5, <2>1 DEF Joined
    <3> QED BY <3>1
  <2> QED BY <2>1, <2>2, <2>3
<1>7. ASSUME NEW i \in 1..(n - 1), i \in Good PROVE i + 1 \in Good
  <2> DEFINE k == i + 1
  <2>1. k \in 2..n /\ k \in 1..n /\ k - 1 = i /\ i \in 1..n /\ k # 1
    BY <1>1
  <2> HIDE DEF k
  <2>2. Follows(f[i], c[i].hi)
    BY <1>7
  <2>3. c[k] \in ChunkType /\ c[k].lo = c[i].hi + 1 /\ c[k].lo <= c[k].hi
    BY <1>1, <2>1 DEF Follows
  <2>4. Follows(f[i] \o parts[k], c[k].hi)
    BY <1>4, <2>1, <2>2, <2>3, PieceFollows
  <2>5. f[k] = f[i] \o parts[k]
    BY <1>5, <2>1 DEF Joined
  <2>6. k \in Good
    BY <2>1, <2>4, <2>5
  <2> QED BY <2>6 DEF k
<1> HIDE DEF Good
<1>8. \A i \in 1..n : i \in Good
  <2>1. 1 \in Nat
    OBVIOUS
  <2> HIDE DEF n
  <2> QED BY <1>1, <1>6, <1>7, <2>1, IntervalInduction
<1>9. Follows(f[n], c[n].hi) /\ c[n].hi = m
  BY <1>1, <1>8 DEF Good, Follows
<1> QED BY <1>5, <1>9 DEF parts

\* Chunks that follow one another cover the segments in order.
LEMMA FollowersCover ==
  ASSUME NEW c, NEW m, Follows(c, m), Len(c) > 0
  PROVE  /\ FlattenSeq([i \in 1..Len(c) |-> Covered(c[i])]) = Positions(m)
         /\ \A i \in 1..Len(c) : Size(c[i]) > 0
<1>1. /\ c \in Seq(ChunkType) /\ c[1].lo = 1 /\ c[Len(c)].hi = m
      /\ \A i \in 1..Len(c) : c[i] \in ChunkType /\ c[i].lo <= c[i].hi
      /\ \A i \in 2..Len(c) : c[i].lo = c[i - 1].hi + 1
  <2>1. c \in Seq(ChunkType)
    BY DEF Follows
  <2>2. 1 \in 1..Len(c) /\ \A i \in 2..Len(c) : i \in 1..Len(c) /\ i # 1
    BY <2>1
  <2> QED BY <2>1, <2>2 DEF Follows
<1>2. \A x \in ChunkType : x.lo \in Nat /\ x.hi \in Nat
  BY DEF ChunkType
<1>3. \A i \in 1..Len(c) : c[i].lo <= c[i].hi + 1
  BY <1>1, <1>2
<1>4. FlattenSeq([i \in 1..Len(c) |-> Covered(c[i])]) = Positions(c[Len(c)].hi)
  BY <1>1, <1>3, ChunksThatFollow
<1>5. ASSUME NEW i \in 1..Len(c) PROVE Size(c[i]) > 0
  BY <1>1, <1>2 DEF Size
<1> QED BY <1>1, <1>4, <1>5

\* What is said of the chunks of a transcript.
WellChunked(c, n, max, big) ==
  LET halves == FlattenSeq([i \in DOMAIN c |-> IF CanSplit(c[i]) THEN Split(c[i]) ELSE <<c[i]>>])
      all == [k \in 1..n |-> k]
  IN  /\ FlattenSeq([i \in DOMAIN c |-> Covered(c[i])]) = all
      /\ FlattenSeq([i \in DOMAIN halves |-> Covered(halves[i])]) = all
      /\ n > 0 => \A i \in DOMAIN halves : Size(halves[i]) > 0
      /\ \A i \in DOMAIN c : Size(c[i]) <= max /\ <<c[i].lo, c[i].hi>> \notin big
      /\ \A i \in 1..(Len(c) - 1) :
           Size(c[i]) = max \/ <<c[i].lo, c[i].hi + 1>> \in big

LEMMA FullTranscriptIsChunked ==
  ASSUME NEW n \in Nat, n > 0, NEW max \in Nat \ {0}, NEW big \in SUBSET Intervals(n)
  PROVE  WellChunked(ChunkTranscript(n, max, big), n, max, big)
<1> DEFINE c == ChunkTranscript(n, max, big)
           halves == FlattenSeq([i \in 1..Len(c) |-> IF CanSplit(c[i]) THEN Split(c[i]) ELSE <<c[i]>>])
<1>1. WellCut(c, n, max, big)
  BY TranscriptIsWellCut
<1> HIDE DEF c
<1>2. c \in Seq(ChunkType) /\ Len(c) \in Nat /\ Len(c) > 0 /\ DOMAIN c = 1..Len(c)
  BY <1>1 DEF WellCut
<1>3. Follows(c, n)
  <2>1. ASSUME NEW i \in 1..Len(c)
        PROVE  c[i].lo <= c[i].hi /\ c[i].lo = IF i = 1 THEN 1 ELSE c[i - 1].hi + 1
    <3>1. i # 1 => i \in 2..Len(c)
      BY <1>2
    <3> QED BY <1>1, <2>1, <3>1 DEF WellCut
  <2> QED BY <1>1, <1>2, <2>1 DEF WellCut, Follows
<1>4. Follows(halves, n)
  BY <1>2, <1>3, HalvesFollow
<1> HIDE DEF halves
<1>5. halves \in Seq(ChunkType) /\ DOMAIN halves = 1..Len(halves) /\ Len(halves) > 0
  <2>1. halves \in Seq(ChunkType) /\ Len(halves) # 0
    BY <1>4 DEF Follows
  <2> QED BY <2>1
<1>6. /\ FlattenSeq([i \in 1..Len(c) |-> Covered(c[i])]) = Positions(n)
      /\ FlattenSeq([i \in 1..Len(halves) |-> Covered(halves[i])]) = Positions(n)
      /\ \A i \in 1..Len(halves) : Size(halves[i]) > 0
  BY <1>2, <1>3, <1>4, <1>5, FollowersCover
<1>7. ASSUME NEW i \in 1..Len(c) PROVE Size(c[i]) <= max /\ <<c[i].lo, c[i].hi>> \notin big
  <2>1. Size(c[i]) <= max /\ c[i].lo <= c[i].hi /\ (c[i].lo < c[i].hi => <<c[i].lo, c[i].hi>> \notin big)
    BY <1>1 DEF WellCut
  <2>2. c[i].lo \in Nat /\ c[i].hi \in Nat
    <3>1. c[i] \in ChunkType
      BY <1>2
    <3> QED BY <3>1 DEF ChunkType
  <2>3. \A p \in big : p[1] < p[2]
    BY DEF Intervals
  <2>4. CASE c[i].lo = c[i].hi
    <3>1. ASSUME <<c[i].lo, c[i].hi>> \in big PROVE FALSE
      <4>1. <<c[i].lo, c[i].hi>>[1] < <<c[i].lo, c[i].hi>>[2]
        BY <2>3, <3>1
      <4> QED BY <2>2, <2>4, <4>1
    <3> QED BY <2>1, <3>1
  <2> QED BY <2>1, <2>2, <2>4
<1>8. ASSUME NEW i \in 1..(Len(c) - 1)
      PROVE  Size(c[i]) = max \/ <<c[i].lo, c[i].hi + 1>> \in big
  <2> DEFINE k == i + 1
  <2>1. k \in 2..Len(c) /\ k - 1 = i
    BY <1>2
  <2> HIDE DEF k
  <2> QED BY <1>1, <2>1 DEF WellCut
<1>9. WellChunked(c, n, max, big)
  BY <1>2, <1>5, <1>6, <1>7, <1>8 DEF WellChunked, halves, Positions
<1> QED BY <1>9 DEF c

LEMMA OneConstant ==
  ASSUME NEW S, NEW x \in S, NEW s, s = [i \in 1..1 |-> x]
  PROVE  s \in [1..1 -> S] /\ s[1] = x
OBVIOUS

\* A transcript without segments is one empty chunk, which is not split.
LEMMA EmptyTranscriptIsChunked ==
  ASSUME NEW max \in Nat \ {0}, NEW big \in SUBSET Intervals(0)
  PROVE  WellChunked(ChunkTranscript(0, max, big), 0, max, big)
<1> DEFINE e == Chunk(1, 0, SplitLevels)
           c == <<e>>
<1>1. ChunkTranscript(0, max, big) = c
  BY DEF ChunkTranscript
<1>2. e \in ChunkType /\ e.lo = 1 /\ e.hi = 0
  BY ChunkIsTyped DEF SplitLevels
<1> HIDE DEF e
<1>3. Size(e) = 0 /\ ~CanSplit(e) /\ Covered(e) = <<>>
  BY <1>2 DEF Size, CanSplit, Covered
<1>4. ASSUME NEW T, NEW s, s \in [1..1 -> Seq(T)] PROVE FlattenSeq(s) = s[1]
  <2>1. 1 \in Nat /\ 1 > 0
    OBVIOUS
  <2>2. PICK f \in [1..1 -> Seq(T)] : Joined(f, 1, s) /\ FlattenSeq(s) = f[1]
    BY ONLY <1>4, <2>1, Flattening
  <2> QED BY <2>2 DEF Joined
<1>5. DOMAIN c = 1..1 /\ Len(c) = 1 /\ c[1] = e
  OBVIOUS
<1> HIDE DEF c
<1>6. FlattenSeq([i \in 1..1 |-> Covered(c[i])]) = <<>>
  <2> DEFINE s == [i \in 1..1 |-> Covered(c[i])]
  <2>1. s \in [1..1 -> Seq(Int)] /\ s[1] = <<>>
    <3>1. \A i \in 1..1 : i = 1 /\ Covered(c[i]) = <<>>
      BY <1>3, <1>5
    <3>2. <<>> \in Seq(Int)
      OBVIOUS
    <3>3. s = [i \in 1..1 |-> <<>>]
      BY <3>1
    <3> HIDE DEF s
    <3> QED BY ONLY <3>2, <3>3, OneConstant
  <2> HIDE DEF s
  <2>2. FlattenSeq(s) = <<>>
    BY <1>4, <2>1
  <2> QED BY <2>2 DEF s
<1>7. FlattenSeq([i \in 1..1 |-> IF CanSplit(c[i]) THEN Split(c[i]) ELSE <<c[i]>>]) = c
  <2> DEFINE s == [i \in 1..1 |-> IF CanSplit(c[i]) THEN Split(c[i]) ELSE <<c[i]>>]
  <2>1. s \in [1..1 -> Seq(ChunkType)] /\ s[1] = <<e>>
    <3>1. \A i \in 1..1 : i = 1 /\ c[i] = e /\ ~CanSplit(c[i])
      BY <1>3, <1>5
    <3>2. <<e>> \in Seq(ChunkType)
      BY <1>2
    <3>3. s = [i \in 1..1 |-> <<e>>]
      BY <3>1
    <3> HIDE DEF s
    <3> QED BY ONLY <3>2, <3>3, OneConstant
  <2> HIDE DEF s
  <2>2. FlattenSeq(s) = <<e>>
    BY <1>4, <2>1
  <2> QED BY <2>2 DEF s, c
<1>8. big = {}
  BY DEF Intervals
<1>9. [k \in 1..0 |-> k] = <<>>
  OBVIOUS
<1>10. 1..(Len(c) - 1) = {}
  BY <1>5
<1>11. \A i \in 1..1 : i = 1 /\ c[i] = e /\ Size(c[i]) = 0
  BY <1>3, <1>5
<1>12. WellChunked(c, 0, max, big)
  BY <1>5, <1>6, <1>7, <1>8, <1>9, <1>10, <1>11 DEF WellChunked
<1> QED BY <1>1, <1>12

\* What is cut, and what it is cut into.
CutInv ==
  /\ transcriptLength \in Nat /\ maxSegments \in Nat \ {0}
  /\ tooLarge \in SUBSET Intervals(transcriptLength)
  /\ chunks # <<>> => chunks = ChunkTranscript(transcriptLength, maxSegments, tooLarge)

\* Every transcript, whatever its length, the limit and the estimates, is cut into chunks that
\* cover its segments once and in order, before and after they are split, and that are as long
\* as the limits allow and no longer (openai_translation.py _chunk_transcript, _split_chunk).
THEOREM TranscriptIsChunked == ChunkingSpec => []Chunked
<1>1. ChunkingInit => CutInv
  <2>1. ASSUME ChunkingInit PROVE CutInv
    <3>1. transcriptLength \in Nat /\ maxSegments \in Nat \ {0}
      BY <2>1, MaxSegmentCountAssumption DEF ChunkingInit
    <3> QED BY <2>1, <3>1 DEF ChunkingInit, CutInv
  <2> QED BY <2>1
<1>2. CutInv /\ [CutTranscript]_chunkingVars => CutInv'
  <2>1. ASSUME CutInv, CutTranscript PROVE CutInv'
    BY <2>1 DEF CutInv, CutTranscript
  <2>2. ASSUME CutInv, UNCHANGED chunkingVars PROVE CutInv'
    BY <2>2 DEF CutInv, chunkingVars
  <2> QED BY <2>1, <2>2
<1>3. CutInv => Chunked
  <2>1. ASSUME CutInv, chunks # <<>>
        PROVE  WellChunked(chunks, transcriptLength, maxSegments, tooLarge)
    <3>1. CASE transcriptLength = 0
      BY <2>1, <3>1, EmptyTranscriptIsChunked DEF CutInv
    <3>2. CASE transcriptLength # 0
      <4>1. transcriptLength > 0
        BY <2>1, <3>2 DEF CutInv
      <4> QED BY <2>1, <4>1, FullTranscriptIsChunked DEF CutInv
    <3> QED BY <3>1, <3>2
  <2> QED BY <2>1 DEF Chunked, WellChunked
<1> QED BY <1>1, <1>2, <1>3, PTL DEF ChunkingSpec

-----------------------------------------------------------------------------
(* What the candidates say.                                                *)

CandidatesAreTyped == source.candidates \in Seq([segments : Seq(SegmentType), rank : Int])

LEMMA SourceIsTyped ==
  ASSUME source \in Syntheses
  PROVE  CandidatesAreTyped
BY SynthesisAssumption DEF CandidatesAreTyped

LEMMA CandidateIsTyped ==
  ASSUME CandidatesAreTyped
  PROVE  /\ IsFiniteSet(Candidates) /\ Candidates \subseteq Nat \ {0}
         /\ \A c \in Candidates :
              /\ Segments(c) \in Seq(SegmentType) /\ RankOf(c) \in Int
              /\ IsFiniteSet(DOMAIN Segments(c)) /\ DOMAIN Segments(c) \subseteq Int
              /\ DOMAIN Segments(c) = 1..Len(Segments(c)) /\ Len(Segments(c)) \in Nat
<1> DEFINE n == Len(source.candidates)
<1>1. n \in Nat /\ Candidates = 1..n
  BY DEF CandidatesAreTyped, Candidates
<1>2. IsFiniteSet(1..n)
  <2> HIDE DEF n
  <2> QED BY <1>1, IntervalSize
<1>3. ASSUME NEW c \in Candidates
      PROVE  /\ Segments(c) \in Seq(SegmentType) /\ RankOf(c) \in Int
             /\ IsFiniteSet(DOMAIN Segments(c)) /\ DOMAIN Segments(c) \subseteq Int
             /\ DOMAIN Segments(c) = 1..Len(Segments(c)) /\ Len(Segments(c)) \in Nat
  <2>1. source.candidates[c] \in [segments : Seq(SegmentType), rank : Int]
    <3> DEFINE T == [segments : Seq(SegmentType), rank : Int]
    <3>1. source.candidates \in Seq(T) /\ c \in DOMAIN source.candidates
      BY DEF CandidatesAreTyped, Candidates
    <3> HIDE DEF T
    <3>2. source.candidates[c] \in T
      BY <3>1
    <3> QED BY <3>2 DEF T
  <2>2. Segments(c) \in Seq(SegmentType) /\ RankOf(c) \in Int
    BY <2>1 DEF Segments, RankOf
  <2>3. Len(Segments(c)) \in Nat /\ DOMAIN Segments(c) = 1..Len(Segments(c))
    BY <2>2
  <2>4. IsFiniteSet(1..Len(Segments(c)))
    BY <2>3, IntervalSize
  <2> QED BY <2>2, <2>3, <2>4
<1> QED BY <1>1, <1>2, <1>3

LEMMA SpokenIsTyped ==
  ASSUME CandidatesAreTyped
  PROVE  /\ IsFiniteSet(Spoken) /\ Spoken \subseteq SegmentType
         /\ \A s \in Spoken : s.text # <<>> /\ s.start < s.end
         /\ \A s \in Spoken : \E c \in Candidates : \E k \in DOMAIN Segments(c) : s = Segments(c)[k]
<1> DEFINE Heard(c) == {x \in DOMAIN Segments(c) : Segments(c)[x].text # <<>> /\ Segments(c)[x].end > Segments(c)[x].start}
           said == [c \in Candidates |-> {Segments(c)[k] : k \in Heard(c)}]
<1>1. Spoken = UNION {said[c] : c \in Candidates}
  BY DEF Spoken
<1>2. ASSUME NEW c \in Candidates PROVE IsFiniteSet(said[c])
  <2>1. IsFiniteSet(DOMAIN Segments(c)) /\ Heard(c) \in SUBSET DOMAIN Segments(c)
    BY CandidateIsTyped
  <2>2. IsFiniteSet(Heard(c))
    <3> HIDE DEF Heard
    <3> QED BY <2>1, FS_Subset
  <2> DEFINE g == [k \in Heard(c) |-> Segments(c)[k]]
             H == Heard(c)
  <2>3. IsFiniteSet({g[k] : k \in H})
    <3>1. DOMAIN g = H
      OBVIOUS
    <3> HIDE DEF g, H
    <3> QED BY <2>2, <3>1, ImageIsFinite DEF H
  <2>4. {g[k] : k \in H} = said[c]
    OBVIOUS
  <2> QED BY <2>3, <2>4
<1>3. IsFiniteSet(Spoken)
  <2>1. IsFiniteSet(Candidates)
    BY CandidateIsTyped
  <2> HIDE DEF said
  <2> QED BY <1>1, <1>2, <2>1, UnionIsFinite
<1>4. ASSUME NEW s \in Spoken
      PROVE  \E c \in Candidates : \E k \in DOMAIN Segments(c) :
                 s = Segments(c)[k] /\ s.text # <<>> /\ s.start < s.end /\ s \in SegmentType
  <2>1. PICK c \in Candidates : \E k \in Heard(c) : s = Segments(c)[k]
    BY DEF Spoken
  <2>2. PICK k \in Heard(c) : s = Segments(c)[k]
    BY <2>1
  <2>3. k \in DOMAIN Segments(c) /\ s.text # <<>> /\ s.end > s.start
    BY <2>2
  <2>4. s \in SegmentType
    BY <2>2, <2>3, CandidateIsTyped
  <2>5. s.start < s.end
    BY <2>3, <2>4 DEF SegmentType
  <2> QED BY <2>2, <2>3, <2>4, <2>5
<1> QED BY <1>3, <1>4

-----------------------------------------------------------------------------
(* The spans.                                                              *)

SpanType == [start : Int, end : Int]

\* The spans follow one another, and everything spoken lies in one of them.
SpansCover(table) ==
  /\ table \in Seq(SpanType)
  /\ \A i \in DOMAIN table : table[i].start < table[i].end
  /\ \A i, j \in DOMAIN table : i < j => table[i].end <= table[j].start
  /\ \A s \in Spoken : \E i \in DOMAIN table : table[i].start <= s.start /\ s.end <= table[i].end

LEMMA OpensAreStarts ==
  ASSUME CandidatesAreTyped
  PROVE  /\ IsFiniteSet(Opens) /\ Opens \subseteq Int
         /\ \A o \in Opens : \E u \in Spoken : u.start = o
         /\ \A o \in Opens : \A v \in Spoken : v.start < o => v.end < o
         /\ \A s \in Spoken : \E o \in Opens : o <= s.start
<1> DEFINE starts == [s \in Spoken |-> s.start]
           All == {starts[s] : s \in Spoken}
<1>1. IsFiniteSet(Spoken) /\ \A s \in Spoken : s.start \in Int /\ s.end \in Int
  BY SpokenIsTyped DEF SegmentType
<1>2. IsFiniteSet(All)
  <2>1. DOMAIN starts = Spoken
    OBVIOUS
  <2> HIDE DEF starts
  <2> QED BY <1>1, <2>1, ImageIsFinite
<1>3. All \in SUBSET Int /\ \A s \in Spoken : s.start \in All
  BY <1>1
<1>4. Opens \in SUBSET All /\ \A o \in Opens : \E u \in Spoken : u.start = o
  BY DEF Opens
<1>5. IsFiniteSet(Opens)
  <2> HIDE DEF All
  <2> QED BY <1>2, <1>4, FS_Subset
<1>6. ASSUME NEW o \in Opens, NEW v \in Spoken, v.start < o PROVE v.end < o
  <2>1. PICK u \in Spoken : u.start = o /\ \A w \in Spoken : w.start < u.start => w.end + Gap < u.start
    BY DEF Opens
  <2>2. v.end + Gap < o
    BY <1>6, <2>1
  <2> QED BY <1>1, <2>1, <2>2, SynthesisAssumption
<1>7. ASSUME NEW s \in Spoken PROVE \E o \in Opens : o <= s.start
  <2> DEFINE m == Min(All)
  <2>1. m \in All /\ \A y \in All : m <= y
    <3>1. All # {}
      BY <1>3
    <3> HIDE DEF All
    <3> QED BY <1>2, <1>3, <3>1, SmallestIsMin
  <2>2. PICK u \in Spoken : u.start = m
    BY <2>1
  <2>3. \A v \in Spoken : ~(v.start < u.start)
    <3> HIDE DEF All, m
    <3> QED BY <1>1, <1>3, <2>1, <2>2
  <2>4. m \in Opens
    <3> HIDE DEF m, All, starts
    <3> QED BY <2>2, <2>3 DEF Opens
  <2>5. m <= s.start
    BY <1>3, <2>1
  <2> QED BY <2>4, <2>5
<1> QED BY <1>3, <1>4, <1>5, <1>6, <1>7

LEMMA SpanTableCovers ==
  ASSUME CandidatesAreTyped
  PROVE  SpansCover(SpanTable)
<1> DEFINE starts == InOrder(Opens)
           n == Cardinality(Opens)
           In(i) == {s \in Spoken : s.start >= starts[i] /\ (i < Len(starts) => s.start < starts[i + 1])}
           Ends(i) == {s.end : s \in In(i)}
           table == [i \in DOMAIN starts |-> [start |-> starts[i], end |-> Max(Ends(i))]]
<1>1. SpanTable = table
  BY DEF SpanTable
<1>2. /\ n \in Nat /\ starts \in [1..n -> Opens]
      /\ \A x \in Opens : \E k \in 1..n : starts[k] = x
      /\ \A i, j \in 1..n : i < j => starts[i] < starts[j]
  <2>1. Opens \in SUBSET Int /\ IsFiniteSet(Opens)
    BY OpensAreStarts
  <2> QED BY <2>1, InOrderLists
<1> HIDE DEF starts, n
<1>3. DOMAIN starts = 1..n /\ Len(starts) = n /\ \A i \in 1..n : starts[i] \in Opens /\ starts[i] \in Int
  BY <1>2, OpensAreStarts
<1>4. \A s \in Spoken : s.start \in Int /\ s.end \in Int /\ s.start < s.end
  BY SpokenIsTyped DEF SegmentType
<1>5. ASSUME NEW i \in 1..n
      PROVE  /\ IsFiniteSet(Ends(i)) /\ Ends(i) \in SUBSET Int /\ Ends(i) # {}
             /\ Max(Ends(i)) \in Ends(i) /\ \A y \in Ends(i) : Max(Ends(i)) >= y
             /\ \E u \in In(i) : u.start = starts[i]
  <2> DEFINE ends == [s \in In(i) |-> s.end]
             I == In(i)
             E == Ends(i)
  <2>1. I \in SUBSET Spoken /\ IsFiniteSet(I)
    <3>1. I \in SUBSET Spoken /\ IsFiniteSet(Spoken)
      BY SpokenIsTyped
    <3> HIDE DEF I
    <3> QED BY <3>1, FS_Subset
  <2>2. E = {ends[s] : s \in I} /\ DOMAIN ends = I
    OBVIOUS
  <2>3. IsFiniteSet(E)
    <3> HIDE DEF E, I, ends
    <3> QED BY <2>1, <2>2, ImageIsFinite
  <2>4. E \in SUBSET Int
    BY <1>4
  <2>5. \E u \in I : u.start = starts[i]
    <3>1. PICK u \in Spoken : u.start = starts[i]
      BY <1>3, OpensAreStarts
    <3>2. i < Len(starts) => i + 1 \in 1..n /\ starts[i] < starts[i + 1]
      BY <1>2, <1>3
    <3>3. u \in I
      BY <1>3, <3>1, <3>2
    <3> QED BY <3>1, <3>3
  <2>6. E # {}
    BY <2>5
  <2>7. Max(E) \in E /\ \A y \in E : Max(E) >= y
    <3> HIDE DEF E
    <3> QED BY <2>3, <2>4, <2>6, GreatestIsMax
  <2> QED BY <2>3, <2>4, <2>5, <2>6, <2>7
<1>6. ASSUME NEW i \in 1..n
      PROVE  /\ table[i] = [start |-> starts[i], end |-> Max(Ends(i))]
             /\ table[i].start = starts[i] /\ table[i].end = Max(Ends(i))
             /\ table[i].start \in Int /\ table[i].end \in Int
             /\ table[i] \in SpanType /\ table[i].start < table[i].end
             /\ \A s \in In(i) : s.end <= table[i].end
  <2> DEFINE last == Max(Ends(i))
  <2>1. last \in Ends(i) /\ Ends(i) \in SUBSET Int /\ \A y \in Ends(i) : last >= y
    BY <1>5
  <2>2. table[i] = [start |-> starts[i], end |-> last]
    BY <1>3
  <2>3. last \in Int /\ starts[i] \in Int
    BY <1>3, <2>1
  <2>4. ASSUME NEW s \in In(i) PROVE s.end <= last
    <3>1. s.end \in Ends(i) /\ s.end \in Int
      BY <1>4
    <3> HIDE DEF Ends, last
    <3> QED BY <2>1, <2>3, <3>1
  <2>5. starts[i] < last
    <3>1. PICK u \in In(i) : u.start = starts[i]
      BY <1>5
    <3>2. u.start < u.end /\ u.end \in Int
      BY <1>4
    <3>3. u.end <= last
      BY <2>4
    <3> HIDE DEF last
    <3> QED BY <2>3, <3>1, <3>2, <3>3
  <2> HIDE DEF last, table
  <2> QED BY <2>2, <2>3, <2>4, <2>5 DEF SpanType, last
<1>7. table \in Seq(SpanType) /\ DOMAIN table = 1..n
  <2>1. table = [i \in 1..n |-> table[i]]
    BY <1>3
  <2>2. \A i \in 1..n : table[i] \in SpanType
    BY <1>6
  <2> HIDE DEF table
  <2>3. table \in [1..n -> SpanType]
    BY <2>1, <2>2
  <2> QED BY <1>2, <2>3
<1>8. ASSUME NEW i \in 1..n, NEW j \in 1..n, i < j PROVE table[i].end <= table[j].start
  <2>1. PICK s \in In(i) : s.end = table[i].end
    <3>1. Max(Ends(i)) \in Ends(i)
      BY <1>5
    <3> QED BY <1>6, <3>1
  <2>2. i + 1 \in 1..n /\ starts[i + 1] <= starts[j]
    <3>1. i + 1 \in 1..n /\ (i + 1 = j \/ i + 1 < j)
      BY <1>2, <1>8
    <3> QED BY <1>2, <1>3, <3>1
  <2>3. s \in Spoken /\ s.start < starts[i + 1]
    BY <1>2, <1>3, <1>8, <2>2
  <2>4. s.end < starts[i + 1]
    BY <1>3, <2>2, <2>3, OpensAreStarts
  <2>5. s.end \in Int /\ starts[i + 1] \in Int /\ starts[j] \in Int /\ table[j].start = starts[j]
    BY <1>3, <1>4, <1>6, <2>2, <2>3
  <2> QED BY <2>1, <2>2, <2>4, <2>5
<1>9. ASSUME NEW s \in Spoken
      PROVE  \E i \in 1..n : table[i].start <= s.start /\ s.end <= table[i].end
  <2> DEFINE Opened == {i \in 1..n : starts[i] <= s.start}
             i == Max(Opened)
  <2>1. Opened # {}
    <3>1. PICK o \in Opens : o <= s.start
      BY OpensAreStarts
    <3>2. PICK k \in 1..n : starts[k] = o
      BY <1>2
    <3> QED BY <3>1, <3>2
  <2>2. Opened \in SUBSET (1..n) /\ Opened \in SUBSET Int /\ IsFiniteSet(Opened)
    <3>1. Opened \in SUBSET (1..n) /\ Opened \in SUBSET Int
      OBVIOUS
    <3>2. IsFiniteSet(1..n)
      BY <1>2, IntervalSize
    <3> HIDE DEF Opened
    <3> QED BY <3>1, <3>2, FS_Subset
  <2>3. i \in Opened /\ \A y \in Opened : i >= y
    <3> HIDE DEF Opened
    <3> QED BY <2>1, <2>2, GreatestIsMax
  <2> HIDE DEF i
  <2>4. i \in 1..n /\ starts[i] <= s.start
    BY <2>3
  <2>5. i < n => s.start < starts[i + 1]
    <3> SUFFICES ASSUME i < n PROVE s.start < starts[i + 1]
      OBVIOUS
    <3>1. i + 1 \in 1..n /\ ~(i >= i + 1)
      BY <2>4, <1>2
    <3>2. i + 1 \notin Opened
      <4> HIDE DEF Opened
      <4> QED BY <2>3, <3>1
    <3>3. ~(starts[i + 1] <= s.start)
      BY <3>1, <3>2
    <3> QED BY <1>3, <1>4, <3>1, <3>3
  <2>6. s \in In(i)
    BY <1>3, <1>4, <2>4, <2>5
  <2>7. table[i].start = starts[i] /\ s.end <= table[i].end
    BY <1>6, <2>4, <2>6
  <2> QED BY <2>4, <2>7
<1> HIDE DEF table
<1> QED BY <1>1, <1>6, <1>7, <1>8, <1>9 DEF SpansCover

-----------------------------------------------------------------------------
(* What a candidate says in a span.                                        *)

LEMMA SharedTimeOfTwo ==
  ASSUME NEW a, NEW b, a.start \in Int, a.end \in Int, b.start \in Int, b.end \in Int
  PROVE  /\ Shared(a, b) \in Nat
         /\ Shared(a, b) > 0 <=> /\ a.start < a.end /\ a.start < b.end
                                 /\ b.start < a.end /\ b.start < b.end
<1> DEFINE e == Min({a.end, b.end})
           s == Max({a.start, b.start})
<1>1. e = (IF a.end <= b.end THEN a.end ELSE b.end) /\ s = (IF a.start >= b.start THEN a.start ELSE b.start)
  BY PairMaxMin
<1>2. Shared(a, b) = Max({0, e - s}) /\ e \in Int /\ s \in Int
  BY <1>1 DEF Shared
<1> HIDE DEF e, s
<1>3. Shared(a, b) = IF 0 >= e - s THEN 0 ELSE e - s
  <2>1. 0 \in Int /\ e - s \in Int
    BY <1>2
  <2> QED BY <1>2, <2>1, PairMaxMin
<1> QED BY <1>1, <1>2, <1>3

LEMMA TextIsTyped ==
  ASSUME CandidatesAreTyped, NEW c \in Candidates, NEW span \in SpanType
  PROVE  /\ IsFiniteSet(Overlapping(c, span)) /\ Overlapping(c, span) \subseteq DOMAIN Segments(c)
         /\ SharedTime(c, span) \in Int
         /\ TextOf(c, span) \in Seq(STRING)
         /\ Supports(c, span) => Overlapping(c, span) # {}
         /\ (\E k \in Overlapping(c, span) : Segments(c)[k].text # <<>>) => Supports(c, span)
         /\ \A k \in Overlapping(c, span) :
              /\ Segments(c)[k] \in SegmentType
              /\ Segments(c)[k].start < Segments(c)[k].end
              /\ Segments(c)[k].start < span.end /\ span.start < Segments(c)[k].end
<1> DEFINE O == Overlapping(c, span)
           n == Cardinality(O)
           said == InOrder(O)
<1>1. O \in SUBSET DOMAIN Segments(c) /\ IsFiniteSet(DOMAIN Segments(c)) /\ DOMAIN Segments(c) \subseteq Int
  BY CandidateIsTyped DEF Overlapping
<1>2. IsFiniteSet(O)
  <2> HIDE DEF O
  <2> QED BY <1>1, FS_Subset
<1>3. ASSUME NEW k \in DOMAIN Segments(c)
      PROVE  /\ Segments(c)[k] \in SegmentType /\ Segments(c)[k].start \in Int /\ Segments(c)[k].end \in Int
             /\ Segments(c)[k].text \in Seq(STRING)
             /\ Shared(span, Segments(c)[k]) \in Int
             /\ Shared(span, Segments(c)[k]) > 0 =>
                  /\ Segments(c)[k].start < Segments(c)[k].end
                  /\ Segments(c)[k].start < span.end /\ span.start < Segments(c)[k].end
  <2>1. Segments(c)[k] \in SegmentType
    <3>1. Segments(c) \in Seq(SegmentType)
      BY CandidateIsTyped
    <3> QED BY <3>1
  <2>2. Segments(c)[k].start \in Int /\ Segments(c)[k].end \in Int /\ Segments(c)[k].text \in Seq(STRING)
    BY <2>1 DEF SegmentType
  <2>3. span.start \in Int /\ span.end \in Int
    BY DEF SpanType
  <2>4. /\ Shared(span, Segments(c)[k]) \in Nat
        /\ Shared(span, Segments(c)[k]) > 0 =>
             /\ span.start < Segments(c)[k].end
             /\ Segments(c)[k].start < span.end /\ Segments(c)[k].start < Segments(c)[k].end
    BY <2>2, <2>3, SharedTimeOfTwo
  <2> QED BY <2>1, <2>2, <2>4
<1>4. \A k \in O : k \in DOMAIN Segments(c) /\ Shared(span, Segments(c)[k]) > 0
  BY DEF Overlapping
<1>5. SharedTime(c, span) \in Int
  <2> DEFINE f == [k \in O |-> Shared(span, Segments(c)[k])]
  <2>1. f \in [O -> Int]
    <3> HIDE DEF O
    <3> QED BY <1>3, <1>4
  <2>2. SharedTime(c, span) = SumFunction(f)
    BY DEF SharedTime
  <2> HIDE DEF f, O
  <2> QED BY <1>2, <2>1, <2>2, SumIsInteger
<1>6. /\ n \in Nat /\ said \in [1..n -> O] /\ DOMAIN said = 1..n
      /\ \A x \in O : \E k \in 1..n : said[k] = x
  <2>1. O \in SUBSET Int
    BY <1>1
  <2> HIDE DEF O
  <2> QED BY <1>2, <2>1, InOrderLists
<1> DEFINE texts == [k \in DOMAIN said |-> Segments(c)[said[k]].text]
<1>7. TextOf(c, span) = FlattenSeq(texts)
  BY DEF TextOf
<1> HIDE DEF O, n, said
<1>8. texts \in [1..n -> Seq(STRING)] /\ \A k \in 1..n : texts[k] = Segments(c)[said[k]].text
  BY <1>3, <1>4, <1>6
<1> HIDE DEF texts
<1>9. /\ FlattenSeq(texts) \in Seq(STRING)
      /\ n = 0 => FlattenSeq(texts) = <<>>
      /\ (\E i \in 1..n : texts[i] # <<>>) => FlattenSeq(texts) # <<>>
  BY <1>6, <1>8, FlatteningKeepsAll, SMTT(30)
<1>10. Supports(c, span) => O # {}
  <2>1. O = {} => n = 0
    BY <1>2, FS_EmptySet DEF n
  <2> QED BY <1>7, <1>9, <2>1 DEF Supports
<1>11. (\E k \in O : Segments(c)[k].text # <<>>) => Supports(c, span)
  <2> SUFFICES ASSUME NEW k \in O, Segments(c)[k].text # <<>> PROVE Supports(c, span)
    OBVIOUS
  <2>1. PICK i \in 1..n : said[i] = k
    BY <1>6
  <2>2. texts[i] # <<>>
    BY <1>8, <2>1
  <2> QED BY <1>7, <1>9, <2>2 DEF Supports
<1> QED BY <1>1, <1>2, <1>3, <1>4, <1>5, <1>7, <1>9, <1>10, <1>11 DEF O

\* What a candidate says in a span has a duration, and shares time with the span.
LEMMA ExtentIsTyped ==
  ASSUME CandidatesAreTyped, NEW c \in Candidates, NEW span \in SpanType, Supports(c, span)
  PROVE  /\ Extent(c, span) \in SegmentType
         /\ Extent(c, span).text = TextOf(c, span)
         /\ Extent(c, span).start < Extent(c, span).end
         /\ Extent(c, span).start < span.end /\ span.start < Extent(c, span).end
<1> DEFINE O == Overlapping(c, span)
           said == {Segments(c)[k] : k \in O}
           starts == {s.start : s \in said}
           ends == {s.end : s \in said}
<1>1. Extent(c, span) = [start |-> Min(starts), end |-> Max(ends), text |-> TextOf(c, span)]
  BY DEF Extent, Segment
<1>2. IsFiniteSet(O) /\ O # {} /\ TextOf(c, span) \in Seq(STRING)
  BY TextIsTyped
<1>3. \A s \in said : /\ s.start \in Int /\ s.end \in Int /\ s.start < s.end
                      /\ s.start < span.end /\ span.start < s.end
  BY TextIsTyped DEF SegmentType
<1>4. IsFiniteSet(said) /\ said # {}
  <2> DEFINE f == [k \in O |-> Segments(c)[k]]
  <2>1. DOMAIN f = O /\ said = {f[k] : k \in O}
    OBVIOUS
  <2> HIDE DEF f, said, O
  <2>2. IsFiniteSet(said)
    BY <1>2, <2>1, ImageIsFinite
  <2> QED BY <1>2, <2>1, <2>2
<1> HIDE DEF said
<1>5. IsFiniteSet(starts) /\ starts \in SUBSET Int /\ starts # {}
  <2> DEFINE f == [s \in said |-> s.start]
  <2>1. DOMAIN f = said /\ starts = {f[s] : s \in said}
    OBVIOUS
  <2>2. starts \in SUBSET Int /\ starts # {}
    BY <1>3, <1>4
  <2> HIDE DEF f, starts
  <2> QED BY <1>4, <2>1, <2>2, ImageIsFinite
<1>6. IsFiniteSet(ends) /\ ends \in SUBSET Int /\ ends # {}
  <2> DEFINE f == [s \in said |-> s.end]
  <2>1. DOMAIN f = said /\ ends = {f[s] : s \in said}
    OBVIOUS
  <2>2. ends \in SUBSET Int /\ ends # {}
    BY <1>3, <1>4
  <2> HIDE DEF f, ends
  <2> QED BY <1>4, <2>1, <2>2, ImageIsFinite
<1>7. Min(starts) \in starts /\ \A y \in starts : Min(starts) <= y
  <2> HIDE DEF starts
  <2> QED BY <1>5, SmallestIsMin
<1>8. Max(ends) \in ends /\ \A y \in ends : Max(ends) >= y
  <2> HIDE DEF ends
  <2> QED BY <1>6, GreatestIsMax
<1> DEFINE a == Min(starts)
           b == Max(ends)
<1>9. a \in Int /\ b \in Int
  BY <1>3, <1>7, <1>8
<1>10. PICK s \in said : s.start = a
  BY <1>7
<1>11. PICK t \in said : t.end = b
  BY <1>8
<1>12. s.end <= b
  BY <1>8
<1>13. a < b /\ a < span.end /\ span.start < b
  <2> HIDE DEF a, b
  <2> QED BY <1>3, <1>9, <1>10, <1>11, <1>12
<1>14. Extent(c, span) = [start |-> a, end |-> b, text |-> TextOf(c, span)]
  BY <1>1
<1> HIDE DEF a, b
<1> QED BY <1>2, <1>9, <1>13, <1>14 DEF SegmentType

-----------------------------------------------------------------------------
(* Decisions.                                                              *)

SpansAreTyped == CandidatesAreTyped /\ spans \in Seq(SpanType) /\ \A i \in DOMAIN spans : spans[i].start < spans[i].end

LEMMA SpanIsTyped ==
  ASSUME SpansAreTyped, NEW i \in DOMAIN spans
  PROVE  /\ spans[i] \in SpanType /\ spans[i].start \in Int /\ spans[i].end \in Int
         /\ spans[i].start < spans[i].end
         /\ Supporters(i) \subseteq Candidates /\ IsFiniteSet(Supporters(i))
<1>1. spans[i] \in SpanType /\ spans[i].start < spans[i].end
  BY DEF SpansAreTyped
<1>2. Supporters(i) \in SUBSET Candidates
  BY DEF Supporters
<1>3. IsFiniteSet(Supporters(i))
  <2>1. IsFiniteSet(Candidates)
    BY CandidateIsTyped DEF SpansAreTyped
  <2> QED BY <1>2, <2>1, FS_Subset
<1> QED BY <1>1, <1>2, <1>3 DEF SpanType

LEMMA ClipIsTyped ==
  ASSUME SpansAreTyped, NEW i \in DOMAIN spans, NEW d, IsResolved(d)
  PROVE  /\ IsResolved(Clip(i, d))
         /\ Clip(i, d).kind = "resolved" /\ Clip(i, d).text = d.text /\ Clip(i, d).from = d.from
         /\ Clip(i, d).start = IF spans[i].start >= d.start THEN spans[i].start ELSE d.start
         /\ Clip(i, d).end = IF spans[i].end <= d.end THEN spans[i].end ELSE d.end
<1> DEFINE a == Max({spans[i].start, d.start})
           b == Min({spans[i].end, d.end})
<1>1. spans[i].start \in Int /\ spans[i].end \in Int /\ d.start \in Int /\ d.end \in Int
  BY SpanIsTyped DEF IsResolved
<1>2. /\ a = IF spans[i].start >= d.start THEN spans[i].start ELSE d.start
      /\ b = IF spans[i].end <= d.end THEN spans[i].end ELSE d.end
  BY <1>1, PairMaxMin
<1>3. a \in Int /\ b \in Int
  BY <1>1, <1>2
<1>4. Clip(i, d) = [d EXCEPT !.start = a, !.end = b]
  BY DEF Clip
<1> HIDE DEF a, b
<1> DEFINE f == d.from
           t == d.text
           o == d.origin
           x == Resolved(f, t, d.start, d.end, o)
<1>5. d = x
  BY DEF IsResolved
<1> HIDE DEF f, t, o
<1>7. Clip(i, d) = [x EXCEPT !.start = a, !.end = b]
  BY <1>4, <1>5
<1>6. Clip(i, d) = Resolved(f, t, a, b, o)
  BY <1>7 DEF Resolved
<1> QED BY <1>2, <1>3, <1>6 DEF IsResolved, Resolved, f, t

\* A span as a supporter says it, cut to the span, has a duration.
LEMMA SelectIsTyped ==
  ASSUME SpansAreTyped, NEW i \in DOMAIN spans, NEW c \in Supporters(i), NEW origin
  PROVE  /\ IsResolved(Select(i, c, origin)) /\ Select(i, c, origin).kind = "resolved"
         /\ Select(i, c, origin).from = {c}
         /\ Select(i, c, origin).text = TextOf(c, spans[i])
         /\ Clip(i, Select(i, c, origin)).start < Clip(i, Select(i, c, origin)).end
<1> DEFINE e == Extent(c, spans[i])
           d == Resolved({c}, e.text, e.start, e.end, origin)
<1>1. c \in Candidates /\ c \in Nat /\ Supports(c, spans[i])
  BY CandidateIsTyped DEF Supporters, SpansAreTyped
<1>2. /\ spans[i] \in SpanType /\ spans[i].start \in Int /\ spans[i].end \in Int /\ spans[i].start < spans[i].end
  BY SpanIsTyped
<1>3. /\ e \in SegmentType /\ e.text = TextOf(c, spans[i]) /\ e.start < e.end
      /\ e.start < spans[i].end /\ spans[i].start < e.end
  BY <1>1, <1>2, ExtentIsTyped DEF SpansAreTyped
<1> HIDE DEF e
<1>4. e.start \in Int /\ e.end \in Int /\ e.text \in Seq(STRING)
  BY <1>3 DEF SegmentType
<1>5. IsResolved(d) /\ d.from = {c} /\ d.text = e.text /\ d.start = e.start /\ d.end = e.end
  BY <1>1, <1>4 DEF Resolved, IsResolved
<1>6. Select(i, c, origin) = Clip(i, d)
  BY DEF Select, e
<1> HIDE DEF d
<1> DEFINE s == Clip(i, d)
<1>7. /\ IsResolved(s) /\ s.kind = "resolved" /\ s.text = d.text /\ s.from = d.from
      /\ s.start = IF spans[i].start >= d.start THEN spans[i].start ELSE d.start
      /\ s.end = IF spans[i].end <= d.end THEN spans[i].end ELSE d.end
  BY <1>5, ClipIsTyped
<1> HIDE DEF s
<1>8. /\ Clip(i, s).start = IF spans[i].start >= s.start THEN spans[i].start ELSE s.start
      /\ Clip(i, s).end = IF spans[i].end <= s.end THEN spans[i].end ELSE s.end
  BY <1>7, ClipIsTyped
<1>9. Clip(i, s).start < Clip(i, s).end
  BY <1>2, <1>3, <1>4, <1>5, <1>7, <1>8
<1> QED BY <1>3, <1>5, <1>6, <1>7, <1>9 DEF s

-----------------------------------------------------------------------------
(* The order of tuples.                                                    *)

LEMMA PrecedesOrders ==
  ASSUME NEW n \in Nat
  PROVE  /\ \A a \in [1..n -> Int] : ~Precedes(a, a)
         /\ \A a, b, c \in [1..n -> Int] : Precedes(a, b) /\ Precedes(b, c) => Precedes(a, c)
         /\ \A a, b \in [1..n -> Int] : a # b => Precedes(a, b) \/ Precedes(b, a)
<1>1. ASSUME NEW a \in [1..n -> Int] PROVE ~Precedes(a, a)
  BY DEF Precedes
<1>2. ASSUME NEW a \in [1..n -> Int], NEW b \in [1..n -> Int], NEW c \in [1..n -> Int],
             Precedes(a, b), Precedes(b, c)
      PROVE  Precedes(a, c)
  <2>1. PICK k \in 1..n : a[k] < b[k] /\ \A m \in 1..(k - 1) : a[m] = b[m]
    BY <1>2 DEF Precedes
  <2>2. PICK l \in 1..n : b[l] < c[l] /\ \A m \in 1..(l - 1) : b[m] = c[m]
    BY <1>2 DEF Precedes
  <2>3. CASE k <= l
    <3>1. b[k] <= c[k] /\ \A m \in 1..(k - 1) : m \in 1..(l - 1)
      <4>1. k = l \/ k \in 1..(l - 1)
        BY <2>3
      <4> QED BY <2>2, <2>3, <4>1
    <3>2. \A m \in 1..(k - 1) : a[m] = c[m]
      BY <2>1, <2>2, <3>1
    <3>3. a[k] < c[k]
      BY <2>1, <3>1
    <3> QED BY <3>2, <3>3 DEF Precedes
  <2>4. CASE l < k
    <3>1. l \in 1..(k - 1) /\ \A m \in 1..(l - 1) : m \in 1..(k - 1)
      BY <2>4
    <3>2. \A m \in 1..(l - 1) : a[m] = c[m]
      BY <2>1, <2>2, <3>1
    <3>3. a[l] < c[l]
      BY <2>1, <2>2, <3>1
    <3> QED BY <3>2, <3>3 DEF Precedes
  <2> QED BY <2>3, <2>4
<1>3. ASSUME NEW a \in [1..n -> Int], NEW b \in [1..n -> Int], a # b
      PROVE  Precedes(a, b) \/ Precedes(b, a)
  <2> DEFINE Differ == {m \in 1..n : a[m] # b[m]}
  <2>1. Differ # {} /\ Differ \in SUBSET Nat
    BY <1>3
  <2>2. PICK k \in Differ : \A m \in Differ : k <= m
    <3> HIDE DEF Differ
    <3> QED BY <2>1, LeastNatural
  <2>3. k \in 1..n /\ a[k] # b[k] /\ a[k] \in Int /\ b[k] \in Int
    BY <2>2
  <2>4. ASSUME NEW m \in 1..(k - 1) PROVE a[m] = b[m]
    <3>1. m \in 1..n /\ ~(k <= m)
      BY <2>3
    <3> QED BY <2>2, <3>1
  <2>5. a[k] < b[k] \/ b[k] < a[k]
    BY <2>3
  <2>6. CASE a[k] < b[k]
    BY <2>3, <2>4, <2>6 DEF Precedes
  <2>7. CASE b[k] < a[k]
    BY <2>3, <2>4, <2>7 DEF Precedes
  <2> QED BY <2>5, <2>6, <2>7
<1> QED BY <1>1, <1>2, <1>3

\* Of elements with different keys one has the first key.
LEMMA FirstByKey ==
  ASSUME NEW S, IsFiniteSet(S), S # {}, NEW n, n \in Nat, NEW key, key \in [S -> [1..n -> Int]],
         \A x, y \in S : x # y => key[x] # key[y]
  PROVE  \E x \in S : \A y \in S \ {x} : Precedes(key[x], key[y])
<1> DEFINE R == {p \in S \X S : Precedes(key[p[1]], key[p[2]])}
<1>1. \A x, y \in S : <<x, y>> \in R <=> Precedes(key[x], key[y])
  OBVIOUS
<1>2. \A x \in S : key[x] \in [1..n -> Int]
  OBVIOUS
<1> HIDE DEF R
<1>3. StrictOrder(R, S)
  <2>1. \A x \in S : <<x, x>> \notin R
    BY <1>1, <1>2, PrecedesOrders
  <2>2. ASSUME NEW x \in S, NEW y \in S, NEW z \in S, <<x, y>> \in R, <<y, z>> \in R
        PROVE  <<x, z>> \in R
    BY <2>2, <1>1, <1>2, PrecedesOrders
  <2>3. ASSUME NEW x \in S, NEW y \in S, x # y PROVE <<x, y>> \in R \/ <<y, x>> \in R
    <3>1. key[x] # key[y]
      BY <2>3
    <3> QED BY <3>1, <1>1, <1>2, PrecedesOrders
  <2> QED BY <2>1, <2>2, <2>3 DEF StrictOrder
<1>4. IsFiniteSet(S) /\ S # {}
  OBVIOUS
<1>5. \E x \in S : \A y \in S \ {x} : <<x, y>> \in R
  BY ONLY <1>3, <1>4, FirstExists
<1> QED BY <1>1, <1>5

-----------------------------------------------------------------------------
(* The global adjudicator.                                                 *)

LEMMA StrongestIsOne ==
  ASSUME SpansAreTyped, NEW i \in DOMAIN spans, NEW from \in SUBSET Supporters(i), from # {}
  PROVE  Strongest(i, from) \in from
<1> DEFINE key == [c \in from |-> Strength(i, c)]
<1>1. IsFiniteSet(from)
  BY SpanIsTyped, FS_Subset
<1>2. ASSUME NEW c \in from PROVE Strength(i, c) \in [1..4 -> Int] /\ Strength(i, c)[4] = c
  <2>1. c \in Candidates /\ c \in Int /\ RankOf(c) \in Int
    BY SpanIsTyped, CandidateIsTyped DEF SpansAreTyped
  <2>2. spans[i] \in SpanType
    BY SpanIsTyped
  <2>3. SharedTime(c, spans[i]) \in Int /\ TextOf(c, spans[i]) \in Seq(STRING)
    BY <2>1, <2>2, TextIsTyped DEF SpansAreTyped
  <2>4. WordCount(TextOf(c, spans[i])) \in Int
    <3> DEFINE t == TextOf(c, spans[i])
               K == {k \in DOMAIN t : t[k] # Noise}
    <3>1. Len(t) \in Nat /\ DOMAIN t = 1..Len(t) /\ K \in SUBSET DOMAIN t
      BY <2>3
    <3>2. IsFiniteSet(DOMAIN t)
      BY <3>1, IntervalSize
    <3>3. IsFiniteSet(K)
      <4> HIDE DEF K, t
      <4> QED BY <3>1, <3>2, FS_Subset
    <3>4. Cardinality(K) \in Nat
      BY <3>3, FS_CardinalityType
    <3> QED BY <3>4 DEF WordCount
  <2> QED BY <2>1, <2>3, <2>4 DEF Strength
<1>3. key \in [from -> [1..4 -> Int]] /\ \A c, d \in from : c # d => key[c] # key[d]
  <2>1. ASSUME NEW c \in from, NEW d \in from, c # d PROVE key[c] # key[d]
    <3>1. Strength(i, c)[4] = c /\ Strength(i, d)[4] = d
      BY <1>2
    <3> QED BY <2>1, <3>1
  <2> QED BY <1>2, <2>1
<1>4. \E c \in from : \A d \in from \ {c} : Precedes(key[c], key[d])
  <2>1. 4 \in Nat
    OBVIOUS
  <2> HIDE DEF key
  <2> QED BY <1>1, <1>3, <2>1, FirstByKey
<1>5. \E c \in from : \A d \in from \ {c} : Precedes(Strength(i, c), Strength(i, d))
  BY <1>4
<1> QED BY <1>5 DEF Strongest

LEMMA WordsOfBoth ==
  ASSUME NEW a \in Seq(STRING), NEW b \in Seq(STRING)
  PROVE  Words(a \o b) = Words(a) \cup Words(b)
<1>1. ToSet(a \o b) = ToSet(a) \cup ToSet(b)
  <2>1. /\ a \o b \in Seq(STRING) /\ Len(a \o b) = Len(a) + Len(b)
        /\ DOMAIN (a \o b) = 1..(Len(a) + Len(b))
        /\ \A k \in 1..Len(a) : (a \o b)[k] = a[k]
        /\ \A k \in 1..Len(b) : (a \o b)[Len(a) + k] = b[k]
    OBVIOUS
  <2>2. Len(a) \in Nat /\ Len(b) \in Nat /\ DOMAIN a = 1..Len(a) /\ DOMAIN b = 1..Len(b)
    OBVIOUS
  <2> DEFINE ab == a \o b
  <2> HIDE DEF ab
  <2>3. ASSUME NEW x \in ToSet(ab) PROVE x \in ToSet(a) \cup ToSet(b)
    <3>1. PICK k \in 1..(Len(a) + Len(b)) : x = ab[k]
      BY <2>1 DEF ToSet, ab
    <3>2. CASE k <= Len(a)
      <4>1. k \in 1..Len(a)
        BY <2>2, <3>2
      <4> QED BY <2>1, <2>2, <3>1, <4>1 DEF ToSet, ab
    <3>3. CASE k > Len(a)
      <4>1. k - Len(a) \in 1..Len(b) /\ Len(a) + (k - Len(a)) = k
        BY <2>2, <3>3
      <4>2. x = b[k - Len(a)]
        BY <2>1, <3>1, <4>1 DEF ab
      <4> QED BY <2>2, <4>1, <4>2 DEF ToSet
    <3> QED BY <2>2, <3>2, <3>3
  <2>4. ASSUME NEW x \in ToSet(a) PROVE x \in ToSet(ab)
    <3>1. PICK k \in 1..Len(a) : x = a[k]
      BY <2>2 DEF ToSet
    <3>2. k \in 1..(Len(a) + Len(b)) /\ x = ab[k]
      BY <2>1, <2>2, <3>1 DEF ab
    <3> QED BY <2>1, <3>2 DEF ToSet, ab
  <2>5. ASSUME NEW x \in ToSet(b) PROVE x \in ToSet(ab)
    <3>1. PICK k \in 1..Len(b) : x = b[k]
      BY <2>2 DEF ToSet
    <3>2. Len(a) + k \in 1..(Len(a) + Len(b)) /\ x = ab[Len(a) + k]
      BY <2>1, <2>2, <3>1 DEF ab
    <3> QED BY <2>1, <3>2 DEF ToSet, ab
  <2>6. ToSet(ab) = ToSet(a) \cup ToSet(b)
    BY <2>3, <2>4, <2>5
  <2> QED BY <2>6 DEF ab
<1> QED BY <1>1 DEF Words

\* What one supporter of a span says there with a word is grounded.
LEMMA OneIsGrounded ==
  ASSUME NEW i, NEW c \in Supporters(i), NEW from, c \in from
  PROVE  Grounded(TextOf(c, spans[i]), from, i) <=> Words(TextOf(c, spans[i])) # {}
BY DEF Grounded

\* What the adjudicator makes of the evidence for a span that the base leaves open:
\* nothing, what one supporter says, or the words of two.
FillIsFounded(i, d) ==
  \/ d = Unresolved
  \/ /\ IsResolved(d)
     /\ \/ \E c \in Supporters(i) : d = Select(i, c, "fill")
        \/ Grounded(d.text, Supporters(i), i)

LEMMA MergeIsFounded ==
  ASSUME SpansAreTyped, NEW i \in DOMAIN spans, NEW c \in Supporters(i), NEW d \in Supporters(i)
  PROVE  FillIsFounded(i, Merge(i, c, d))
<1> DEFINE Of(x) == Extent(x, spans[i])
           first == IF Precedes(<<Of(c).start, -SharedTime(c, spans[i]), c>>, <<Of(d).start, -SharedTime(d, spans[i]), d>>)
                    THEN c ELSE d
           second == IF first = c THEN d ELSE c
           a == Of(first)
           b == Of(second)
           answer == Resolved({c, d}, a.text \o b.text, Min({a.start, b.start}), Max({a.end, b.end}), "fill")
<1>1. first \in {c, d} /\ second \in {c, d} /\ first \in Supporters(i) /\ second \in Supporters(i)
  OBVIOUS
<1>2. Merge(i, c, d) = MergeInOrder(i, {c, d}, a, b)
  BY DEF Merge
<1> HIDE DEF first, second
<1>3. ASSUME NEW x \in Supporters(i)
      PROVE  /\ Of(x) \in SegmentType /\ Of(x).start \in Int /\ Of(x).end \in Int
             /\ Of(x).text \in Seq(STRING) /\ Of(x).text = TextOf(x, spans[i]) /\ x \in Nat
  <2>1. x \in Candidates /\ x \in Nat /\ Supports(x, spans[i]) /\ spans[i] \in SpanType
    BY SpanIsTyped, CandidateIsTyped DEF Supporters, SpansAreTyped
  <2> QED BY <2>1, ExtentIsTyped DEF SpansAreTyped, SegmentType
<1>4. /\ a.start \in Int /\ a.end \in Int /\ b.start \in Int /\ b.end \in Int
      /\ a.text \in Seq(STRING) /\ b.text \in Seq(STRING)
      /\ a.text = TextOf(first, spans[i]) /\ b.text = TextOf(second, spans[i])
  BY <1>1, <1>3
<1> HIDE DEF a, b
<1>5. Merge(i, c, d) = Unresolved \/ (Merge(i, c, d) = Clip(i, answer) /\ Words(a.text) # {} /\ Words(b.text) # {})
  BY <1>2 DEF MergeInOrder
<1>6. IsResolved(answer) /\ answer.text = a.text \o b.text
  <2> DEFINE lo == Min({a.start, b.start})
             hi == Max({a.end, b.end})
             both == a.text \o b.text
  <2>1. lo \in Int /\ hi \in Int
    BY <1>4, PairMaxMin
  <2>2. both \in Seq(STRING)
    BY <1>4
  <2>4. answer = [kind |-> "resolved", from |-> {c, d}, text |-> both, start |-> lo, end |-> hi, origin |-> "fill"]
    BY DEF Resolved
  <2> HIDE DEF lo, hi, both, answer
  <2>6. IsResolved(answer)
    BY <2>1, <2>2, <2>4 DEF IsResolved, Resolved
  <2> QED BY <2>4, <2>6 DEF both
<1> HIDE DEF answer
<1>7. IsResolved(Clip(i, answer)) /\ Clip(i, answer).text = a.text \o b.text
  BY <1>6, ClipIsTyped
<1>8. ASSUME Words(a.text) # {} PROVE Grounded(a.text \o b.text, Supporters(i), i)
  <2>1. Words(a.text \o b.text) = Words(a.text) \cup Words(b.text)
    BY <1>4, WordsOfBoth
  <2>2. /\ Words(a.text) \subseteq UNION {Words(TextOf(x, spans[i])) : x \in Supporters(i) \cap Supporters(i)}
        /\ Words(b.text) \subseteq UNION {Words(TextOf(x, spans[i])) : x \in Supporters(i) \cap Supporters(i)}
    BY <1>1, <1>4
  <2> QED BY <1>8, <2>1, <2>2 DEF Grounded
<1> QED BY <1>5, <1>7, <1>8 DEF FillIsFounded

LEMMA FillDecisionIsFounded ==
  ASSUME SpansAreTyped, NEW i \in DOMAIN spans
  PROVE  /\ FillIsFounded(i, FillDecision(i))
         /\ Supporters(i) \ {base} = {} => FillDecision(i) = Unresolved
         /\ \A c : Supporters(i) \ {base} = {c} => FillDecision(i) = Select(i, c, "fill")
<1> DEFINE others == Supporters(i) \ {base}
           best == Strongest(i, others)
           next == Strongest(i, others \ {best})
<1>1. others = {} => FillDecision(i) = Unresolved
  BY DEF FillDecision
<1>2. others # {} => best \in others /\ best \in Supporters(i)
  <2>1. others \in SUBSET Supporters(i)
    OBVIOUS
  <2> HIDE DEF others
  <2> QED BY <2>1, StrongestIsOne
<1>3. others # {} /\ others # {best} => next \in Supporters(i)
  <2> DEFINE rest == others \ {best}
  <2>1. rest \in SUBSET Supporters(i)
    OBVIOUS
  <2>2. others # {} /\ others # {best} => rest # {}
    <3> HIDE DEF best
    <3> QED BY <1>2
  <2>3. next = Strongest(i, rest)
    OBVIOUS
  <2> HIDE DEF rest, next, best, others
  <2>4. rest # {} => next \in rest
    BY <2>1, <2>3, StrongestIsOne
  <2> QED BY <2>1, <2>2, <2>4
<1>4. /\ others # {} /\ others = {best} => FillDecision(i) = Select(i, best, "fill")
      /\ others # {} /\ others # {best} =>
            FillDecision(i) = Select(i, best, "fill") \/ FillDecision(i) = Merge(i, best, next)
  BY DEF FillDecision
<1> HIDE DEF others, best, next
<1>5. \A c : others = {c} => best = c
  BY <1>2
<1>6. \A c \in Supporters(i) : IsResolved(Select(i, c, "fill"))
  BY SelectIsTyped
<1>7. FillIsFounded(i, FillDecision(i))
  BY <1>1, <1>2, <1>3, <1>4, <1>6, MergeIsFounded DEF FillIsFounded
<1> QED BY <1>1, <1>4, <1>5, <1>7 DEF others

-----------------------------------------------------------------------------
(* What does not change while its sources do not.                          *)

LEMMA SpokenStays ==
  ASSUME source' = source
  PROVE  Spoken' = Spoken /\ SpanTable' = SpanTable
BY DEF SpanTable, Opens, Spoken, Candidates, Segments

LEMMA TextStays ==
  ASSUME source' = source
  PROVE  \A c, span : /\ TextOf(c, span)' = TextOf(c, span) /\ SharedTime(c, span)' = SharedTime(c, span)
                      /\ Extent(c, span)' = Extent(c, span) /\ RankOf(c)' = RankOf(c)
BY DEF TextOf, Extent, Overlapping, Segments, SharedTime, RankOf

LEMMA SupportersStay ==
  ASSUME source' = source, spans' = spans
  PROVE  \A i : Supporters(i)' = Supporters(i)
BY TextStays DEF Supporters, Supports, Candidates

LEMMA GroundsStay ==
  ASSUME source' = source, spans' = spans
  PROVE  \A text, from, i : Grounded(text, from, i)' = Grounded(text, from, i)
BY TextStays, SupportersStay DEF Grounded

LEMMA BaseDecisionStays ==
  ASSUME source' = source, spans' = spans
  PROVE  /\ \A i, d : Clip(i, d)' = Clip(i, d)
         /\ \A i, c, origin : Select(i, c, origin)' = Select(i, c, origin)
         /\ \A i, c : BaseDecision(i, c)' = BaseDecision(i, c)
<1>1. \A i, d : Clip(i, d)' = Clip(i, d)
  BY DEF Clip
<1>2. \A i, c, origin : Select(i, c, origin)' = Select(i, c, origin)
  <2> SUFFICES ASSUME NEW i, NEW c, NEW origin PROVE Select(i, c, origin)' = Select(i, c, origin)
    OBVIOUS
  <2>1. Extent(c, spans[i])' = Extent(c, spans[i])
    BY TextStays DEF Extent, Overlapping, Segments, TextOf
  <2> QED BY <2>1 DEF Select, Clip, Resolved
<1>3. \A i, c : BaseDecision(i, c)' = BaseDecision(i, c)
  BY <1>2, SupportersStay DEF BaseDecision
<1> QED BY <1>1, <1>2, <1>3

LEMMA ReviewsStay ==
  ASSUME source' = source, spans' = spans, kept' = kept
  PROVE  Reviews' = Reviews
BY GroundsStay DEF Reviews, Audit, NoCorrections, Rejected

LEMMA FillsStay ==
  ASSUME source' = source, spans' = spans, base' = base, kept' = kept, review' = review
  PROVE  Fills' = Fills
<1>1. \A i, c : Strength(i, c)' = Strength(i, c)
  BY TextStays DEF Strength
<1>2. \A i, from : Strongest(i, from)' = Strongest(i, from)
  BY <1>1 DEF Strongest
<1>3. \A i, c, d : Dominates(i, c, d)' = Dominates(i, c, d)
  BY TextStays DEF Dominates
<1>4. \A i, from, a, b : MergeInOrder(i, from, a, b)' = MergeInOrder(i, from, a, b)
  BY DEF MergeInOrder, Clip
<1>5. \A i, c, d : Merge(i, c, d)' = Merge(i, c, d)
  BY <1>4, TextStays DEF Merge
<1>6. \A i : FillDecision(i)' = FillDecision(i)
  BY <1>2, <1>3, <1>5, BaseDecisionStays, TextStays, SupportersStay DEF FillDecision
<1>7. \A i : Adjudicated(i)' = Adjudicated(i)
  BY <1>6 DEF Adjudicated
<1> QED BY <1>7, ZenonT(40) DEF Fills, Answers

LEMMA AssemblyStays ==
  ASSUME source' = source, spans' = spans, kept' = kept, review' = review, fill' = fill
  PROVE  Assembled' = Assembled
<1>1. \A i : Chosen(i)' = Chosen(i)
  BY DEF Chosen
<1>2. \A i : Emitted(i)' = Emitted(i) /\ SegmentOf(i)' = SegmentOf(i)
  BY <1>1 DEF Emitted, SegmentOf, Clip
<1>3. EmittedSpans' = EmittedSpans /\ MissingSpans' = MissingSpans
  BY <1>1, <1>2, SupportersStay DEF EmittedSpans, MissingSpans
<1>4. \A segments, missing : StatusOf(segments, missing)' = StatusOf(segments, missing)
  BY SupportersStay DEF StatusOf, Blockers
<1> QED BY <1>2, <1>3, <1>4 DEF Assembled

-----------------------------------------------------------------------------
(* The invariant of the synthesis: what each node leaves behind.           *)

SynthesisInv ==
  /\ source \in Syntheses
  /\ node \in {"select", "review", "adjudicate", "materialize", "done"} => spans = SpanTable
  /\ node \in {"review", "adjudicate", "materialize", "done"} =>
        \E c \in {base} : kept = [i \in DOMAIN spans |-> BaseDecision(i, c)]
  /\ node \in {"adjudicate", "materialize", "done"} => review \in Reviews
  /\ node \in {"materialize", "done"} => fill \in Fills
  /\ node = "done" => transcript = Assembled

LEMMA SynthesisStarts == SynthesisInit => SynthesisInv
BY DEF SynthesisInit, SynthesisInv

LEMMA BuildKeeps ==
  ASSUME SynthesisInv, BuildCanonicalTranscriptSpans
  PROVE  SynthesisInv'
BY SpokenStays DEF SynthesisInv, BuildCanonicalTranscriptSpans, Enter

LEMMA SelectKeeps ==
  ASSUME SynthesisInv, SelectTranscriptSpans
  PROVE  SynthesisInv'
<1>1. /\ node' = "review" /\ source' = source /\ spans' = spans /\ spans = SpanTable /\ source \in Syntheses
  BY DEF SynthesisInv, SelectTranscriptSpans, Enter
<1>2. PICK c \in Bases : base' = c /\ kept' = [i \in DOMAIN spans |-> BaseDecision(i, c)]
  BY DEF SelectTranscriptSpans
<1>3. kept' = [i \in DOMAIN spans |-> BaseDecision(i, c)]'
  BY <1>1, <1>2, BaseDecisionStays
<1> QED BY <1>1, <1>2, <1>3, SpokenStays DEF SynthesisInv

\* Where a node leaves the spans and the base alone, what was said of them stays.
LEMMA BaseStays ==
  ASSUME source' = source, spans' = spans, base' = base, kept' = kept,
         NEW c \in {base}, kept = [i \in DOMAIN spans |-> BaseDecision(i, c)]
  PROVE  c \in {base}' /\ kept' = [i \in DOMAIN spans |-> BaseDecision(i, c)]'
BY BaseDecisionStays

LEMMA ReviewKeeps ==
  ASSUME SynthesisInv, ReviewTranscriptSpans \/ ReviewRaises
  PROVE  SynthesisInv'
<1>1. /\ node' \in {"adjudicate", "failed"} /\ source' = source /\ spans' = spans /\ base' = base /\ kept' = kept
      /\ spans = SpanTable /\ source \in Syntheses
      /\ node' = "adjudicate" => review' \in Reviews
  BY DEF SynthesisInv, ReviewTranscriptSpans, ReviewRaises, Enter
<1>2. PICK c \in {base} : kept = [i \in DOMAIN spans |-> BaseDecision(i, c)]
  BY DEF SynthesisInv, ReviewTranscriptSpans, ReviewRaises, Enter
<1>3. c \in {base}' /\ kept' = [i \in DOMAIN spans |-> BaseDecision(i, c)]'
  BY <1>1, <1>2, BaseStays
<1>4. SpanTable' = SpanTable /\ Reviews' = Reviews
  BY <1>1, SpokenStays, ReviewsStay
<1> QED BY <1>1, <1>3, <1>4 DEF SynthesisInv

LEMMA AdjudicateKeeps ==
  ASSUME SynthesisInv, AdjudicateTranscriptSpans
  PROVE  SynthesisInv'
<1>1. /\ node' = "materialize" /\ source' = source /\ spans' = spans /\ base' = base /\ kept' = kept
      /\ review' = review /\ fill' \in Fills
      /\ spans = SpanTable /\ source \in Syntheses /\ review \in Reviews
  BY DEF SynthesisInv, AdjudicateTranscriptSpans, Enter
<1>2. PICK c \in {base} : kept = [i \in DOMAIN spans |-> BaseDecision(i, c)]
  BY DEF SynthesisInv, AdjudicateTranscriptSpans, Enter
<1>3. c \in {base}' /\ kept' = [i \in DOMAIN spans |-> BaseDecision(i, c)]'
  BY <1>1, <1>2, BaseStays
<1>4. SpanTable' = SpanTable /\ Reviews' = Reviews /\ Fills' = Fills
  BY <1>1, SpokenStays, ReviewsStay, FillsStay
<1> QED BY <1>1, <1>3, <1>4 DEF SynthesisInv

LEMMA MaterializeKeeps ==
  ASSUME SynthesisInv, MaterializeSynthesizedTranscript
  PROVE  SynthesisInv'
<1>1. /\ node' = "done" /\ source' = source /\ spans' = spans /\ base' = base /\ kept' = kept
      /\ review' = review /\ fill' = fill /\ transcript' = Assembled
      /\ spans = SpanTable /\ source \in Syntheses /\ review \in Reviews /\ fill \in Fills
  BY DEF SynthesisInv, MaterializeSynthesizedTranscript, Enter
<1>2. PICK c \in {base} : kept = [i \in DOMAIN spans |-> BaseDecision(i, c)]
  BY DEF SynthesisInv, MaterializeSynthesizedTranscript, Enter
<1>3. c \in {base}' /\ kept' = [i \in DOMAIN spans |-> BaseDecision(i, c)]'
  BY <1>1, <1>2, BaseStays
<1>4. SpanTable' = SpanTable /\ Reviews' = Reviews /\ Fills' = Fills /\ Assembled' = Assembled
  BY <1>1, SpokenStays, ReviewsStay, FillsStay, AssemblyStays
<1> QED BY <1>1, <1>3, <1>4 DEF SynthesisInv

LEMMA SynthesisStutters ==
  ASSUME SynthesisInv, UNCHANGED synthesisVars
  PROVE  SynthesisInv'
<1>1. /\ node' = node /\ source' = source /\ spans' = spans /\ base' = base /\ kept' = kept
      /\ review' = review /\ fill' = fill /\ transcript' = transcript
  BY DEF synthesisVars
<1>2. SpanTable' = SpanTable /\ Reviews' = Reviews /\ Fills' = Fills /\ Assembled' = Assembled
  BY <1>1, SpokenStays, ReviewsStay, FillsStay, AssemblyStays
<1>3. ASSUME node \in {"review", "adjudicate", "materialize", "done"}
      PROVE  (\E c \in {base} : kept = [i \in DOMAIN spans |-> BaseDecision(i, c)])'
  <2>1. PICK c \in {base} : kept = [i \in DOMAIN spans |-> BaseDecision(i, c)]
    BY <1>3 DEF SynthesisInv
  <2>2. c \in {base}' /\ kept' = [i \in DOMAIN spans |-> BaseDecision(i, c)]'
    BY <1>1, <2>1, BaseStays
  <2> QED BY <2>2
<1> QED BY <1>1, <1>2, <1>3 DEF SynthesisInv

LEMMA SynthesisStepKeeps == SynthesisInv /\ [SynthesisNext]_synthesisVars => SynthesisInv'
<1> SUFFICES ASSUME SynthesisInv, [SynthesisNext]_synthesisVars PROVE SynthesisInv'
  OBVIOUS
<1>1. CASE BuildCanonicalTranscriptSpans
  BY <1>1, BuildKeeps
<1>2. CASE SelectTranscriptSpans
  BY <1>2, SelectKeeps
<1>3. CASE ReviewTranscriptSpans \/ ReviewRaises
  BY <1>3, ReviewKeeps
<1>4. CASE AdjudicateTranscriptSpans
  BY <1>4, AdjudicateKeeps
<1>5. CASE MaterializeSynthesizedTranscript
  BY <1>5, MaterializeKeeps
<1>6. CASE SynthesisOver
  BY <1>6, SynthesisStutters DEF SynthesisOver
<1>7. CASE UNCHANGED synthesisVars
  BY <1>7, SynthesisStutters
<1> QED BY <1>1, <1>2, <1>3, <1>4, <1>5, <1>6, <1>7 DEF SynthesisNext

LEMMA SynthesisInvariant == SynthesisSpec => []SynthesisInv
<1>1. SynthesisInit => SynthesisInv
  BY SynthesisStarts
<1>2. SynthesisInv /\ [SynthesisNext]_synthesisVars => SynthesisInv'
  BY SynthesisStepKeeps
<1> QED BY <1>1, <1>2, PTL DEF SynthesisSpec

-----------------------------------------------------------------------------
(* A transcript that is done.                                              *)

\* What the nodes have left, span by span.
LEMMA WhatIsLeft ==
  ASSUME SynthesisInv, node = "done"
  PROVE  /\ SpansAreTyped /\ SpansCover(spans) /\ transcript = Assembled
         /\ \A i \in DOMAIN spans :
              /\ kept[i] = BaseDecision(i, base)
              /\ review.corrected[i] \in LiveAnswers \cup {None}
              /\ fill[i] = Adjudicated(i) \/ fill[i] \in LiveAnswers
              /\ ~source.live => /\ review.corrected[i] = None
                                 /\ i \in review.unresolved <=> i \in Rejected
                                 /\ fill[i] = Adjudicated(i)
<1>1. /\ CandidatesAreTyped /\ spans = SpanTable /\ review \in Reviews /\ fill \in Fills /\ transcript = Assembled
      /\ \E c \in {base} : kept = [i \in DOMAIN spans |-> BaseDecision(i, c)]
  BY SourceIsTyped DEF SynthesisInv
<1>2. SpansCover(spans)
  BY <1>1, SpanTableCovers
<1>3. SpansAreTyped
  BY <1>1, <1>2 DEF SpansAreTyped, SpansCover
<1>4. ASSUME NEW i \in DOMAIN spans PROVE kept[i] = BaseDecision(i, base)
  <2>1. kept = [j \in DOMAIN spans |-> BaseDecision(j, base)]
    BY <1>1
  <2> QED BY <2>1
<1>5. ASSUME NEW i \in DOMAIN spans
      PROVE  /\ review.corrected[i] \in LiveAnswers \cup {None}
             /\ ~source.live => /\ review.corrected[i] = None
                                /\ i \in review.unresolved <=> i \in Rejected
  <2>1. CASE source.live
    <3>1. PICK u \in SUBSET DOMAIN spans, c \in [DOMAIN spans -> LiveAnswers \cup {None}] :
             review = [unresolved |-> u, corrected |-> c]
      BY <1>1, <2>1 DEF Reviews
    <3>2. review.corrected = c
      BY <3>1
    <3> QED BY <2>1, <3>2
  <2>2. CASE ~source.live
    <3>1. review = Audit
      BY <1>1, <2>2 DEF Reviews
    <3>2. review.corrected[i] = None /\ review.unresolved = Rejected
      BY <3>1 DEF Audit, NoCorrections
    <3> QED BY <3>2
  <2> QED BY <2>1, <2>2
<1>6. ASSUME NEW i \in DOMAIN spans
      PROVE  /\ fill[i] = Adjudicated(i) \/ fill[i] \in LiveAnswers
             /\ ~source.live => fill[i] = Adjudicated(i)
  <2> DEFINE answers == [j \in DOMAIN spans |-> Answers(j, Adjudicated(j))]
  <2>1. \A j \in DOMAIN spans : fill[j] \in answers[j]
    BY <1>1 DEF Fills
  <2>2. fill[i] \in Answers(i, Adjudicated(i))
    BY <2>1
  <2> QED BY <2>2 DEF Answers
<1> QED BY <1>1, <1>2, <1>3, <1>4, <1>5, <1>6

LEMMA ChosenIsTyped ==
  ASSUME SynthesisInv, node = "done", NEW i \in DOMAIN spans
  PROVE  Chosen(i) = None \/ Chosen(i) = Unresolved \/ IsResolved(Chosen(i))
<1> DEFINE Good(d) == d = None \/ d = Unresolved \/ IsResolved(d)
<1>1. SpansAreTyped /\ kept[i] = BaseDecision(i, base) /\ review.corrected[i] \in LiveAnswers \cup {None}
      /\ (fill[i] = Adjudicated(i) \/ fill[i] \in LiveAnswers)
  BY WhatIsLeft
<1>2. \A d \in LiveAnswers \cup {None} : Good(d)
  BY SynthesisAssumption
<1>3. Good(kept[i])
  <2>1. base \in Supporters(i) => IsResolved(Select(i, base, "base"))
    BY <1>1, SelectIsTyped
  <2> QED BY <1>1, <2>1 DEF BaseDecision
<1>4. Good(Adjudicated(i))
  <2>1. Good(FillDecision(i))
    BY <1>1, FillDecisionIsFounded DEF FillIsFounded
  <2> QED BY <2>1 DEF Adjudicated
<1> HIDE DEF Good
<1>5. Good(Chosen(i))
  BY <1>1, <1>2, <1>3, <1>4 DEF Chosen
<1> QED BY <1>5 DEF Good

\* A span that is emitted, and its segment.
LEMMA SegmentIsTyped ==
  ASSUME SynthesisInv, node = "done", NEW i \in EmittedSpans
  PROVE  /\ i \in DOMAIN spans /\ IsResolved(Chosen(i))
         /\ SegmentOf(i).span = i /\ SegmentOf(i).text = Chosen(i).text
         /\ SegmentOf(i).start \in Int /\ SegmentOf(i).end \in Int
         /\ spans[i].start <= SegmentOf(i).start /\ SegmentOf(i).end <= spans[i].end
<1>1. i \in DOMAIN spans /\ Chosen(i).kind = "resolved" /\ SpansAreTyped
  BY WhatIsLeft DEF EmittedSpans, Emitted
<1>2. IsResolved(Chosen(i))
  BY <1>1, ChosenIsTyped DEF None, Unresolved
<1> DEFINE d == Chosen(i)
           cut == Clip(i, d)
<1> HIDE DEF d
<1>3. IsResolved(d)
  BY <1>2 DEF d
<1>4. /\ IsResolved(cut) /\ cut.text = d.text
      /\ cut.start = IF spans[i].start >= d.start THEN spans[i].start ELSE d.start
      /\ cut.end = IF spans[i].end <= d.end THEN spans[i].end ELSE d.end
  BY <1>1, <1>3, ClipIsTyped
<1> HIDE DEF cut
<1>5. spans[i].start \in Int /\ spans[i].end \in Int /\ d.start \in Int /\ d.end \in Int
  BY <1>1, <1>3, SpanIsTyped DEF IsResolved
<1>6. SegmentOf(i) = [span |-> i, from |-> cut.from, text |-> cut.text, start |-> cut.start,
                      end |-> cut.end, origin |-> cut.origin]
  BY DEF SegmentOf, cut, d
<1>7. /\ SegmentOf(i).span = i /\ SegmentOf(i).text = cut.text
      /\ SegmentOf(i).start = cut.start /\ SegmentOf(i).end = cut.end
  BY <1>6
<1> QED BY <1>1, <1>2, <1>4, <1>5, <1>7 DEF d

\* The segments of the transcript are those of the spans that are emitted, in their order.
LEMMA SegmentsAreEmitted ==
  ASSUME SynthesisInv, node = "done"
  PROVE  /\ \A k \in DOMAIN transcript.segments :
              \E i \in EmittedSpans : transcript.segments[k] = SegmentOf(i) /\ transcript.segments[k].span = i
         /\ \A i \in EmittedSpans : \E k \in DOMAIN transcript.segments : transcript.segments[k] = SegmentOf(i)
         /\ \A k, m \in DOMAIN transcript.segments : k < m => transcript.segments[k].span < transcript.segments[m].span
         /\ transcript.missing = MissingSpans
         /\ transcript.status = StatusOf(transcript.segments, MissingSpans)
<1> DEFINE order == InOrder(EmittedSpans)
           n == Cardinality(EmittedSpans)
           segments == [k \in DOMAIN order |-> SegmentOf(order[k])]
<1>1. /\ transcript.segments = segments /\ transcript.missing = MissingSpans
      /\ transcript.status = StatusOf(transcript.segments, MissingSpans)
  BY WhatIsLeft DEF Assembled
<1>2. EmittedSpans \in SUBSET Int /\ IsFiniteSet(EmittedSpans)
  <2>1. spans \in Seq(SpanType)
    BY WhatIsLeft DEF SpansAreTyped
  <2>2. DOMAIN spans = 1..Len(spans) /\ Len(spans) \in Nat
    BY <2>1
  <2>3. IsFiniteSet(DOMAIN spans) /\ EmittedSpans \in SUBSET DOMAIN spans /\ DOMAIN spans \subseteq Int
    BY <2>2, IntervalSize DEF EmittedSpans
  <2> QED BY <2>3, FS_Subset
<1>3. /\ n \in Nat /\ order \in [1..n -> EmittedSpans]
      /\ \A x \in EmittedSpans : \E k \in 1..n : order[k] = x
      /\ \A i, j \in 1..n : i < j => order[i] < order[j]
  BY <1>2, InOrderLists
<1> HIDE DEF order, n
<1>4. DOMAIN segments = 1..n /\ \A k \in 1..n : segments[k] = SegmentOf(order[k]) /\ order[k] \in EmittedSpans
  BY <1>3
<1>5. \A i \in EmittedSpans : SegmentOf(i).span = i
  BY SegmentIsTyped
<1> HIDE DEF segments
<1> QED BY <1>1, <1>3, <1>4, <1>5

\* Whatever a model answers, the segments are in order and do not overlap, and a ready
\* transcript has a segment for everything spoken (transcript_synthesis.py
\* materialize_synthesized_transcript).
LEMMA DoneIsOrderedAndWhole == SynthesisInv => OrderedAndWhole
<1> SUFFICES ASSUME SynthesisInv, node = "done" PROVE OrderedAndWhole
  BY DEF OrderedAndWhole
<1> DEFINE said == transcript.segments
<1>1. SpansAreTyped /\ SpansCover(spans) /\ CandidatesAreTyped
  BY WhatIsLeft DEF SpansAreTyped
<1>2. ASSUME NEW k \in DOMAIN said, NEW m \in DOMAIN said, k < m PROVE said[k].end <= said[m].start
  <2>1. PICK i \in EmittedSpans : said[k] = SegmentOf(i) /\ said[k].span = i
    BY SegmentsAreEmitted
  <2>2. PICK j \in EmittedSpans : said[m] = SegmentOf(j) /\ said[m].span = j
    BY SegmentsAreEmitted
  <2>3. i < j
    BY <1>2, <2>1, <2>2, SegmentsAreEmitted
  <2>4. /\ i \in DOMAIN spans /\ SegmentOf(i).end \in Int /\ SegmentOf(i).end <= spans[i].end
        /\ j \in DOMAIN spans /\ SegmentOf(j).start \in Int /\ spans[j].start <= SegmentOf(j).start
    BY SegmentIsTyped
  <2>5. spans[i].end <= spans[j].start
    BY <1>1, <2>3, <2>4 DEF SpansCover
  <2>6. spans[i].end \in Int /\ spans[j].start \in Int
    BY <1>1, <2>4, SpanIsTyped
  <2> QED BY <2>1, <2>2, <2>4, <2>5, <2>6
<1>3. ASSUME transcript.status = "ready", NEW s \in Spoken
      PROVE  \E k \in DOMAIN said : Shared(spans[said[k].span], s) > 0
  <2>1. PICK i \in DOMAIN spans : spans[i].start <= s.start /\ s.end <= spans[i].end
    BY <1>1 DEF SpansCover
  <2>2. PICK c \in Candidates : \E k \in DOMAIN Segments(c) : s = Segments(c)[k]
    BY <1>1, SpokenIsTyped
  <2>3. PICK k \in DOMAIN Segments(c) : s = Segments(c)[k]
    BY <2>2
  <2>4. /\ s.text # <<>> /\ s.start < s.end /\ s.start \in Int /\ s.end \in Int
        /\ spans[i] \in SpanType /\ spans[i].start \in Int /\ spans[i].end \in Int
    BY <1>1, SpokenIsTyped, SpanIsTyped DEF SegmentType
  <2>5. Shared(spans[i], s) > 0
    <3>1. spans[i].start < spans[i].end /\ spans[i].start < s.end /\ s.start < spans[i].end
      BY <2>1, <2>4
    <3> QED BY <2>4, <3>1, SharedTimeOfTwo
  <2>6. c \in Supporters(i)
    <3>1. k \in Overlapping(c, spans[i]) /\ Segments(c)[k].text # <<>>
      BY <2>3, <2>4, <2>5 DEF Overlapping
    <3>2. Supports(c, spans[i])
      BY <1>1, <2>4, <3>1, TextIsTyped
    <3> QED BY <3>2 DEF Supporters
  <2>7. Blockers(said, MissingSpans) = {}
    <3>1. StatusOf(said, MissingSpans) = "ready"
      BY <1>3, SegmentsAreEmitted
    <3> QED BY <3>1 DEF StatusOf
  <2>8. {j \in DOMAIN spans : Supporters(j) # {} /\ \A m \in DOMAIN said : said[m].span # j} = {}
    BY <2>7 DEF Blockers
  <2>9. PICK m \in DOMAIN said : said[m].span = i
    BY <2>6, <2>8
  <2> QED BY <2>5, <2>9
<1> QED BY <1>2, <1>3 DEF OrderedAndWhole

\* A span that the base covers, or one other candidate alone, is emitted when it is chosen
\* so; a span of which nothing is chosen is missed only where somebody speaks.
LEMMA SelectedIsEmitted ==
  ASSUME SynthesisInv, node = "done", NEW i \in DOMAIN spans, NEW c \in Supporters(i), NEW origin,
         Chosen(i) = Select(i, c, origin)
  PROVE  i \in EmittedSpans
<1>1. /\ Select(i, c, origin).kind = "resolved"
      /\ Clip(i, Select(i, c, origin)).start < Clip(i, Select(i, c, origin)).end
  BY WhatIsLeft, SelectIsTyped
<1>2. Emitted(i)
  BY <1>1 DEF Emitted
<1> QED BY <1>2 DEF EmittedSpans

\* What the base says of a span: nothing, or its words there.
LEMMA BaseIsKept ==
  ASSUME SynthesisInv, node = "done", NEW i \in DOMAIN spans
  PROVE  /\ base \notin Supporters(i) => kept[i] = None
         /\ base \in Supporters(i) =>
              /\ kept[i] = Select(i, base, "base") /\ kept[i] # None
              /\ kept[i].text = TextOf(base, spans[i]) /\ kept[i].from = {base}
<1>1. kept[i] = BaseDecision(i, base) /\ SpansAreTyped
  BY WhatIsLeft
<1>2. base \in Supporters(i) =>
        /\ Select(i, base, "base").kind = "resolved"
        /\ Select(i, base, "base").text = TextOf(base, spans[i]) /\ Select(i, base, "base").from = {base}
  BY <1>1, SelectIsTyped
<1>3. base \in Supporters(i) => Select(i, base, "base") # None
  BY <1>2 DEF None
<1> QED BY <1>1, <1>2, <1>3 DEF BaseDecision

\* Without a model, what is chosen for a span is the base's words, if it has any there, or
\* else what the adjudicator makes of the others.
LEMMA ChosenWithoutModel ==
  ASSUME SynthesisInv, node = "done", ~source.live, NEW i \in DOMAIN spans
  PROVE  /\ base \in Supporters(i) /\ Words(TextOf(base, spans[i])) # {} => Chosen(i) = kept[i]
         /\ base \in Supporters(i) /\ Words(TextOf(base, spans[i])) = {} => Chosen(i) = Unresolved
         /\ base \notin Supporters(i) => Chosen(i) = FillDecision(i)
<1>1. /\ review.corrected[i] = None /\ (i \in review.unresolved <=> i \in Rejected)
      /\ fill[i] = Adjudicated(i)
  BY WhatIsLeft
<1>2. i \in Rejected <=> kept[i] = None \/ ~Grounded(kept[i].text, kept[i].from, i)
  BY DEF Rejected
<1>3. CASE base \in Supporters(i)
  <2>1. kept[i] # None /\ kept[i].text = TextOf(base, spans[i]) /\ kept[i].from = {base}
    BY <1>3, BaseIsKept
  <2>2. Grounded(kept[i].text, kept[i].from, i) <=> Words(TextOf(base, spans[i])) # {}
    BY <1>3, <2>1, OneIsGrounded
  <2>3. /\ Words(TextOf(base, spans[i])) # {} => fill[i] = None
        /\ Words(TextOf(base, spans[i])) = {} => fill[i] = Unresolved
    BY <1>1, <1>2, <2>1, <2>2 DEF Adjudicated
  <2>4. None # Unresolved
    BY DEF None, Unresolved
  <2> QED BY <1>1, <1>3, <2>1, <2>3, <2>4 DEF Chosen
<1>4. CASE base \notin Supporters(i)
  <2>1. kept[i] = None
    BY <1>4, BaseIsKept
  <2>2. fill[i] = FillDecision(i)
    BY <1>1, <1>2, <2>1 DEF Adjudicated
  <2> QED BY <1>1, <1>4, <2>1, <2>2 DEF Chosen
<1> QED BY <1>3, <1>4

LEMMA DoneKeepsBase == SynthesisInv => BaseStands
<1> SUFFICES ASSUME SynthesisInv, node = "done" PROVE BaseStands
  BY DEF BaseStands
<1>1. SpansAreTyped
  BY WhatIsLeft
<1>2. ASSUME NEW k \in DOMAIN transcript.segments
      PROVE  /\ transcript.segments[k].span \in DOMAIN spans
             /\ Chosen(transcript.segments[k].span).kind = "resolved"
             /\ TextAt(k) = Chosen(transcript.segments[k].span).text
  <2>1. PICK i \in EmittedSpans : transcript.segments[k] = SegmentOf(i) /\ transcript.segments[k].span = i
    BY SegmentsAreEmitted
  <2>2. i \in DOMAIN spans /\ SegmentOf(i).text = Chosen(i).text
    BY SegmentIsTyped
  <2>3. Chosen(i).kind = "resolved"
    BY DEF EmittedSpans, Emitted
  <2> QED BY <2>1, <2>2, <2>3 DEF TextAt
<1>3. ASSUME NEW k \in DOMAIN transcript.segments, NEW i, i = transcript.segments[k].span,
             base \in Supporters(i), review.corrected[i] = None
      PROVE  TextAt(k) = TextOf(base, spans[i])
  <2>1. i \in DOMAIN spans /\ Chosen(i).kind = "resolved" /\ TextAt(k) = Chosen(i).text
    BY <1>2, <1>3
  <2>2. kept[i] # None /\ kept[i].text = TextOf(base, spans[i])
    BY <1>3, <2>1, BaseIsKept
  <2>3. (Chosen(i) = fill[i] /\ fill[i] = Unresolved) \/ Chosen(i) = kept[i]
    BY <1>3, <2>2 DEF Chosen
  <2>4. Chosen(i) # Unresolved
    BY <2>1 DEF Unresolved
  <2> QED BY <2>1, <2>2, <2>3, <2>4
<1>4. ASSUME ~source.live, NEW k \in DOMAIN transcript.segments, NEW i, i = transcript.segments[k].span
      PROVE  \/ Grounded(TextAt(k), Supporters(i), i)
             \/ /\ base \notin Supporters(i) /\ Words(TextAt(k)) = {}
                /\ \E c \in Supporters(i) : TextAt(k) = TextOf(c, spans[i])
  <2>1. i \in DOMAIN spans /\ Chosen(i).kind = "resolved" /\ TextAt(k) = Chosen(i).text /\ Chosen(i) # Unresolved
    BY <1>2, <1>4 DEF Unresolved
  <2>2. CASE base \in Supporters(i)
    <3>1. Words(TextOf(base, spans[i])) # {} /\ Chosen(i) = kept[i]
      BY <1>4, <2>1, <2>2, ChosenWithoutModel
    <3>2. TextAt(k) = TextOf(base, spans[i])
      BY <2>1, <2>2, <3>1, BaseIsKept
    <3>3. Grounded(TextOf(base, spans[i]), Supporters(i), i)
      BY <2>2, <3>1, OneIsGrounded
    <3> QED BY <3>2, <3>3
  <2>3. CASE base \notin Supporters(i)
    <3>1. Chosen(i) = FillDecision(i)
      BY <1>4, <2>1, <2>3, ChosenWithoutModel
    <3>2. FillIsFounded(i, Chosen(i))
      BY <1>1, <2>1, <3>1, FillDecisionIsFounded
    <3>3. \A c \in Supporters(i) : Select(i, c, "fill").text = TextOf(c, spans[i])
      BY <1>1, <2>1, SelectIsTyped
    <3>4. \A c \in Supporters(i) : Words(TextOf(c, spans[i])) # {} => Grounded(TextOf(c, spans[i]), Supporters(i), i)
      BY OneIsGrounded
    <3>5. CASE Grounded(Chosen(i).text, Supporters(i), i)
      BY <2>1, <3>5
    <3>6. ASSUME NEW c \in Supporters(i), Chosen(i) = Select(i, c, "fill")
          PROVE  \/ Grounded(TextAt(k), Supporters(i), i)
                 \/ Words(TextAt(k)) = {} /\ TextAt(k) = TextOf(c, spans[i])
      BY <2>1, <3>3, <3>4, <3>6
    <3> QED BY <2>1, <2>3, <3>2, <3>5, <3>6 DEF FillIsFounded
  <2> QED BY <2>2, <2>3
<1>5. ASSUME ~source.live, NEW i \in transcript.missing
      PROVE  \/ base \in Supporters(i) /\ Words(TextOf(base, spans[i])) = {}
             \/ base \notin Supporters(i) /\ Cardinality(Supporters(i)) > 1
  <2>1. i \in DOMAIN spans /\ i \notin EmittedSpans /\ (Chosen(i).kind = "resolved" \/ Supporters(i) # {})
    BY SegmentsAreEmitted DEF MissingSpans
  <2>2. CASE base \in Supporters(i)
    <3>1. SUFFICES ASSUME Words(TextOf(base, spans[i])) # {} PROVE FALSE
      BY <2>2
    <3>2. Chosen(i) = Select(i, base, "base")
      BY <1>5, <2>1, <2>2, <3>1, ChosenWithoutModel, BaseIsKept
    <3> QED BY <2>1, <2>2, <3>2, SelectedIsEmitted
  <2>3. CASE base \notin Supporters(i)
    <3> DEFINE n == Cardinality(Supporters(i))
    <3>1. Chosen(i) = FillDecision(i) /\ Supporters(i) \ {base} = Supporters(i)
      BY <1>5, <2>1, <2>3, ChosenWithoutModel
    <3>2. IsFiniteSet(Supporters(i)) /\ n \in Nat
      BY <1>1, <2>1, SpanIsTyped, FS_CardinalityType
    <3>3. n # 0
      <4>1. SUFFICES ASSUME Supporters(i) = {} PROVE FALSE
        BY <3>2, FS_EmptySet
      <4>2. Chosen(i) = Unresolved
        BY <1>1, <2>1, <3>1, <4>1, FillDecisionIsFounded
      <4> QED BY <2>1, <4>1, <4>2 DEF Unresolved
    <3>4. n # 1
      <4>1. SUFFICES ASSUME NEW c, Supporters(i) = {c} PROVE FALSE
        BY <3>2, FS_Singleton
      <4>2. Chosen(i) = Select(i, c, "fill") /\ c \in Supporters(i)
        BY <1>1, <2>1, <3>1, <4>1, FillDecisionIsFounded
      <4> QED BY <2>1, <4>2, SelectedIsEmitted
    <3>5. n > 1
      <4> HIDE DEF n
      <4> QED BY <3>2, <3>3, <3>4
    <3> QED BY <2>3, <3>5
  <2> QED BY <2>2, <2>3
<1> QED BY <1>3, <1>4, <1>5 DEF BaseStands

\* Whatever a model answers, the segments of a transcript are in order and do not
\* overlap, and a ready transcript has a segment for everything any candidate has said
\* (transcript_synthesis.py materialize_synthesized_transcript).
THEOREM TranscriptIsOrderedAndWhole == SynthesisSpec => []OrderedAndWhole
BY SynthesisInvariant, DoneIsOrderedAndWhole, PTL

\* The base's words stand unless the reviewer corrects them; without a model every word is
\* one that candidates have said, and what is missed is noise or disputed
\* (transcript_synthesis.py run_global_adjudicator).
THEOREM BaseWordsStand == SynthesisSpec => []BaseStands
BY SynthesisInvariant, DoneKeepsBase, PTL

-----------------------------------------------------------------------------
(* The policy (ReviewPolicy).                                              *)

LEMMA WithinIsBetween ==
  ASSUME NEW low \in Int, NEW high \in Int, low <= high, NEW x \in Int
  PROVE  Within(low, high, x) \in low..high
<1> DEFINE least == Min({high, x})
<1>1. least \in Int /\ least <= high
  <2>1. least = IF high <= x THEN high ELSE x
    BY PairMaxMin
  <2> HIDE DEF least
  <2> QED BY <2>1
<1> HIDE DEF least
<1>2. Max({low, least}) = IF low >= least THEN low ELSE least
  BY <1>1, PairMaxMin
<1>3. Within(low, high, x) = Max({low, least})
  BY DEF Within, least
<1> QED BY <1>1, <1>2, <1>3

\* The candidates, each of them once, in some order.
RanksAll(ranked, n) ==
  /\ ranked \in [1..n -> 1..n]
  /\ \A c \in 1..n : \E k \in 1..n : ranked[k] = c

LEMMA ScoresRank ==
  ASSUME NEW n \in Nat, NEW score, score \in [1..n -> Int]
  PROVE  RanksAll(RankedBy(score), n)
<1> DEFINE S == 1..n
           R == {p \in S \X S : score[p[1]] > score[p[2]] \/ (score[p[1]] = score[p[2]] /\ p[1] < p[2])}
<1>1. IsFiniteSet(S) /\ Cardinality(S) = n
  BY IntervalSize
<1>2. \A x, y \in S : <<x, y>> \in R <=> (score[x] > score[y] \/ (score[x] = score[y] /\ x < y))
  OBVIOUS
<1>3. RankedBy(score) = Enumeration(S, R)
  BY DEF RankedBy
<1>4. \A x \in S : score[x] \in Int /\ x \in Int
  OBVIOUS
<1> HIDE DEF R, S
<1>5. StrictOrder(R, S)
  BY ONLY <1>2, <1>4 DEF StrictOrder
<1>6. ListsInOrder(Enumeration(S, R), S, R)
  BY ONLY <1>1, <1>5, EnumerationLists
<1>7. Enumeration(S, R) \in [1..n -> S] /\ \A x \in S : \E k \in 1..n : Enumeration(S, R)[k] = x
  BY <1>1, <1>6 DEF ListsInOrder
<1> QED BY <1>3, <1>7 DEF RanksAll, S

\* What is said, finitely often, with a weight.
Weighed(said) == IsFiniteSet(said) /\ \A x \in said : x.severity \in DOMAIN SeverityWeight

\* A review, whose signal no material refutation of its own is without.
Reviewed(report) ==
  /\ Weighed(report.evidence) /\ Weighed(report.issues)
  /\ report.confidence \in Nat
  /\ Refutations(report.evidence) # {} => report.signal

LEMMA Weights ==
  ASSUME NEW s \in DOMAIN SeverityWeight
  PROVE  /\ SeverityWeight[s] \in Nat /\ EvidenceWeight[s] \in Nat
         /\ s \in {"minor", "major", "critical"}
         /\ s \in Material => (SeverityWeight[s] >= 12000 /\ EvidenceWeight[s] >= 4500)
         /\ s = "minor" => EvidenceWeight[s] = 2000
BY DEF SeverityWeight, EvidenceWeight, Material

LEMMA EvidenceIsWeighed ==
  ASSUME NEW report, Reviewed(report)
  PROVE  /\ Weighed(EvidenceIn(report)) /\ EvidenceIn(report) # {}
         /\ Refutations(EvidenceIn(report)) = Refutations(report.evidence)
<1>1. CASE report.evidence # {}
  BY <1>1 DEF EvidenceIn, Reviewed
<1>2. CASE report.evidence = {}
  <2> DEFINE e == Evidence(<<>>, FirstChoice(report), "meaning", "supports", <<>>, "minor")
  <2>1. EvidenceIn(report) = {e} /\ e.severity = "minor" /\ e.polarity = "supports"
    BY <1>2 DEF EvidenceIn, Evidence
  <2> HIDE DEF e
  <2>2. IsFiniteSet({e})
    BY FS_Singleton
  <2>3. Weighed({e})
    BY <2>1, <2>2 DEF Weighed, SeverityWeight
  <2>4. Refutations({e}) = {} /\ Refutations({}) = {}
    BY <2>1 DEF Refutations
  <2> QED BY <1>2, <2>1, <2>3, <2>4
<1> QED BY <1>1, <1>2

\* Two reviews.
TwoReviews(given) == DOMAIN given = 1..2 /\ \A r \in 1..2 : Reviewed(given[r])

LEMMA AllIsWeighed ==
  ASSUME NEW given, TwoReviews(given)
  PROVE  Weighed(AllEvidence(given))
<1> DEFINE f == [r \in 1..2 |-> EvidenceIn(given[r])]
<1>1. IsFiniteSet(1..2)
  BY IntervalSize
<1>2. \A r \in 1..2 : Weighed(f[r])
  BY EvidenceIsWeighed DEF TwoReviews
<1>3. AllEvidence(given) = UNION {f[r] : r \in 1..2}
  BY DEF AllEvidence, TwoReviews
<1> HIDE DEF f
<1>4. IsFiniteSet(UNION {f[r] : r \in 1..2})
  BY <1>1, <1>2, UnionIsFinite DEF Weighed
<1> QED BY <1>2, <1>3, <1>4 DEF Weighed

\* The parts of the score are no less than nothing, and a refutation brings its share.
LEMMA DisputeIsScored ==
  ASSUME NEW given, TwoReviews(given), NEW priors, NEW risk \in Nat, risk >= 100,
         Refutations(AllEvidence(given)) # {}
  PROVE  /\ AssessReviewDisagreement(given, priors, risk).score \in Int
         /\ AssessReviewDisagreement(given, priors, risk).score >= 32000
        /\ AssessReviewDisagreement(given, priors, risk).blocking \in Nat
<1> DEFINE confidences == {given[r].confidence : r \in DOMAIN given}
           spread == IF given = <<>> THEN 0 ELSE Max(confidences) - Min(confidences)
           said == AllEvidence(given)
           counted == Cardinality(Counted(Contradictions(said)))
           refuting == Cardinality(MaterialRefutes(said))
           signals == Cardinality({r \in DOMAIN given : given[r].signal})
           mismatch == Cardinality({FirstChoice(given[r]) : r \in DOMAIN given}) > 1
           a == AssessReviewDisagreement(given, priors, risk)
<1>1. Weighed(said)
  BY AllIsWeighed
<1>2. PICK e \in Refutations(said) : TRUE
  OBVIOUS
<1>3. refuting \in Nat /\ refuting >= 1
  <2> DEFINE f == [x \in Refutations(said) |-> <<x.span, x.candidate, x.dimension>>]
             S == {f[x] : x \in Refutations(said)}
  <2>1. IsFiniteSet(Refutations(said))
    BY <1>1, FS_Subset DEF Weighed, Refutations
  <2>2. S = MaterialRefutes(said) /\ S # {} /\ DOMAIN f = Refutations(said)
    BY DEF MaterialRefutes
  <2> HIDE DEF f
  <2>3. IsFiniteSet(S)
    BY ONLY <2>1, <2>2, ImageIsFinite
  <2> HIDE DEF S
  <2>4. Cardinality(S) \in Nat /\ Cardinality(S) # 0
    BY <2>2, <2>3, FS_CardinalityType, FS_EmptySet
  <2> QED BY <2>2, <2>4
<1>4. counted \in Nat /\ Cardinality(Blocking(Contradictions(said))) \in Nat
  <2> DEFINE f == [x \in said |-> {y \in said : y.span = x.span /\ y.dimension = x.dimension}]
  <2>1. Groups(said) = {f[x] : x \in said} /\ DOMAIN f = said
    BY DEF Groups
  <2> HIDE DEF f
  <2>2. IsFiniteSet(said)
    BY <1>1 DEF Weighed
  <2>3. IsFiniteSet(Groups(said))
    BY ONLY <2>1, <2>2, ImageIsFinite
  <2>4. /\ Counted(Contradictions(said)) \in SUBSET Groups(said)
        /\ Blocking(Contradictions(said)) \in SUBSET Groups(said)
    BY DEF Counted, Blocking, Contradictions
  <2> QED BY <2>3, <2>4, FS_Subset, FS_CardinalityType
<1>5. SeverityWeight[HighestSeverity(given)] \in Nat /\ SeverityWeight[HighestSeverity(given)] >= 12000
  <2>1. e \in Refutations(AllEvidence(given)) /\ e.severity \in Material
    BY <1>2 DEF Refutations
  <2>2. e.severity \in Severities(Refutations(AllEvidence(given)))
    BY <2>1 DEF Severities
  <2>3. HighestSeverity(given) \in {"major", "critical"}
    BY <2>1, <2>2 DEF HighestSeverity, Material
  <2> QED BY <2>3 DEF SeverityWeight
<1>6. signals \in Nat /\ signals > 0
  <2> DEFINE S == {r \in DOMAIN given : given[r].signal}
  <2>1. IsFiniteSet(S)
    <3>1. IsFiniteSet(1..2) /\ S \in SUBSET (1..2)
      BY IntervalSize DEF TwoReviews
    <3> QED BY <3>1, FS_Subset
  <2>2. S # {}
    <3>1. PICK r \in 1..2 : e \in EvidenceIn(given[r])
      BY <1>2 DEF AllEvidence, TwoReviews, Refutations
    <3>2. e \in Refutations(EvidenceIn(given[r]))
      BY <1>2, <3>1 DEF Refutations
    <3>3. given[r].signal
      BY <3>2, EvidenceIsWeighed DEF TwoReviews, Reviewed
    <3> QED BY <3>1, <3>3 DEF TwoReviews
  <2> HIDE DEF S
  <2>3. Cardinality(S) \in Nat /\ Cardinality(S) # 0
    BY <2>1, <2>2, FS_CardinalityType, FS_EmptySet
  <2> QED BY <2>3 DEF S
<1>7. spread \in Nat
  <2> DEFINE f == [r \in 1..2 |-> given[r].confidence]
  <2>1. confidences = {f[r] : r \in 1..2} /\ DOMAIN f = 1..2 /\ confidences # {} /\ confidences \in SUBSET Int
    BY DEF TwoReviews, Reviewed
  <2> HIDE DEF f
  <2>2. IsFiniteSet(confidences)
    <3>1. IsFiniteSet(1..2)
      BY IntervalSize
    <3> HIDE DEF confidences
    <3> QED BY ONLY <2>1, <3>1, ImageIsFinite
  <2> HIDE DEF confidences
  <2>3. /\ Max(confidences) \in Int /\ Min(confidences) \in Int
        /\ Max(confidences) >= Min(confidences)
    BY <2>1, <2>2, GreatestIsMax, SmallestIsMin
  <2> QED BY <2>3
<1> DEFINE sum == (IF mismatch THEN 24000 ELSE 0) + 2 * spread + 13000 * counted
                  + 12000 * refuting + SeverityWeight[HighestSeverity(given)]
                  + (IF signals > 0 THEN 8000 ELSE 0)
<1>8. a.score = (risk * sum) \div 100 /\ a.blocking = Cardinality(Blocking(Contradictions(said)))
  BY DEF AssessReviewDisagreement
<1> HIDE DEF spread, counted, refuting, signals, mismatch, a
<1>9. sum \in Nat /\ sum >= 32000
  <2> DEFINE weight == SeverityWeight[HighestSeverity(given)]
  <2>1. weight \in Nat /\ weight >= 12000
    BY <1>5
  <2> HIDE DEF weight
  <2> QED BY <1>3, <1>4, <1>6, <1>7, <2>1 DEF weight
<1> HIDE DEF sum
<1>10. risk * sum \in Int /\ risk * sum >= 3200000
  <2>1. PICK more \in Nat : risk = 100 + more
    <3>1. risk - 100 \in Nat /\ risk = 100 + (risk - 100)
      OBVIOUS
    <3> QED BY <3>1
  <2>2. more * sum \in Nat
    BY <1>9
  <2>3. risk * sum = 100 * sum + more * sum
    BY <1>9, <2>1
  <2> QED BY <1>9, <2>2, <2>3
<1>11. (risk * sum) \div 100 \in Int /\ (risk * sum) \div 100 >= 32000
  BY <1>10
<1> QED BY <1>4, <1>8, <1>11 DEF a

\* A decision that nobody looks at again.
Final(d) == d.mode = "automatic_finalize" \/ d.bucket = "low"

\* Where a material refutation stands, the decision is looked at again.
LEMMA DisputeIsNotFinal ==
  ASSUME NEW given, TwoReviews(given), NEW kind, NEW priors, NEW risk \in Nat, risk >= 100,
         Refutations(AllEvidence(given)) # {}
  PROVE  ~Final(AdjudicateReviews(given, kind, priors, risk))
<1> DEFINE a == AssessReviewDisagreement(given, priors, risk)
           d == AdjudicateReviews(given, kind, priors, risk)
<1>1. a.score \in Int /\ a.score >= 32000 /\ a.blocking \in Nat
  BY DisputeIsScored
<1>2. a.mode # "automatic_finalize"
  <2>1. a.mode = ModeOf(a.preferred, a.blocking, a.score)
    BY DEF AssessReviewDisagreement
  <2> HIDE DEF a
  <2> QED BY <1>1, <2>1 DEF ModeOf
<1>3. d = DecisionFrom(a, kind, Cardinality(DOMAIN priors))
  BY DEF AdjudicateReviews
<1> HIDE DEF a
<1>4. PICK m : d.mode = m /\ d.bucket = BucketOf(a, m) /\ m \in {"human_review", a.mode}
  BY <1>3 DEF DecisionFrom
<1>5. d.mode # "automatic_finalize"
  BY <1>2, <1>4
<1>6. BucketOf(a, m) # "low"
  <2>1. CASE m = "human_review"
    BY <2>1 DEF BucketOf
  <2>2. CASE m # "human_review" /\ (a.score >= 52000 \/ a.blocking > 0)
    BY <1>1, <2>2 DEF BucketOf
  <2>3. CASE m # "human_review" /\ ~(a.score >= 52000 \/ a.blocking > 0)
    <3>1. a.blocking = 0 \/ ~(a.blocking = 0)
      OBVIOUS
    <3> QED BY <1>1, <2>3 DEF BucketOf
  <2> QED BY <2>1, <2>2, <2>3
<1> QED BY <1>4, <1>5, <1>6 DEF Final

\* Whoever is not asked of a human is chosen by the policy.
LEMMA OutcomeHasWinner ==
  ASSUME NEW given, NEW kind, NEW priors, NEW risk, NEW d,
         d = AdjudicateReviews(given, kind, priors, risk)
  PROVE  /\ d.human <=> d.winner = Nobody
         /\ d.winner # Nobody => d.winner = Preferred(given, priors)
         /\ d.preferred = Preferred(given, priors)
<1> DEFINE a == AssessReviewDisagreement(given, priors, risk)
<1>1. a.mode = ModeOf(a.preferred, a.blocking, a.score) /\ a.preferred = Preferred(given, priors)
  BY DEF AssessReviewDisagreement
<1>2. d = DecisionFrom(a, kind, Cardinality(DOMAIN priors))
  BY DEF AdjudicateReviews
<1> HIDE DEF a
<1>3. a.preferred = Nobody => a.mode = "human_review"
  BY <1>1 DEF ModeOf
<1>4. PICK m : /\ d.mode = m /\ m \in {"human_review", a.mode}
               /\ d.human = (m = "human_review") /\ d.preferred = a.preferred
               /\ d.winner = IF m = "human_review" THEN Nobody ELSE a.preferred
  BY <1>2 DEF DecisionFrom
<1> QED BY <1>1, <1>3, <1>4

-----------------------------------------------------------------------------
(* What a review is worth to a candidate.                                  *)

LEMMA PositionIsPlace ==
  ASSUME NEW n \in Nat, NEW report, RanksAll(report.preferences, n), NEW c \in 1..n
  PROVE  Position(report, c) \in 1..n
<1>1. DOMAIN report.preferences = 1..n /\ \E k \in 1..n : report.preferences[k] = c
  BY DEF RanksAll
<1> QED BY <1>1 DEF Position

LEMMA TimesIsInteger ==
  ASSUME NEW a \in Int, NEW b \in Int
  PROVE  /\ Times(a, b) \in Int
         /\ a >= 0 /\ b >= 0 => Times(a, b) >= 0
         /\ \A x \in Int : x * b <= a * b => Times(x, b) <= Times(a, b)
<1> DEFINE p == a * b
<1>1. p \in Int /\ One \in Nat /\ One > 0 /\ One = 10000
  BY DEF One
<1>2. Times(a, b) = p \div 10000
  BY DEF Times, One
<1>3. a >= 0 /\ b >= 0 => p >= 0
  OBVIOUS
<1>4. ASSUME NEW x \in Int, x * b <= a * b PROVE Times(x, b) <= Times(a, b)
  <2> DEFINE q == x * b
  <2>1. q \in Int /\ q <= p /\ Times(x, b) = q \div 10000
    BY <1>4 DEF Times, One
  <2> HIDE DEF p, q
  <2> QED BY <1>1, <1>2, <2>1
<1> HIDE DEF p
<1> QED BY <1>1, <1>2, <1>3, <1>4 DEF p

\* The further down a candidate is ranked, the fewer points it gets for it.
LEMMA RankCounts ==
  ASSUME NEW n \in Nat, NEW report, Reviewed(report), RanksAll(report.preferences, n), NEW c \in 1..n
  PROVE  /\ RankPoints(report, c) \in Int
         /\ \A w \in 1..n : Position(report, c) <= Position(report, w)
                              => RankPoints(report, w) <= RankPoints(report, c)
<1> DEFINE x(d) == Max({0, 15000 - 5000 * (Position(report, d) - 1)})
           y(d) == IF 0 >= 15000 - 5000 * (Position(report, d) - 1) THEN 0
                   ELSE 15000 - 5000 * (Position(report, d) - 1)
           b == report.confidence
<1>1. b \in Nat
  BY DEF Reviewed
<1>2. ASSUME NEW d \in 1..n
      PROVE  /\ x(d) = y(d) /\ x(d) \in Int /\ Position(report, d) \in 1..n
             /\ RankPoints(report, d) = Times(x(d), b)
             /\ x(d) \in {0, 5000, 10000, 15000}
  <2> DEFINE p == Position(report, d)
             z == 15000 - 5000 * (p - 1)
  <2>1. p \in 1..n
    BY PositionIsPlace
  <2> HIDE DEF p
  <2>2. z \in Int /\ 0 \in Int
    BY <2>1
  <2>3. Max({0, z}) = IF 0 >= z THEN 0 ELSE z
    <3> HIDE DEF z
    <3> QED BY <2>2, PairMaxMin
  <2>4. p = 1 \/ p = 2 \/ p = 3 \/ p >= 4
    BY <2>1
  <2>5. (IF 0 >= z THEN 0 ELSE z) \in {0, 5000, 10000, 15000}
    BY <2>1, <2>4
  <2>6. RankPoints(report, d) = Times(Max({0, z}), b)
    BY DEF RankPoints, p
  <2>7. x(d) = Max({0, z}) /\ y(d) = IF 0 >= z THEN 0 ELSE z
    BY DEF p
  <2>8. \A v \in {0, 5000, 10000, 15000} : v \in Int
    OBVIOUS
  <2> HIDE DEF x, y, z, b
  <2>9. p = Position(report, d)
    BY DEF p
  <2> QED BY <2>1, <2>3, <2>5, <2>6, <2>7, <2>8, <2>9
<1>3. ASSUME NEW w \in 1..n, Position(report, c) <= Position(report, w)
      PROVE  x(w) * b <= x(c) * b
  <2>1. x(w) <= x(c)
    <3>1. y(w) <= y(c)
      <4>1. Position(report, c) \in 1..n /\ Position(report, w) \in 1..n
        BY PositionIsPlace
      <4> QED BY <1>3, <4>1
    <3> HIDE DEF x, y
    <3> QED BY <1>2, <3>1
  <2>2. x(c) \in {0, 5000, 10000, 15000} /\ x(w) \in {0, 5000, 10000, 15000}
    BY <1>2
  <2> HIDE DEF x, y, b
  <2> QED BY <1>1, <2>1, <2>2
<1> HIDE DEF x, y, b
<1>4. RankPoints(report, c) \in Int
  BY <1>1, <1>2, TimesIsInteger
<1>5. ASSUME NEW w \in 1..n, Position(report, c) <= Position(report, w)
      PROVE  RankPoints(report, w) <= RankPoints(report, c)
  <2>1. x(w) \in Int /\ x(c) \in Int /\ x(w) * b <= x(c) * b
    BY <1>2, <1>3, <1>5
  <2> DEFINE u == x(w)
             v == x(c)
  <2>2. Times(u, b) <= Times(v, b)
    <3>1. u \in Int /\ v \in Int /\ b \in Int /\ u * b <= v * b
      BY <1>1, <2>1
    <3> HIDE DEF u, v
    <3> QED BY ONLY <3>1, TimesIsInteger
  <2> QED BY <1>2, <2>2
<1> QED BY <1>4, <1>5

\* What is said of a candidate.
About(report, c) == {x \in EvidenceIn(report) : x.candidate = c}
Supporting(said) == {x \in said : x.polarity = "supports"}

LEMMA EvidenceCounts ==
  ASSUME NEW report, Reviewed(report), NEW c
  PROVE  EvidencePoints(report, c) \in Int
<1> DEFINE S == About(report, c)
           f == [x \in S |-> IF x.polarity = "supports" THEN EvidenceWeight[x.severity]
                             ELSE -EvidenceWeight[x.severity]]
<1>1. IsFiniteSet(S) /\ \A x \in S : x.severity \in DOMAIN SeverityWeight
  BY EvidenceIsWeighed, FS_Subset DEF Weighed, About
<1>2. ASSUME NEW x \in S PROVE EvidenceWeight[x.severity] \in Int /\ -EvidenceWeight[x.severity] \in Int
  BY <1>1, Weights
<1>3. f \in [S -> Int]
  <2> HIDE DEF S
  <2> QED BY <1>2
<1>4. EvidencePoints(report, c) = SumFunction(f)
  BY DEF EvidencePoints, About
<1> HIDE DEF f, S
<1> QED BY ONLY <1>1, <1>3, <1>4, SumIsInteger

LEMMA IssuesCount ==
  ASSUME NEW report, Reviewed(report), NEW c
  PROVE  /\ IssuePoints(report, c) \in Nat
         /\ {i \in report.issues : i.candidate = c} = {} => IssuePoints(report, c) = 0
<1> DEFINE S == {i \in report.issues : i.candidate = c}
           f == [i \in S |-> Times(SeverityWeight[i.severity], 1500)]
<1>1. IsFiniteSet(S) /\ \A i \in S : i.severity \in DOMAIN SeverityWeight
  BY FS_Subset DEF Reviewed, Weighed
<1>2. ASSUME NEW i \in S PROVE Times(SeverityWeight[i.severity], 1500) \in Nat
  <2> DEFINE weight == SeverityWeight[i.severity]
  <2>1. weight \in Nat
    BY <1>1, Weights
  <2> HIDE DEF weight
  <2>2. Times(weight, 1500) \in Nat
    BY <2>1, TimesIsInteger
  <2> QED BY <2>2 DEF weight
<1>3. f \in [S -> Nat]
  <2> HIDE DEF S
  <2> QED BY <1>2
<1>4. IssuePoints(report, c) = SumFunction(f)
  BY DEF IssuePoints
<1> HIDE DEF f, S
<1>5. SumFunction(f) \in Nat
  BY ONLY <1>1, <1>3, SumIsNatural
<1>6. ASSUME S = {} PROVE SumFunction(f) = 0
  <2>1. f \in [{} -> Int]
    BY <1>3, <1>6
  <2> QED BY <2>1, SumOfNone
<1> QED BY <1>4, <1>5, <1>6 DEF S

\* Nobody refutes the candidate in the review.
Stands(report, c) == \A e \in Refutations(EvidenceIn(report)) : e.candidate # c

\* A review of translations: it weighs every minor support alike, and has at least as many
\* for a candidate it does not refute as it has for any other.
Balanced(report, n) ==
  \A c, w \in 1..n :
    /\ \A e \in About(report, w) :
         \/ e.polarity = "supports" /\ e.severity = "minor"
         \/ e \in Refutations(EvidenceIn(report))
    /\ Stands(report, c) =>
         /\ {i \in report.issues : i.candidate = c} = {}
         /\ Cardinality(Supporting(About(report, w))) <= Cardinality(About(report, c))

LEMMA RefutationCosts ==
  ASSUME NEW n \in Nat, NEW report, Reviewed(report), Balanced(report, n),
         NEW c \in 1..n, NEW w \in 1..n, Stands(report, c)
  PROVE  /\ EvidencePoints(report, w) <= EvidencePoints(report, c)
         /\ ~Stands(report, w) => EvidencePoints(report, w) + 4500 <= EvidencePoints(report, c)
<1> DEFINE Sw == About(report, w)
           Sc == About(report, c)
           P == Supporting(Sw)
           f(S) == [x \in S |-> IF x.polarity = "supports" THEN EvidenceWeight[x.severity]
                                ELSE -EvidenceWeight[x.severity]]
           fw == f(Sw)
           fc == f(Sc)
<1>1. ASSUME NEW d \in {c, w}
      PROVE  /\ IsFiniteSet(About(report, d)) /\ Cardinality(About(report, d)) \in Nat
             /\ \A x \in About(report, d) : x.severity \in DOMAIN SeverityWeight
             /\ f(About(report, d)) \in [About(report, d) -> Int]
             /\ EvidencePoints(report, d) = SumFunction(f(About(report, d)))
  <2> DEFINE S == About(report, d)
  <2>1. IsFiniteSet(S) /\ \A x \in S : x.severity \in DOMAIN SeverityWeight
    BY EvidenceIsWeighed, FS_Subset DEF Weighed, About
  <2>2. ASSUME NEW x \in S PROVE EvidenceWeight[x.severity] \in Int /\ -EvidenceWeight[x.severity] \in Int
    BY <2>1, Weights
  <2>3. f(S) \in [S -> Int]
    <3> HIDE DEF S
    <3> QED BY <2>2
  <2>4. EvidencePoints(report, d) = SumFunction(f(S))
    BY DEF EvidencePoints, About
  <2> QED BY <2>1, <2>3, <2>4, FS_CardinalityType
<1>2. \A x \in Sc : x.polarity = "supports" /\ x.severity = "minor"
  BY DEF Balanced, Stands, About
<1>3. \A x \in Sw : \/ x.polarity = "supports" /\ x.severity = "minor"
                    \/ x.polarity = "refutes" /\ x.severity \in Material
  BY DEF Balanced, Refutations
<1>4. Cardinality(P) <= Cardinality(Sc)
  BY DEF Balanced
<1>5. \A x \in Sc : fc[x] >= 2000
  <2>1. ASSUME NEW x \in Sc PROVE fc[x] >= 2000
    <3>1. EvidenceWeight[x.severity] = 2000
      BY <1>2 DEF EvidenceWeight
    <3> QED BY <1>2, <3>1
  <2> QED BY <2>1
<1>6. \A x \in P : fw[x] <= 2000
  <2>1. ASSUME NEW x \in P PROVE fw[x] <= 2000
    <3>1. x \in Sw /\ x.polarity = "supports" /\ x.severity = "minor"
      BY <1>3 DEF Supporting
    <3>2. EvidenceWeight[x.severity] = 2000
      BY <3>1 DEF EvidenceWeight
    <3> QED BY <3>1, <3>2
  <2> QED BY <2>1
<1>7. \A x \in Sw \ P : fw[x] <= -4500
  <2>1. ASSUME NEW x \in Sw \ P PROVE fw[x] <= -4500
    <3>1. x \in Sw /\ x.polarity # "supports" /\ x.severity \in Material
      BY <1>3 DEF Supporting
    <3>2. EvidenceWeight[x.severity] >= 4500 /\ EvidenceWeight[x.severity] \in Int
      BY <3>1 DEF EvidenceWeight, Material
    <3>3. fw[x] = -EvidenceWeight[x.severity]
      BY <3>1
    <3> DEFINE weight == EvidenceWeight[x.severity]
    <3> HIDE DEF weight, fw
    <3> QED BY <3>2, <3>3 DEF weight
  <2> QED BY <2>1
<1>8. ~Stands(report, w) => Sw \ P # {}
  <2>1. ASSUME ~Stands(report, w) PROVE Sw \ P # {}
    <3>1. PICK x \in Refutations(EvidenceIn(report)) : x.candidate = w
      BY <2>1 DEF Stands
    <3>2. x \in Sw /\ x.polarity # "supports"
      BY <3>1 DEF Refutations, About
    <3> QED BY <3>2 DEF Supporting
  <2> QED BY <2>1
<1>9. /\ IsFiniteSet(Sw) /\ IsFiniteSet(Sc) /\ fw \in [Sw -> Int] /\ fc \in [Sc -> Int]
      /\ EvidencePoints(report, w) = SumFunction(fw) /\ EvidencePoints(report, c) = SumFunction(fc)
  BY <1>1
<1>10. P \in SUBSET Sw
  BY DEF Supporting
<1> HIDE DEF fw, fc, f, P, Sw, Sc
<1>11. 2000 \in Int /\ -4500 \in Int
  OBVIOUS
<1>12. SumFunction(fc) >= 2000 * Cardinality(Sc)
  BY ONLY <1>5, <1>9, <1>11, SumAtLeast
<1>13. SumFunction(fw) <= 2000 * Cardinality(P) + (-4500) * Cardinality(Sw \ P)
  BY ONLY <1>6, <1>7, <1>9, <1>10, <1>11, SumAtMost
<1>14. SumFunction(fw) \in Int /\ SumFunction(fc) \in Int
  BY <1>9, SumIsInteger
<1>15. /\ Cardinality(P) \in Nat /\ Cardinality(Sc) \in Nat /\ Cardinality(Sw \ P) \in Nat
       /\ Sw \ P # {} => Cardinality(Sw \ P) >= 1
  <2>1. IsFiniteSet(P) /\ IsFiniteSet(Sw \ P)
    BY <1>9, <1>10, FS_Subset
  <2>2. Sw \ P # {} => Cardinality(Sw \ P) # 0
    BY <2>1, FS_EmptySet
  <2>3. Cardinality(P) \in Nat /\ Cardinality(Sc) \in Nat /\ Cardinality(Sw \ P) \in Nat
    BY <1>9, <2>1, FS_CardinalityType
  <2> QED BY <2>2, <2>3
<1> QED BY <1>4, <1>8, <1>9, <1>12, <1>13, <1>14, <1>15

-----------------------------------------------------------------------------
(* The preferred candidate.                                                *)

\* Two reviews that rank every candidate.
Ranking2(given, n) == TwoReviews(given) /\ \A r \in 1..2 : RanksAll(given[r].preferences, n)

Worth(report, c) == RankPoints(report, c) + EvidencePoints(report, c) - IssuePoints(report, c)

LEMMA WorthIsInteger ==
  ASSUME NEW n \in Nat, NEW report, Reviewed(report), RanksAll(report.preferences, n), NEW c \in 1..n
  PROVE  Worth(report, c) \in Int
<1>1. RankPoints(report, c) \in Int
  BY RankCounts
<1>2. EvidencePoints(report, c) \in Int /\ IssuePoints(report, c) \in Int
  BY EvidenceCounts, IssuesCount
<1> QED BY <1>1, <1>2 DEF Worth

\* What history adds for a candidate.
Boost(priors, c) == Within(0, 3500, priors[c])

LEMMA BoostIsBounded ==
  ASSUME NEW priors, NEW c, priors[c] \in Int
  PROVE  Boost(priors, c) \in Nat /\ Boost(priors, c) <= 3500
<1> DEFINE low == 0
           high == 3500
           x == priors[c]
<1>1. low \in Int /\ high \in Int /\ low <= high /\ x \in Int
  OBVIOUS
<1>2. Boost(priors, c) = Within(low, high, x)
  BY DEF Boost
<1> HIDE DEF low, high, x
<1>3. Boost(priors, c) \in low..high
  BY ONLY <1>1, <1>2, WithinIsBetween
<1>4. Boost(priors, c) \in Int /\ low <= Boost(priors, c) /\ Boost(priors, c) <= high
  BY ONLY <1>1, <1>3
<1> QED BY ONLY <1>4 DEF low, high

LEMMA PointsAdd ==
  ASSUME NEW n \in Nat, NEW given, Ranking2(given, n), NEW priors, priors \in [1..n -> Int], NEW c \in 1..n
  PROVE  /\ Boost(priors, c) \in Nat /\ Boost(priors, c) <= 3500
         /\ Worth(given[1], c) \in Int /\ Worth(given[2], c) \in Int
         /\ Points(given, priors, c) = Boost(priors, c) + Worth(given[1], c) + Worth(given[2], c)
<1> DEFINE f == [r \in DOMAIN given |->
                   RankPoints(given[r], c) + EvidencePoints(given[r], c) - IssuePoints(given[r], c)]
<1>1. Worth(given[1], c) \in Int /\ Worth(given[2], c) \in Int
  <2>1. \A r \in 1..2 : Reviewed(given[r]) /\ RanksAll(given[r].preferences, n)
    BY DEF Ranking2, TwoReviews
  <2>2. 1 \in 1..2 /\ 2 \in 1..2
    OBVIOUS
  <2> QED BY ONLY n \in Nat, c \in 1..n, <2>1, <2>2, WorthIsInteger
<1>2. f = [r \in 1..2 |-> Worth(given[r], c)]
  BY DEF Worth, Ranking2, TwoReviews
<1>3. Points(given, priors, c) = Boost(priors, c) + SumFunction(f)
  BY DEF Points, Boost
<1>4. priors[c] \in Int
  OBVIOUS
<1> HIDE DEF f
<1>5. f \in [1..2 -> Int] /\ f[1] = Worth(given[1], c) /\ f[2] = Worth(given[2], c)
  BY <1>1, <1>2
<1>6. SumFunction(f) = f[1] + f[2]
  BY ONLY <1>5, SumOfTwo
<1>7. Boost(priors, c) \in Nat /\ Boost(priors, c) <= 3500
  BY ONLY <1>4, BoostIsBounded
<1>8. Points(given, priors, c) = Boost(priors, c) + (Worth(given[1], c) + Worth(given[2], c))
  BY ONLY <1>3, <1>5, <1>6
<1>9. Boost(priors, c) + (Worth(given[1], c) + Worth(given[2], c))
        = Boost(priors, c) + Worth(given[1], c) + Worth(given[2], c)
  BY ONLY <1>1, <1>7
<1> QED BY ONLY <1>1, <1>7, <1>8, <1>9

LEMMA PreferredLeads ==
  ASSUME NEW n \in Nat, n > 0, NEW given, Ranking2(given, n), NEW priors, priors \in [1..n -> Int]
  PROVE  /\ Preferred(given, priors) \in 1..n
         /\ \A d \in 1..n : Points(given, priors, d) <= Points(given, priors, Preferred(given, priors))
<1> DEFINE S == 1..n
           points == [c \in DOMAIN priors |-> Points(given, priors, c)]
           R == {p \in S \X S : points[p[1]] > points[p[2]] \/ (points[p[1]] = points[p[2]] /\ p[1] < p[2])}
<1>1. IsFiniteSet(S) /\ S # {}
  <2>1. IsFiniteSet(S)
    BY ONLY n \in Nat, IntervalSize
  <2>2. 1 \in S
    OBVIOUS
  <2> QED BY <2>1, <2>2
<1>2. DOMAIN points = S /\ \A c \in S : points[c] = Points(given, priors, c)
  OBVIOUS
<1>3. \A c \in S : points[c] \in Int /\ c \in Int
  <2>1. ASSUME NEW c \in S PROVE Points(given, priors, c) \in Int
    <3>1. /\ Boost(priors, c) \in Nat /\ Boost(priors, c) <= 3500
          /\ Worth(given[1], c) \in Int /\ Worth(given[2], c) \in Int
          /\ Points(given, priors, c) = Boost(priors, c) + Worth(given[1], c) + Worth(given[2], c)
      BY ONLY n \in Nat, Ranking2(given, n), priors \in [1..n -> Int], c \in 1..n, PointsAdd
    <3> QED BY ONLY <3>1
  <2> QED BY <1>2, <2>1
<1>4. points # <<>>
  BY <1>1, <1>2
<1>5. Preferred(given, priors) = CHOOSE c \in DOMAIN points : \A d \in DOMAIN points \ {c} :
                points[c] > points[d] \/ (points[c] = points[d] /\ c < d)
  BY <1>4 DEF Preferred
<1>6. \A x, y \in S : <<x, y>> \in R <=> (points[x] > points[y] \/ (points[x] = points[y] /\ x < y))
  <2> HIDE DEF points, S
  <2> QED OBVIOUS
<1> HIDE DEF points, S, R
<1>7. StrictOrder(R, S)
  BY ONLY <1>3, <1>6 DEF StrictOrder
<1>8. \E x \in S : \A y \in S \ {x} : <<x, y>> \in R
  BY ONLY <1>1, <1>7, FirstExists
<1>9. \E c \in DOMAIN points : \A d \in DOMAIN points \ {c} :
         points[c] > points[d] \/ (points[c] = points[d] /\ c < d)
  BY ONLY <1>2, <1>6, <1>8
<1> DEFINE best == Preferred(given, priors)
<1>10. /\ best \in DOMAIN points
       /\ \A d \in DOMAIN points \ {best} : points[best] > points[d] \/ (points[best] = points[d] /\ best < d)
  BY ONLY <1>5, <1>9
<1> HIDE DEF best
<1>11. ASSUME NEW d \in S PROVE points[d] <= points[best]
  BY ONLY <1>2, <1>3, <1>10, <1>11
<1>12. best \in S /\ \A d \in S : Points(given, priors, d) <= Points(given, priors, best)
  BY <1>2, <1>10, <1>11
<1> QED BY <1>12 DEF best, S

\* A refuted candidate that no review ranks before one that stands has fewer points.
LEMMA RefutedTrails ==
  ASSUME NEW n \in Nat, NEW given, Ranking2(given, n), \A r \in 1..2 : Balanced(given[r], n),
         NEW priors, priors \in [1..n -> Int],
         NEW c \in 1..n, NEW w \in 1..n, NEW t \in 1..2, ~Stands(given[t], w),
         \A r \in 1..2 : Stands(given[r], c) /\ ~(Position(given[r], w) < Position(given[r], c))
  PROVE  Points(given, priors, w) < Points(given, priors, c)
<1>1. ASSUME NEW r \in 1..2
      PROVE  /\ Worth(given[r], w) <= Worth(given[r], c)
             /\ r = t => Worth(given[r], w) + 4500 <= Worth(given[r], c)
  <2> DEFINE v == given[r]
  <2>1. Reviewed(v) /\ RanksAll(v.preferences, n) /\ Balanced(v, n) /\ Stands(v, c)
    BY DEF Ranking2, TwoReviews
  <2>2. ~(Position(v, w) < Position(v, c)) /\ (r = t => ~Stands(v, w))
    OBVIOUS
  <2> HIDE DEF v
  <2>3. Position(v, c) <= Position(v, w)
    <3>1. Position(v, c) \in 1..n /\ Position(v, w) \in 1..n
      BY <2>1, PositionIsPlace
    <3> QED BY <2>2, <3>1
  <2>4. RankPoints(v, w) <= RankPoints(v, c) /\ RankPoints(v, c) \in Int /\ RankPoints(v, w) \in Int
    BY <2>1, <2>3, RankCounts
  <2>5. /\ EvidencePoints(v, w) <= EvidencePoints(v, c)
        /\ r = t => EvidencePoints(v, w) + 4500 <= EvidencePoints(v, c)
        /\ EvidencePoints(v, c) \in Int /\ EvidencePoints(v, w) \in Int
    BY <2>1, <2>2, RefutationCosts, EvidenceCounts
  <2>6. IssuePoints(v, c) = 0 /\ IssuePoints(v, w) \in Nat
    <3>1. {i \in v.issues : i.candidate = c} = {}
      BY <2>1 DEF Balanced
    <3> QED BY <2>1, <3>1, IssuesCount
  <2>7. /\ Worth(v, w) <= Worth(v, c)
        /\ r = t => Worth(v, w) + 4500 <= Worth(v, c)
    BY ONLY <2>4, <2>5, <2>6 DEF Worth
  <2> QED BY <2>7 DEF v
<1>2. /\ Boost(priors, c) \in Nat /\ Boost(priors, c) <= 3500
      /\ Worth(given[1], c) \in Int /\ Worth(given[2], c) \in Int
      /\ Points(given, priors, c) = Boost(priors, c) + Worth(given[1], c) + Worth(given[2], c)
  BY ONLY n \in Nat, Ranking2(given, n), priors \in [1..n -> Int], c \in 1..n, PointsAdd
<1>3. /\ Boost(priors, w) \in Nat /\ Boost(priors, w) <= 3500
      /\ Worth(given[1], w) \in Int /\ Worth(given[2], w) \in Int
      /\ Points(given, priors, w) = Boost(priors, w) + Worth(given[1], w) + Worth(given[2], w)
  BY ONLY n \in Nat, Ranking2(given, n), priors \in [1..n -> Int], w \in 1..n, PointsAdd
<1>4. /\ Worth(given[1], w) <= Worth(given[1], c) /\ Worth(given[2], w) <= Worth(given[2], c)
      /\ t = 1 => Worth(given[1], w) + 4500 <= Worth(given[1], c)
      /\ t = 2 => Worth(given[2], w) + 4500 <= Worth(given[2], c)
  BY <1>1
<1>5. t = 1 \/ t = 2
  OBVIOUS
<1> QED BY ONLY <1>2, <1>3, <1>4, <1>5

-----------------------------------------------------------------------------
(* What a reviewer computes (Reviewers).                                   *)

LEMMA WithinIsInteger ==
  ASSUME NEW low \in Int, NEW high \in Int, low <= high, NEW x \in Int
  PROVE  Within(low, high, x) \in Int /\ low <= Within(low, high, x) /\ Within(low, high, x) <= high
<1>1. Within(low, high, x) \in low..high
  BY WithinIsBetween
<1> QED BY <1>1

\* What concerns a role of what is said.
Concerning(role, said) == {x \in said : x.dimension \in Concerns(role)}

\* A draft is a review that ranks every candidate and signals what it refutes.
LEMMA DraftIsReviewed ==
  ASSUME NEW n \in Nat, n > 0, NEW score, score \in [1..n -> Int], NEW role,
         NEW found, Weighed(found), NEW issues, Weighed(issues),
         \A e \in Refutations(found) : e.dimension \in HardDimensions \cup {"terminology"}
  PROVE  /\ Reviewed(Draft(role, score, found, issues))
         /\ RanksAll(Draft(role, score, found, issues).preferences, n)
         /\ Draft(role, score, found, issues).evidence = Concerning(role, found)
         /\ Draft(role, score, found, issues).issues = Concerning(role, issues)
<1> DEFINE d == Draft(role, score, found, issues)
           low == 3500
           high == 9800
           top == score[RankedBy(score)[1]]
           best == Within(low, high, top)
<1>1. RanksAll(RankedBy(score), n)
  BY ONLY n \in Nat, score \in [1..n -> Int], ScoresRank
<1>2. top \in Int
  <2>1. RankedBy(score)[1] \in 1..n
    BY <1>1 DEF RanksAll
  <2> QED BY <2>1
<1>3. d.preferences = RankedBy(score) /\ d.confidence = ((best + 50) \div 100) * 100
  BY DEF Draft
<1>4. /\ d.evidence = Concerning(role, found) /\ d.issues = Concerning(role, issues)
      /\ d.signal = \E e \in Refutations(found) : e.dimension \in HardDimensions \cup {"terminology"}
  BY DEF Draft, Concerning
<1>5. low \in Int /\ high \in Int /\ low <= high /\ low = 3500
  OBVIOUS
<1> HIDE DEF d, low, high, top
<1>6. best \in Int /\ best >= low
  BY ONLY <1>2, <1>5, WithinIsInteger
<1> HIDE DEF best
<1>7. d.confidence \in Nat
  BY <1>3, <1>5, <1>6
<1>8. Weighed(d.evidence) /\ Weighed(d.issues)
  BY <1>4, FS_Subset DEF Weighed, Concerning
<1>9. Refutations(d.evidence) # {} => d.signal
  BY <1>4 DEF Refutations, Concerning
<1> QED BY <1>1, <1>3, <1>4, <1>7, <1>8, <1>9 DEF Reviewed, d

LEMMA WordsAreFinite ==
  ASSUME NEW text \in Seq(STRING)
  PROVE  /\ IsFiniteSet(Tokens(text)) /\ Cardinality(Tokens(text)) \in Nat
         /\ IsFiniteSet(Vocabulary(text)) /\ IsFiniteSet(Entities(text)) /\ IsFiniteSet(Numbers(text))
<1>1. IsFiniteSet(DOMAIN text)
  <2>1. DOMAIN text = 1..Len(text) /\ Len(text) \in Nat
    OBVIOUS
  <2> QED BY <2>1, IntervalSize
<1>2. IsFiniteSet(ToSet(text))
  <2> DEFINE f == text
  <2>1. ToSet(text) = {text[k] : k \in DOMAIN text}
    BY DEF ToSet
  <2>2. IsFiniteSet({text[k] : k \in DOMAIN text})
    BY <1>1, ImageIsFinite
  <2> QED BY <2>1, <2>2
<1>3. IsFiniteSet(Tokens(text))
  BY <1>1, FS_Subset DEF Tokens
<1>4. IsFiniteSet(Vocabulary(text)) /\ IsFiniteSet(Entities(text)) /\ IsFiniteSet(Numbers(text))
  BY <1>2, FS_Subset DEF Vocabulary, Entities, Numbers
<1> QED BY <1>3, <1>4, FS_CardinalityType

LEMMA SizeIsPositive ==
  ASSUME NEW S, IsFiniteSet(S), S # {}
  PROVE  Cardinality(S) \in Nat /\ Cardinality(S) > 0
<1>1. Cardinality(S) \in Nat /\ Cardinality(S) # 0
  BY FS_CardinalityType, FS_EmptySet
<1> QED BY <1>1

LEMMA MeanIsInteger ==
  ASSUME NEW S, IsFiniteSet(S), NEW f, NEW none
  PROVE  /\ f \in [S -> Int] /\ none \in Int => Mean(f, none) \in Int
         /\ f \in [S -> Nat] /\ none \in Nat => Mean(f, none) \in Nat
<1>1. DOMAIN f = S /\ S # {} => Mean(f, none) = SumFunction(f) \div Cardinality(S)
  BY DEF Mean
<1>2. DOMAIN f = S /\ S = {} => Mean(f, none) = none
  BY DEF Mean
<1>3. S # {} => Cardinality(S) \in Nat /\ Cardinality(S) > 0
  BY SizeIsPositive
<1>4. f \in [S -> Int] => SumFunction(f) \in Int
  BY SumIsInteger
<1>5. f \in [S -> Nat] => SumFunction(f) \in Nat
  BY SumIsNatural
<1> QED BY <1>1, <1>2, <1>3, <1>4, <1>5

LEMMA PreservedIsInteger ==
  ASSUME NEW wanted, IsFiniteSet(wanted), NEW given
  PROVE  Preserved(wanted, given) \in Int
<1>1. wanted # {} => Cardinality(wanted) \in Nat /\ Cardinality(wanted) > 0
  BY SizeIsPositive
<1>2. Cardinality(wanted \cap given) \in Nat
  BY FS_Subset, FS_CardinalityType
<1> QED BY <1>1, <1>2 DEF Preserved, One

LEMMA GlossaryScoreIsInteger ==
  ASSUME NEW src, NEW target
  PROVE  GlossaryScore(src, target) \in Int
<1>1. IsFiniteSet(DOMAIN Glossary)
  <2>1. DOMAIN Glossary = 1..Len(Glossary) /\ Len(Glossary) \in Nat
    BY ReviewAssumption
  <2> QED BY <2>1, IntervalSize
<1> DEFINE A == Applying(src)
           K == {k \in A : Glossary[k][2] \in ToSet(target)}
<1>2. IsFiniteSet(A)
  BY <1>1, FS_Subset DEF Applying
<1>3. A # {} => Cardinality(A) \in Nat /\ Cardinality(A) > 0
  BY <1>2, SizeIsPositive
<1>4. Cardinality(K) \in Nat
  BY <1>2, FS_Subset, FS_CardinalityType
<1>5. GlossaryScore(src, target) = IF A = {} THEN One ELSE (One * Cardinality(K)) \div Cardinality(A)
  BY DEF GlossaryScore
<1> HIDE DEF A, K
<1> QED BY <1>3, <1>4, <1>5 DEF One

LEMMA FluencyIsInteger ==
  ASSUME NEW target
  PROVE  Fluency(target) \in Int
BY DEF Fluency

LEMMA MaxOfThree ==
  ASSUME NEW a \in Int, NEW b \in Int, NEW c \in Int
  PROVE  Max({a, b, c}) \in Int
<1>1. IsFiniteSet({a, b, c})
  <2>1. IsFiniteSet({a})
    BY FS_Singleton
  <2>2. IsFiniteSet({a} \cup {b})
    BY <2>1, FS_AddElement
  <2>3. IsFiniteSet(({a} \cup {b}) \cup {c})
    BY <2>2, FS_AddElement
  <2>4. ({a} \cup {b}) \cup {c} = {a, b, c}
    OBVIOUS
  <2> QED BY <2>3, <2>4
<1> DEFINE S == {a, b, c}
<1>2. S \in SUBSET Int /\ S # {} /\ IsFiniteSet(S)
  BY <1>1
<1> HIDE DEF S
<1>3. Max(S) \in Int
  BY ONLY <1>2, GreatestIsMax
<1> QED BY <1>3 DEF S

LEMMA AdditionPenaltyIsInteger ==
  ASSUME NEW src \in Seq(STRING), NEW target \in Seq(STRING), NEW P, IsFiniteSet(P),
         NEW peers, peers \in [P -> Nat]
  PROVE  AdditionPenalty(src, target, peers) \in Int
<1> DEFINE long == Cardinality(Tokens(target))
           short == Cardinality(Tokens(src))
           usual == Mean([k \in DOMAIN peers |-> One * peers[k]], One * long)
           zero == 0
           x == (One * long) \div short - 18000
           y == (One * One * long) \div usual - 15000
           z == (One * (long - Min(Range(peers)) - 2)) \div 4
           OverSource == IF Tokens(src) = {} THEN 0 ELSE Within(zero, One, x)
           OverPeers == IF usual = 0 THEN 0 ELSE Within(zero, One, y)
           OverShortest == IF DOMAIN peers = {} THEN 0 ELSE Within(zero, One, z)
<1>1. AdditionPenalty(src, target, peers) = Max({OverSource, OverPeers, OverShortest})
  BY DEF AdditionPenalty
<1>2. zero \in Int /\ One \in Int /\ zero <= One /\ zero = 0 /\ One = 10000
  BY DEF One
<1> HIDE DEF zero
<1>3. long \in Nat /\ short \in Nat /\ (Tokens(src) # {} => short > 0)
  BY WordsAreFinite, SizeIsPositive
<1>4. usual \in Nat
  <2> DEFINE f == [k \in DOMAIN peers |-> One * peers[k]]
  <2>1. f \in [P -> Nat]
    BY <1>2
  <2>2. One * long \in Nat
    <3> HIDE DEF long
    <3> QED BY <1>2, <1>3
  <2> HIDE DEF f, long
  <2>3. Mean(f, One * long) \in Nat
    BY <2>1, <2>2, MeanIsInteger
  <2> QED BY <2>3 DEF f
<1>5. DOMAIN peers # {} => Min(Range(peers)) \in Int
  <2>1. ASSUME DOMAIN peers # {} PROVE Min(Range(peers)) \in Int
    <3>1. Range(peers) = {peers[k] : k \in DOMAIN peers} /\ DOMAIN peers = P
      BY DEF Range
    <3>2. IsFiniteSet({peers[k] : k \in P})
      BY <3>1, ImageIsFinite
    <3>3. Range(peers) \in SUBSET Int /\ Range(peers) # {} /\ IsFiniteSet(Range(peers))
      BY <2>1, <3>1, <3>2
    <3> QED BY ONLY <3>3, SmallestIsMin
  <2> QED BY <2>1
<1> DEFINE least == Min(Range(peers))
<1> HIDE DEF long, short, usual, least
<1>6. /\ Tokens(src) # {} => x \in Int
      /\ usual # 0 => y \in Int
      /\ DOMAIN peers # {} => z \in Int
  <2>1. Tokens(src) # {} => x \in Int
    BY <1>2, <1>3
  <2>2. usual # 0 => y \in Int
    BY <1>2, <1>3, <1>4
  <2>3. DOMAIN peers # {} => z \in Int
    BY <1>2, <1>3, <1>5 DEF least
  <2> QED BY <2>1, <2>2, <2>3
<1> HIDE DEF x, y, z
<1>7. OverSource \in Int /\ OverPeers \in Int /\ OverShortest \in Int
  <2>1. \A v \in Int : Within(zero, One, v) \in Int
    BY ONLY <1>2, WithinIsInteger
  <2>2. OverSource \in Int
    <3>1. CASE Tokens(src) = {}
      <4>1. OverSource = 0
        BY <3>1
      <4> QED BY <4>1
    <3>2. CASE ~(Tokens(src) = {})
      <4>1. OverSource = Within(zero, One, x) /\ x \in Int
        BY <1>6, <3>2
      <4> HIDE DEF OverSource
      <4> QED BY <2>1, <4>1
    <3> QED BY <3>1, <3>2
  <2>3. OverPeers \in Int
    <3>1. CASE usual = 0
      <4>1. OverPeers = 0
        BY <3>1
      <4> QED BY <4>1
    <3>2. CASE ~(usual = 0)
      <4>1. OverPeers = Within(zero, One, y) /\ y \in Int
        BY <1>6, <3>2
      <4> HIDE DEF OverPeers
      <4> QED BY <2>1, <4>1
    <3> QED BY <3>1, <3>2
  <2>4. OverShortest \in Int
    <3>1. CASE DOMAIN peers = {}
      <4>1. OverShortest = 0
        BY <3>1
      <4> QED BY <4>1
    <3>2. CASE ~(DOMAIN peers = {})
      <4>1. OverShortest = Within(zero, One, z) /\ z \in Int
        BY <1>6, <3>2
      <4> HIDE DEF OverShortest
      <4> QED BY <2>1, <4>1
    <3> QED BY <3>1, <3>2
  <2> QED BY <2>2, <2>3, <2>4
<1> HIDE DEF OverSource, OverPeers, OverShortest
<1> QED BY <1>1, <1>7, MaxOfThree

-----------------------------------------------------------------------------
(* The review of translations.                                             *)

LEMMA RoundIsTyped ==
  ASSUME round \in ReviewRounds
  PROVE  /\ Len(round.candidates) \in Nat /\ Candidate = 1..Len(round.candidates)
         /\ \A c \in Candidate : SegmentsOf(c) \in Seq(PieceType)
         /\ round.stage \in {"transcript", "translation"}
<1>1. IsRound(round)
  BY ReviewAssumption
<1>2. PICK history : round.candidates \in CandidateSeq(history)
  BY <1>1 DEF IsRound
<1> DEFINE n == Len(round.candidates)
<1>3. n \in Nat /\ DOMAIN round.candidates = 1..n
  BY <1>2 DEF CandidateSeq
<1>4. ASSUME NEW c \in 1..n PROVE round.candidates[c].segments \in Seq(PieceType)
  <2> DEFINE T == [variant : STRING, history : history, segments : Seq(PieceType)]
             all == round.candidates
  <2>1. all \in Seq(T) /\ c \in 1..Len(all)
    BY <1>2 DEF CandidateSeq
  <2> HIDE DEF T, all
  <2>2. all[c] \in T
    BY <2>1
  <2>3. round.candidates[c] \in [variant : STRING, history : history, segments : Seq(PieceType)]
    BY <2>2 DEF T, all
  <2> QED BY <2>3
<1>5. round.stage \in {"transcript", "translation"}
  BY <1>1 DEF IsRound
<1> HIDE DEF n
<1> QED BY <1>3, <1>4, <1>5 DEF Candidate, SegmentsOf, n

LEMMA TranslationRoundIsTyped ==
  ASSUME round \in ReviewRounds, round.stage = "translation"
  PROVE  /\ Len(round.source) \in Nat /\ Spans = 1..Len(round.source) /\ IsFiniteSet(Spans)
         /\ \A i \in Spans : round.source[i].text \in Seq(STRING)
         /\ round.clean \in Nat
         /\ \A i, j \in Spans : round.source[i].span = round.source[j].span => i = j
<1>1. IsRound(round)
  BY ReviewAssumption
<1>2. /\ round.source \in Seq(PieceType) /\ round.clean \in Nat
      /\ \A i, j \in DOMAIN round.source : round.source[i].span = round.source[j].span => i = j
  BY <1>1 DEF IsRound
<1>3. Len(round.source) \in Nat /\ Spans = 1..Len(round.source)
  BY <1>2 DEF Spans
<1>4. ASSUME NEW i \in Spans PROVE round.source[i].text \in Seq(STRING)
  <2>1. round.source[i] \in PieceType
    BY <1>2, <1>3
  <2> QED BY <2>1 DEF PieceType
<1>5. IsFiniteSet(Spans)
  BY <1>3, IntervalSize
<1> QED BY <1>2, <1>3, <1>4, <1>5 DEF Spans

LEMMA PieceIsTyped ==
  ASSUME round \in ReviewRounds, NEW c \in Candidate
  PROVE  /\ IsFiniteSet(DOMAIN SegmentsOf(c)) /\ DOMAIN SegmentsOf(c) \in SUBSET Int
         /\ \A k \in DOMAIN SegmentsOf(c) : SegmentsOf(c)[k].text \in Seq(STRING)
<1> DEFINE segments == SegmentsOf(c)
<1>1. segments \in Seq(PieceType)
  BY RoundIsTyped
<1> HIDE DEF segments
<1>2. DOMAIN segments = 1..Len(segments) /\ Len(segments) \in Nat
  BY <1>1
<1>3. IsFiniteSet(1..Len(segments))
  BY <1>2, IntervalSize
<1>4. ASSUME NEW k \in DOMAIN segments PROVE segments[k].text \in Seq(STRING)
  <2>1. segments[k] \in PieceType
    BY <1>1, <1>2
  <2> QED BY <2>1 DEF PieceType
<1>5. 1..Len(segments) \in SUBSET Int
  BY <1>2
<1> QED BY <1>2, <1>3, <1>4, <1>5 DEF segments

LEMMA TranslatedIsText ==
  ASSUME round \in ReviewRounds, NEW c \in Candidate, NEW i
  PROVE  Translated(c, i) \in Seq(STRING)
<1> DEFINE own == {k \in DOMAIN SegmentsOf(c) : SpanFor(SegmentsOf(c)[k]) = i}
<1>1. own \in SUBSET DOMAIN SegmentsOf(c)
  OBVIOUS
<1>2. Translated(c, i) = IF own = {} THEN <<>> ELSE SegmentsOf(c)[Max(own)].text
  BY DEF Translated
<1> HIDE DEF own
<1>3. IsFiniteSet(own) /\ own \in SUBSET Int
  BY <1>1, PieceIsTyped, FS_Subset
<1>4. CASE own = {}
  <2>1. <<>> \in Seq(STRING)
    OBVIOUS
  <2> QED BY <1>2, <1>4, <2>1
<1>5. CASE own # {}
  <2>1. Max(own) \in own
    BY ONLY <1>3, <1>5, GreatestIsMax
  <2>2. SegmentsOf(c)[Max(own)].text \in Seq(STRING)
    BY <1>1, <2>1, PieceIsTyped
  <2> QED BY <1>2, <1>5, <2>2
<1> QED BY <1>4, <1>5

LEMMA PeersAreCounted ==
  ASSUME round \in ReviewRounds, NEW i, NEW text
  PROVE  \E P : IsFiniteSet(P) /\ PeerLengths(i, text) \in [P -> Nat]
<1> DEFINE Peer(s) == s.span = round.source[i].span /\ s.text # <<>> /\ s.text # text
           f == [c \in Candidate |-> {c} \X (DOMAIN SegmentsOf(c))]
           all == UNION {f[c] : c \in Candidate}
           P == {p \in all : Peer(SegmentsOf(p[1])[p[2]])}
<1>1. PeerLengths(i, text) = [p \in P |-> Cardinality(Tokens(SegmentsOf(p[1])[p[2]].text))]
  BY DEF PeerLengths
<1>2. IsFiniteSet(Candidate)
  BY RoundIsTyped, IntervalSize
<1>3. ASSUME NEW c \in Candidate PROVE IsFiniteSet(f[c])
  <2>1. IsFiniteSet({c}) /\ IsFiniteSet(DOMAIN SegmentsOf(c))
    BY PieceIsTyped, FS_Singleton
  <2>2. IsFiniteSet({c} \X (DOMAIN SegmentsOf(c)))
    BY <2>1, FS_Product
  <2> QED BY <2>2
<1>4. \A p \in all : p[1] \in Candidate /\ p[2] \in DOMAIN SegmentsOf(p[1])
  OBVIOUS
<1>5. P \in SUBSET all
  OBVIOUS
<1> HIDE DEF f
<1>6. IsFiniteSet(all)
  BY <1>2, <1>3, UnionIsFinite
<1> HIDE DEF all, P
<1>7. IsFiniteSet(P)
  BY <1>5, <1>6, FS_Subset
<1>8. ASSUME NEW p \in P PROVE Cardinality(Tokens(SegmentsOf(p[1])[p[2]].text)) \in Nat
  <2> DEFINE c == p[1]
             k == p[2]
  <2>1. c \in Candidate /\ k \in DOMAIN SegmentsOf(c)
    BY <1>4, <1>5
  <2>2. SegmentsOf(c)[k].text \in Seq(STRING)
    BY <2>1, PieceIsTyped
  <2> QED BY <2>2, WordsAreFinite
<1>9. PeerLengths(i, text) \in [P -> Nat]
  BY <1>1, <1>8
<1> QED BY <1>7, <1>9

LEMMA AverageIsInteger ==
  ASSUME NEW S, IsFiniteSet(S), NEW f, f \in [S -> Int], NEW same \in Int, NEW none \in Int, NEW clean \in Nat
  PROVE  (IF S = {} /\ clean = 0 THEN none
          ELSE (SumFunction(f) + same * clean) \div (Cardinality(S) + clean)) \in Int
<1>1. SumFunction(f) \in Int
  BY SumIsInteger
<1>2. same * clean \in Int
  OBVIOUS
<1>3. Cardinality(S) \in Nat /\ (S # {} => Cardinality(S) > 0)
  BY SizeIsPositive, FS_CardinalityType
<1>4. ASSUME ~(S = {} /\ clean = 0)
      PROVE  (SumFunction(f) + same * clean) \div (Cardinality(S) + clean) \in Int
  <2> DEFINE p == same * clean
             size == Cardinality(S) + clean
  <2>1. size \in Int /\ size > 0 /\ p \in Int
    BY <1>2, <1>3, <1>4
  <2> HIDE DEF p, size
  <2>2. (SumFunction(f) + p) \div size \in Int
    BY <1>1, <2>1
  <2> QED BY <2>2 DEF p, size
<1> QED BY <1>4

LEMMA TranslationScoreIsInteger ==
  ASSUME round \in ReviewRounds, round.stage = "translation", NEW role,
         NEW targets, targets \in [Spans -> Seq(STRING)], NEW penalties, penalties \in [Spans -> Int]
  PROVE  TranslationScore(role, targets, penalties) \in Int
<1> DEFINE done == {i \in Spans : targets[i] # <<>>}
           Average(numbers, same, none) ==
             IF done = {} /\ round.clean = 0 THEN none
             ELSE (SumFunction(numbers) + same * round.clean) \div (Cardinality(done) + round.clean)
           Text(i) == round.source[i].text
           coverage == IF Spans = {} /\ round.clean = 0 THEN 0
                       ELSE (One * (Cardinality(done) + round.clean)) \div (Len(round.source) + round.clean)
           entities == [i \in done |-> Preserved(Entities(Text(i)), Entities(targets[i]))]
           numbers == [i \in done |-> Preserved(Numbers(Text(i)), Numbers(targets[i]))]
           terms == [i \in done |-> GlossaryScore(Text(i), targets[i])]
           adds == [i \in done |-> penalties[i]]
           reads == [i \in done |-> Fluency(targets[i])]
           entity == Average(entities, One, One)
           number == Average(numbers, One, One)
           term == Average(terms, One, One)
           added == Average(adds, 0, 0)
           fluency == Average(reads, 7500, 5000)
           low == 0
           high == 9900
           sum == (45 * coverage + 20 * entity + 20 * number + 15 * term - 20 * added) \div 100
           faithful == Within(low, One, sum)
           bonus == IF role = "style_reviewer" THEN fluency \div 10 ELSE 0
           rest == faithful + bonus - (One - coverage) \div 20
<1>1. TranslationScore(role, targets, penalties) = Within(low, high, rest)
  BY DEF TranslationScore
<1>2. /\ low \in Int /\ high \in Int /\ low <= high /\ low <= One /\ One \in Int
      /\ 7500 \in Int /\ 5000 \in Int /\ 0 \in Int
  BY DEF One
<1> HIDE DEF low, high
<1>3. /\ Len(round.source) \in Nat /\ Spans = 1..Len(round.source) /\ IsFiniteSet(Spans)
      /\ \A i \in Spans : Text(i) \in Seq(STRING)
      /\ round.clean \in Nat
  BY TranslationRoundIsTyped
<1>4. IsFiniteSet(done) /\ done \in SUBSET Spans /\ Cardinality(done) \in Nat
  BY <1>3, FS_Subset, FS_CardinalityType
<1>5. \A i \in done : Text(i) \in Seq(STRING) /\ targets[i] \in Seq(STRING) /\ penalties[i] \in Int
  BY <1>3, <1>4
<1> HIDE DEF done
<1>6. /\ entities \in [done -> Int] /\ numbers \in [done -> Int] /\ terms \in [done -> Int]
      /\ adds \in [done -> Int] /\ reads \in [done -> Int]
  <2>1. ASSUME NEW i \in done
        PROVE  /\ Preserved(Entities(Text(i)), Entities(targets[i])) \in Int
               /\ Preserved(Numbers(Text(i)), Numbers(targets[i])) \in Int
               /\ GlossaryScore(Text(i), targets[i]) \in Int
               /\ penalties[i] \in Int /\ Fluency(targets[i]) \in Int
    <3>1. IsFiniteSet(Entities(Text(i))) /\ IsFiniteSet(Numbers(Text(i)))
      BY <1>5, WordsAreFinite
    <3> QED BY <1>5, <3>1, PreservedIsInteger, GlossaryScoreIsInteger, FluencyIsInteger
  <2> HIDE DEF Text
  <2> QED BY <2>1
<1> HIDE DEF entities, numbers, terms, adds, reads
<1>7. /\ entity \in Int /\ number \in Int /\ term \in Int /\ added \in Int /\ fluency \in Int
  <2> DEFINE clean == round.clean
             usual == 7500
             unknown == 5000
             zero == 0
  <2>1. clean \in Nat /\ One \in Int /\ usual \in Int /\ unknown \in Int /\ zero \in Int
    BY <1>2, <1>3
  <2> HIDE DEF clean, usual, unknown, zero
  <2>2. ASSUME NEW f, f \in [done -> Int], NEW same \in Int, NEW none \in Int
        PROVE  (IF done = {} /\ clean = 0 THEN none
                ELSE (SumFunction(f) + same * clean) \div (Cardinality(done) + clean)) \in Int
    BY ONLY <1>4, <2>1, <2>2, AverageIsInteger
  <2>3. entity \in Int
    BY <1>6, <2>1, <2>2 DEF clean
  <2>4. number \in Int
    BY <1>6, <2>1, <2>2 DEF clean
  <2>5. term \in Int
    BY <1>6, <2>1, <2>2 DEF clean
  <2>6. Average(adds, zero, zero) \in Int
    BY <1>6, <2>1, <2>2 DEF clean
  <2>7. Average(reads, usual, unknown) \in Int
    BY <1>6, <2>1, <2>2 DEF clean
  <2>8. added = Average(adds, zero, zero) /\ fluency = Average(reads, usual, unknown)
    BY DEF zero, usual, unknown
  <2> HIDE DEF Average
  <2> QED BY <2>3, <2>4, <2>5, <2>6, <2>7, <2>8
<1>8. coverage \in Int
  <2>1. ASSUME ~(Spans = {} /\ round.clean = 0) PROVE Len(round.source) + round.clean > 0
    <3>1. Len(round.source) = 0 => Spans = {}
      BY <1>3
    <3> QED BY <1>3, <2>1, <3>1
  <2> DEFINE size == Len(round.source) + round.clean
             some == One * (Cardinality(done) + round.clean)
  <2>2. size \in Int /\ some \in Int
    BY <1>2, <1>3, <1>4 DEF One
  <2> HIDE DEF size, some
  <2>3. ASSUME ~(Spans = {} /\ round.clean = 0) PROVE some \div size \in Int
    <3>1. size > 0
      BY <2>1, <2>3 DEF size
    <3> QED BY <2>2, <3>1
  <2> QED BY <2>3 DEF size, some
<1> HIDE DEF coverage, entity, number, term, added, fluency
<1>9. sum \in Int
  BY <1>7, <1>8
<1> HIDE DEF sum
<1>10. faithful \in Int
  BY ONLY <1>2, <1>9, WithinIsInteger
<1>11. bonus \in Int
  BY <1>7
<1> HIDE DEF faithful, bonus
<1>12. rest \in Int
  BY <1>7, <1>8, <1>10, <1>11 DEF One
<1> HIDE DEF rest
<1>13. Within(low, high, rest) \in Int
  BY ONLY <1>2, <1>12, WithinIsInteger
<1> QED BY <1>1, <1>13

\* Something found of a span of a candidate.
Found(e, span, c) ==
  /\ e.span = span /\ e.candidate = c
  /\ \/ e.polarity = "supports" /\ e.severity = "minor" /\ e.dimension \in {"coverage", "entity"}
     \/ e.polarity = "refutes" /\ e.severity \in Material /\ e.dimension \in HardDimensions \cup {"terminology"}

LEMMA RefuteFinds ==
  ASSUME NEW span, NEW c, NEW dimension \in HardDimensions \cup {"terminology"}, NEW value,
         NEW severity \in Material
  PROVE  /\ IsFiniteSet(Refute(span, c, dimension, value, severity))
         /\ Refute(span, c, dimension, value, severity) # {}
         /\ \A e \in Refute(span, c, dimension, value, severity) :
              Found(e, span, c) /\ e.polarity = "refutes" /\ e.dimension = dimension
<1> DEFINE e == Evidence(span, c, dimension, "refutes", value, severity)
<1>1. Refute(span, c, dimension, value, severity) = {e}
  BY DEF Refute
<1>2. Found(e, span, c) /\ e.polarity = "refutes" /\ e.dimension = dimension
  BY DEF Found, Evidence
<1> HIDE DEF e
<1> QED BY <1>1, <1>2, FS_Singleton

LEMMA SupportFinds ==
  ASSUME NEW span, NEW c, NEW dimension \in {"coverage", "entity"}, NEW value
  PROVE  \E e : /\ Support(span, c, dimension, value) = {e}
                /\ Found(e, span, c) /\ e.polarity = "supports" /\ e.dimension = dimension
<1> DEFINE e == Evidence(span, c, dimension, "supports", value, "minor")
<1>1. Support(span, c, dimension, value) = {e}
  BY DEF Support
<1>2. Found(e, span, c) /\ e.polarity = "supports" /\ e.dimension = dimension
  BY DEF Found, Evidence
<1> QED BY <1>1, <1>2

\* What is found of a span: one support at most of each kind, something of its coverage and,
\* if it has names and is not omitted, of them.
Sound(F, span, c, named) ==
  /\ IsFiniteSet(F) /\ \A e \in F : Found(e, span, c)
  /\ \A e, f \in Supporting(F) : e.dimension = f.dimension => e = f
  /\ \A e \in Supporting(F) : e.dimension = "entity" => named
  /\ \E e \in F : e.dimension = "coverage"
  /\ named => \/ \E e \in F : e.dimension = "entity"
              \/ \E e \in F : e.dimension = "coverage" /\ e.polarity = "refutes"

LEMMA FindingsAreSound ==
  ASSUME NEW c, NEW i, NEW target, NEW added
  PROVE  Sound(TranslationFindings(c, i, target, added), round.source[i].span, c,
               Entities(round.source[i].text) # {})
<1> DEFINE span == round.source[i].span
           src == round.source[i].text
           names == ValueOf(Entities(target))
           Entity == IF Entities(src) = {} THEN {}
                     ELSE IF Entities(src) \subseteq Entities(target) THEN Support(span, c, "entity", names)
                     ELSE Refute(span, c, "entity", names, "major")
           Number == IF Numbers(src) \subseteq Numbers(target) THEN {}
                     ELSE Refute(span, c, "number_date_unit", ValueOf(Numbers(target)), "critical")
           Term == IF GlossaryScore(src, target) = One THEN {}
                   ELSE Refute(span, c, "terminology", <<Glossary[Min(Applying(src))][2]>>, "major")
           Added == IF added < 2000 THEN {}
                    ELSE Refute(span, c, "meaning", <<"added_content">>, "major")
           Cover == Support(span, c, "coverage", <<"preserved">>)
           Omitted == Refute(span, c, "coverage", <<"omitted">>, "major")
           F == TranslationFindings(c, i, target, added)
           named == Entities(src) # {}
           Refuting(S) == \A e \in S : Found(e, span, c) /\ e.polarity = "refutes"
<1>1. F = IF target = <<>> THEN Omitted ELSE Cover \cup Entity \cup Number \cup Term \cup Added
  BY DEF TranslationFindings
<1>2. /\ IsFiniteSet(Omitted) /\ Omitted # {} /\ Refuting(Omitted)
      /\ \A e \in Omitted : e.dimension = "coverage"
  <2>1. "coverage" \in HardDimensions \cup {"terminology"} /\ "major" \in Material
    BY DEF HardDimensions, Material
  <2> QED BY <2>1, RefuteFinds
<1>3. IsFiniteSet({})
  BY FS_EmptySet
<1>4. IsFiniteSet(Number) /\ Refuting(Number)
  <2>1. "number_date_unit" \in HardDimensions \cup {"terminology"} /\ "critical" \in Material
    BY DEF HardDimensions, Material
  <2> QED BY <1>3, <2>1, RefuteFinds
<1>5. IsFiniteSet(Term) /\ Refuting(Term)
  <2>1. "terminology" \in HardDimensions \cup {"terminology"} /\ "major" \in Material
    BY DEF HardDimensions, Material
  <2> QED BY <1>3, <2>1, RefuteFinds
<1>6. IsFiniteSet(Added) /\ Refuting(Added)
  <2>1. "meaning" \in HardDimensions \cup {"terminology"} /\ "major" \in Material
    BY DEF HardDimensions, Material
  <2> QED BY <1>3, <2>1, RefuteFinds
<1>7. PICK s : Cover = {s} /\ Found(s, span, c) /\ s.polarity = "supports" /\ s.dimension = "coverage"
  <2>1. "coverage" \in {"coverage", "entity"}
    OBVIOUS
  <2> QED BY <2>1, SupportFinds
<1>8. \/ Entity = {} /\ ~named
      \/ named /\ \E t : Entity = {t} /\ Found(t, span, c) /\ t.polarity = "supports" /\ t.dimension = "entity"
      \/ /\ named /\ IsFiniteSet(Entity) /\ Entity # {} /\ Refuting(Entity)
         /\ \A e \in Entity : e.dimension = "entity"
  <2>1. CASE Entities(src) = {}
    BY <2>1
  <2>2. CASE Entities(src) # {} /\ Entities(src) \subseteq Entities(target)
    <3>1. "entity" \in {"coverage", "entity"} /\ Entity = Support(span, c, "entity", names)
      BY <2>2
    <3>2. \E t : Entity = {t} /\ Found(t, span, c) /\ t.polarity = "supports" /\ t.dimension = "entity"
      <4> HIDE DEF Entity
      <4> QED BY <3>1, SupportFinds
    <3> QED BY <2>2, <3>2
  <2>3. CASE Entities(src) # {} /\ ~(Entities(src) \subseteq Entities(target))
    <3>1. /\ "entity" \in HardDimensions \cup {"terminology"} /\ "major" \in Material
          /\ Entity = Refute(span, c, "entity", names, "major")
      BY <2>3 DEF HardDimensions, Material
    <3>2. /\ IsFiniteSet(Entity) /\ Entity # {} /\ Refuting(Entity)
          /\ \A e \in Entity : e.dimension = "entity"
      <4> HIDE DEF Entity
      <4> QED BY <3>1, RefuteFinds
    <3> QED BY <2>3, <3>2
  <2> QED BY <2>1, <2>2, <2>3
<1> HIDE DEF F, Omitted, Number, Term, Added, Cover, Entity, named, span
<1>9. \A S : Refuting(S) => \A e \in S : Found(e, span, c) /\ e.polarity # "supports" /\ e \in Refutations(S)
  BY DEF Found, Refutations
<1>10. CASE target = <<>>
  <2>1. F = Omitted
    BY <1>1, <1>10
  <2>2. Supporting(F) = {}
    BY <1>2, <1>9, <2>1 DEF Supporting
  <2>3. \E e \in F : e.dimension = "coverage" /\ e.polarity = "refutes"
    BY <1>2, <2>1
  <2> QED BY <1>2, <2>1, <2>2, <2>3 DEF Sound, F, named, span
<1>11. CASE target # <<>>
  <2>1. F = Cover \cup Entity \cup Number \cup Term \cup Added
    BY <1>1, <1>11
  <2>2. IsFiniteSet(F)
    <3>1. IsFiniteSet(Cover) /\ IsFiniteSet(Entity)
      BY <1>3, <1>7, <1>8, FS_Singleton
    <3>2. IsFiniteSet(Cover \cup Entity)
      BY <3>1, FS_Union
    <3>3. IsFiniteSet((Cover \cup Entity) \cup Number)
      BY <1>4, <3>2, FS_Union
    <3>4. IsFiniteSet(((Cover \cup Entity) \cup Number) \cup Term)
      BY <1>5, <3>3, FS_Union
    <3>5. IsFiniteSet((((Cover \cup Entity) \cup Number) \cup Term) \cup Added)
      BY <1>6, <3>4, FS_Union
    <3> QED BY <2>1, <3>5
  <2>3. \A e \in F : Found(e, span, c)
    BY <1>4, <1>5, <1>6, <1>7, <1>8, <2>1
  <2>4. Supporting(F) \subseteq Cover \cup Supporting(Entity)
    BY <1>4, <1>5, <1>6, <1>9, <2>1 DEF Supporting
  <2>5. \A e, f \in Supporting(F) : e.dimension = f.dimension => e = f
    <3>1. \A e \in Cover : e = s /\ e.dimension = "coverage"
      BY <1>7
    <3>2. \A e, f \in Supporting(Entity) : e = f /\ e.dimension = "entity"
      BY <1>8, <1>9 DEF Supporting
    <3> QED BY <2>4, <3>1, <3>2
  <2>6. \A e \in Supporting(F) : e.dimension = "entity" => named
    <3>1. \A e \in Cover : e.dimension = "coverage"
      BY <1>7
    <3>2. Supporting(Entity) # {} => named
      BY <1>8 DEF Supporting
    <3> QED BY <2>4, <3>1, <3>2
  <2>7. /\ \E e \in F : e.dimension = "coverage"
        /\ named => \E e \in F : e.dimension = "entity"
    BY <1>7, <1>8, <2>1
  <2>8. Sound(F, span, c, named)
    BY <2>2, <2>3, <2>5, <2>6, <2>7 DEF Sound
  <2> QED BY <2>8 DEF F, named, span
<1> QED BY <1>10, <1>11

\* Everything that is found: F has what is found of span i of candidate c.
AllFound(F) == UNION {F[p] : p \in Candidate \X Spans}
AllSound(F) ==
  \A c \in Candidate, i \in Spans :
    Sound(F[<<c, i>>], round.source[i].span, c, Entities(round.source[i].text) # {})
IssuesIn(found) == {IssueOf(e) : e \in {f \in found : f.dimension = "coverage" /\ f.polarity = "refutes"}}

LEMMA TranslationReviewIsDraft ==
  ASSUME round \in ReviewRounds, round.stage = "translation", NEW role
  PROVE  \E score, F : /\ score \in [Candidate -> Int] /\ AllSound(F)
                       /\ TranslationReview(role) = Draft(role, score, AllFound(F), IssuesIn(AllFound(F)))
<1> DEFINE targets == [c \in Candidate |-> [i \in Spans |-> Translated(c, i)]]
           Penalty(i, target) == AdditionPenalty(round.source[i].text, target, PeerLengths(i, target))
           penalties == [c \in Candidate |-> [i \in Spans |-> Penalty(i, targets[c][i])]]
           F == [p \in Candidate \X Spans |->
                   TranslationFindings(p[1], p[2], targets[p[1]][p[2]], penalties[p[1]][p[2]])]
           score == [c \in Candidate |-> TranslationScore(role, targets[c], penalties[c])]
           found == UNION {TranslationFindings(c, i, targets[c][i], penalties[c][i]) : c \in Candidate, i \in Spans}
<1>1. TranslationReview(role) = Draft(role, score, found, IssuesIn(found))
  BY DEF TranslationReview, IssuesIn
<1>2. \A c \in Candidate, i \in Spans :
         F[<<c, i>>] = TranslationFindings(c, i, targets[c][i], penalties[c][i])
  <2> HIDE DEF targets, penalties
  <2> QED OBVIOUS
<1>3. found = AllFound(F)
  <2> DEFINE L == {F[p] : p \in Candidate \X Spans}
             R == {TranslationFindings(c, i, targets[c][i], penalties[c][i]) : c \in Candidate, i \in Spans}
  <2> HIDE DEF targets, penalties, F
  <2>1. \A x \in L : x \in R
    BY <1>2
  <2>2. \A x \in R : x \in L
    <3>1. ASSUME NEW c \in Candidate, NEW i \in Spans
          PROVE  TranslationFindings(c, i, targets[c][i], penalties[c][i]) \in L
      <4>1. <<c, i>> \in Candidate \X Spans
        OBVIOUS
      <4>2. F[<<c, i>>] \in L
        BY <4>1
      <4> QED BY <1>2, <4>2
    <3> HIDE DEF L
    <3> QED BY <3>1
  <2>3. L = R
    <3> HIDE DEF L, R
    <3> QED BY <2>1, <2>2
  <2> QED BY <2>3 DEF AllFound
<1>4. AllSound(F)
  <2>1. ASSUME NEW c \in Candidate, NEW i \in Spans
        PROVE  Sound(F[<<c, i>>], round.source[i].span, c, Entities(round.source[i].text) # {})
    <3> DEFINE target == targets[c][i]
               added == penalties[c][i]
    <3>1. F[<<c, i>>] = TranslationFindings(c, i, target, added)
      BY <1>2
    <3> HIDE DEF target, added, F
    <3> QED BY ONLY <3>1, FindingsAreSound
  <2> HIDE DEF F
  <2> QED BY <2>1 DEF AllSound
<1>5. ASSUME NEW c \in Candidate
      PROVE  targets[c] \in [Spans -> Seq(STRING)] /\ penalties[c] \in [Spans -> Int]
  <2>1. ASSUME NEW i \in Spans PROVE Translated(c, i) \in Seq(STRING)
    BY TranslatedIsText
  <2>2. targets[c] \in [Spans -> Seq(STRING)]
    BY <2>1
  <2> HIDE DEF targets
  <2>3. ASSUME NEW i \in Spans PROVE Penalty(i, targets[c][i]) \in Int
    <3> DEFINE target == targets[c][i]
               src == round.source[i].text
               peers == PeerLengths(i, target)
    <3>1. target \in Seq(STRING) /\ src \in Seq(STRING)
      BY <2>2, TranslationRoundIsTyped
    <3>2. PICK P : IsFiniteSet(P) /\ peers \in [P -> Nat]
      BY PeersAreCounted
    <3> HIDE DEF target, src, peers
    <3>3. AdditionPenalty(src, target, peers) \in Int
      BY ONLY <3>1, <3>2, AdditionPenaltyIsInteger
    <3> QED BY <3>3 DEF target, src, peers
  <2>4. penalties[c] = [i \in Spans |-> Penalty(i, targets[c][i])]
    <3> HIDE DEF Penalty
    <3> QED OBVIOUS
  <2> HIDE DEF penalties, Penalty
  <2>5. penalties[c] \in [Spans -> Int]
    BY <2>3, <2>4
  <2> QED BY <2>2, <2>5
<1> HIDE DEF targets, penalties
<1>6. score \in [Candidate -> Int]
  BY <1>5, TranslationScoreIsInteger
<1> HIDE DEF score, F, found
<1> QED BY <1>1, <1>3, <1>4, <1>6

LEMMA FoundIsWeighed ==
  ASSUME round \in ReviewRounds, round.stage = "translation", NEW F, AllSound(F)
  PROVE  /\ Weighed(AllFound(F)) /\ Weighed(IssuesIn(AllFound(F)))
         /\ \A e \in Refutations(AllFound(F)) : e.dimension \in HardDimensions \cup {"terminology"}
         /\ \A e \in AllFound(F) : \E c \in Candidate, i \in Spans :
               e \in F[<<c, i>>] /\ Found(e, round.source[i].span, c)
<1> DEFINE found == AllFound(F)
           S == Candidate \X Spans
           issues == IssuesIn(found)
<1>1. IsFiniteSet(S)
  <2>1. IsFiniteSet(Candidate) /\ IsFiniteSet(Spans)
    BY RoundIsTyped, TranslationRoundIsTyped, IntervalSize
  <2> QED BY <2>1, FS_Product
<1>2. \A p \in S : IsFiniteSet(F[p])
  BY DEF AllSound, Sound
<1>3. found = UNION {F[p] : p \in S}
  BY DEF AllFound
<1>4. \A e \in found : \E c \in Candidate, i \in Spans : e \in F[<<c, i>>] /\ Found(e, round.source[i].span, c)
  <2>1. ASSUME NEW e \in found PROVE \E c \in Candidate, i \in Spans : e \in F[<<c, i>>]
    <3>1. PICK p \in S : e \in F[p]
      BY <1>3
    <3>2. PICK c \in Candidate, i \in Spans : p = <<c, i>>
      OBVIOUS
    <3> QED BY <3>1, <3>2
  <2>2. ASSUME NEW c \in Candidate, NEW i \in Spans, NEW e \in F[<<c, i>>]
        PROVE  Found(e, round.source[i].span, c)
    BY DEF AllSound, Sound
  <2> HIDE DEF found
  <2> QED BY <2>1, <2>2
<1> HIDE DEF found
<1>5. IsFiniteSet(found)
  <2> HIDE DEF S
  <2> QED BY <1>1, <1>2, <1>3, UnionIsFinite
<1>6. \A e \in found : /\ e.severity \in DOMAIN SeverityWeight
                       /\ e.polarity = "refutes" => e.dimension \in HardDimensions \cup {"terminology"}
  <2>1. ASSUME NEW e \in found
        PROVE  /\ e.severity \in DOMAIN SeverityWeight
               /\ e.polarity = "refutes" => e.dimension \in HardDimensions \cup {"terminology"}
    <3>1. PICK c \in Candidate, i \in Spans : Found(e, round.source[i].span, c)
      BY <1>4
    <3>2. e.severity \in {"minor", "major", "critical"}
      BY <3>1 DEF Found, Material
    <3>3. e.polarity = "refutes" => e.dimension \in HardDimensions \cup {"terminology"}
      BY <3>1 DEF Found
    <3> QED BY <3>2, <3>3 DEF SeverityWeight
  <2> QED BY <2>1
<1>7. Weighed(issues)
  <2> DEFINE Q == {f \in found : f.dimension = "coverage" /\ f.polarity = "refutes"}
             g == [e \in Q |-> IssueOf(e)]
  <2>1. IsFiniteSet(Q)
    BY <1>5, FS_Subset
  <2>2. issues = {g[e] : e \in Q} /\ DOMAIN g = Q
    BY DEF IssuesIn
  <2>3. \A e \in Q : g[e].severity \in DOMAIN SeverityWeight
    BY <1>6 DEF IssueOf
  <2> HIDE DEF g, Q, issues
  <2>4. IsFiniteSet({g[e] : e \in Q})
    BY ONLY <2>1, <2>2, ImageIsFinite
  <2> QED BY <2>2, <2>3, <2>4 DEF Weighed
<1>8. Weighed(found) /\ \A e \in Refutations(found) : e.dimension \in HardDimensions \cup {"terminology"}
  BY <1>5, <1>6 DEF Weighed, Refutations
<1> QED BY <1>4, <1>7, <1>8 DEF found

\* What a review of translations says of the candidates can be compared.
LEMMA SupportsAreMatched ==
  ASSUME round \in ReviewRounds, round.stage = "translation", NEW F, AllSound(F), NEW D, "coverage" \in D,
         NEW c \in Candidate, NEW w \in Candidate,
         NEW said, said = {e \in AllFound(F) : e.dimension \in D},
         \A e \in Refutations(said) : e.candidate # c
  PROVE  Cardinality({e \in said : e.candidate = w /\ e.polarity = "supports"})
           <= Cardinality({e \in said : e.candidate = c})
<1> DEFINE A == {e \in said : e.candidate = w /\ e.polarity = "supports"}
           B == {e \in said : e.candidate = c}
           f == [e \in A |-> CHOOSE x \in B : x.span = e.span /\ x.dimension = e.dimension]
<1>1. \A e \in said : \E d \in Candidate, i \in Spans : e \in F[<<d, i>>] /\ Found(e, round.source[i].span, d)
  BY FoundIsWeighed
<1>2. \A d \in Candidate, i \in Spans : \A e \in F[<<d, i>>] :
         Found(e, round.source[i].span, d) /\ (e.dimension \in D => e \in said)
  <2>1. ASSUME NEW d \in Candidate, NEW i \in Spans, NEW e \in F[<<d, i>>] PROVE e \in AllFound(F)
    BY DEF AllFound
  <2> QED BY <2>1 DEF AllSound, Sound
<1>3. ASSUME NEW e \in A
      PROVE  \E i \in Spans : e \in Supporting(F[<<w, i>>]) /\ e.span = round.source[i].span
  <2>1. PICK d \in Candidate, i \in Spans : e \in F[<<d, i>>] /\ Found(e, round.source[i].span, d)
    BY <1>1
  <2> QED BY <2>1 DEF Found, Supporting
<1>4. ASSUME NEW e \in A PROVE \E x \in B : x.span = e.span /\ x.dimension = e.dimension
  <2>1. PICK i \in Spans : e \in Supporting(F[<<w, i>>]) /\ e.span = round.source[i].span
    BY <1>3
  <2> DEFINE G == F[<<c, i>>]
             H == F[<<w, i>>]
             named == Entities(round.source[i].text) # {}
  <2>2. Sound(G, round.source[i].span, c, named) /\ Sound(H, round.source[i].span, w, named)
    BY DEF AllSound
  <2>3. e.dimension \in D
    OBVIOUS
  <2>4. \A x \in G : Found(x, round.source[i].span, c) /\ (x.dimension \in D => x \in said)
    BY <1>2
  <2>5. e \in Supporting(H) /\ e.dimension \in {"coverage", "entity"}
    <3>1. Found(e, round.source[i].span, w) /\ e.polarity = "supports"
      BY <2>1, <2>2 DEF Sound, Supporting
    <3> QED BY <2>1, <3>1 DEF Found
  <2> HIDE DEF G, H, named
  <2>6. \E x \in G : x.dimension = e.dimension
    <3>1. CASE e.dimension = "coverage"
      BY <2>2, <3>1 DEF Sound
    <3>2. CASE e.dimension = "entity"
      <4>1. named
        BY <2>2, <2>5, <3>2 DEF Sound
      <4>2. ASSUME NEW x \in G, x.dimension = "coverage", x.polarity = "refutes" PROVE FALSE
        <5>1. x \in said /\ x.candidate = c /\ x \in Refutations(said)
          BY <2>4, <4>2 DEF Found, Refutations
        <5> QED BY <5>1
      <4> QED BY <2>2, <3>2, <4>1, <4>2 DEF Sound
    <3> QED BY <2>5, <3>1, <3>2
  <2>7. PICK x \in G : x.dimension = e.dimension
    BY <2>6
  <2>8. x \in said /\ x.candidate = c /\ x.span = e.span
    BY <2>1, <2>3, <2>4, <2>7 DEF Found
  <2> QED BY <2>7, <2>8
<1>5. ASSUME NEW e \in A, NEW g \in A, e.span = g.span, e.dimension = g.dimension PROVE e = g
  <2>1. PICK i \in Spans : e \in Supporting(F[<<w, i>>]) /\ e.span = round.source[i].span
    BY <1>3
  <2>2. PICK j \in Spans : g \in Supporting(F[<<w, j>>]) /\ g.span = round.source[j].span
    BY <1>3
  <2>3. i = j
    BY <1>5, <2>1, <2>2, TranslationRoundIsTyped
  <2>4. \A x, y \in Supporting(F[<<w, i>>]) : x.dimension = y.dimension => x = y
    BY DEF AllSound, Sound
  <2> QED BY <1>5, <2>1, <2>2, <2>3, <2>4
<1>6. \A e \in A : f[e] \in B /\ f[e].span = e.span /\ f[e].dimension = e.dimension
  <2> HIDE DEF A, B
  <2> QED BY <1>4
<1>7. IsFiniteSet(B)
  <2>1. IsFiniteSet(AllFound(F))
    BY FoundIsWeighed DEF Weighed
  <2>2. B \in SUBSET AllFound(F)
    OBVIOUS
  <2> QED BY <2>1, <2>2, FS_Subset
<1>8. f \in [A -> B]
  <2> HIDE DEF A, B
  <2> QED BY <1>6
<1> HIDE DEF f, A, B
<1>9. f \in Injection(A, B)
  <2>1. \A a, b \in A : f[a] = f[b] => a = b
    BY <1>5, <1>6
  <2> QED BY <1>8, <2>1 DEF Injection, IsInjective
<1>10. Cardinality(A) <= Cardinality(B)
  BY ONLY <1>7, <1>9, FS_Injection
<1> QED BY <1>10 DEF A, B

LEMMA CoverageConcernsAll ==
  ASSUME NEW role
  PROVE  "coverage" \in Concerns(role)
BY DEF Concerns

LEMMA TranslationIsReviewed ==
  ASSUME round \in ReviewRounds, round.stage = "translation", round.candidates # <<>>, NEW role,
         NEW n, n = Len(round.candidates), NEW v, v = TranslationReview(role)
  PROVE  /\ Reviewed(v) /\ RanksAll(v.preferences, n)
         /\ Spans = {} => v.evidence = {}
         /\ Spans # {} => Balanced(v, n)
<1>1. PICK score, F : /\ score \in [Candidate -> Int] /\ AllSound(F)
                      /\ v = Draft(role, score, AllFound(F), IssuesIn(AllFound(F)))
  BY TranslationReviewIsDraft
<1>2. n \in Nat /\ n > 0 /\ Candidate = 1..n
  <2>1. n \in Nat /\ Candidate = 1..n
    BY RoundIsTyped
  <2>2. n # 0
    <3>1. \E history : round.candidates \in CandidateSeq(history)
      BY ReviewAssumption DEF IsRound
    <3>2. PICK S : round.candidates \in Seq(S)
      BY <3>1 DEF CandidateSeq
    <3> QED BY <3>2
  <2> QED BY <2>1, <2>2
<1> DEFINE found == AllFound(F)
           D == Concerns(role)
<1>3. /\ Weighed(found) /\ Weighed(IssuesIn(found))
      /\ \A e \in Refutations(found) : e.dimension \in HardDimensions \cup {"terminology"}
      /\ \A e \in found : \E c \in Candidate, i \in Spans :
               e \in F[<<c, i>>] /\ Found(e, round.source[i].span, c)
  BY <1>1, FoundIsWeighed
<1> HIDE DEF found
<1>4. /\ Reviewed(v) /\ RanksAll(v.preferences, n)
      /\ v.evidence = {e \in found : e.dimension \in D}
      /\ v.issues = {i \in IssuesIn(found) : i.dimension \in D}
  <2>1. score \in [1..n -> Int] /\ v = Draft(role, score, found, IssuesIn(found))
    BY <1>1, <1>2 DEF found
  <2> DEFINE issues == IssuesIn(found)
             d == Draft(role, score, found, issues)
  <2>2. Weighed(issues) /\ v = d
    BY <1>3, <2>1
  <2> HIDE DEF issues
  <2>3. /\ Reviewed(d) /\ RanksAll(d.preferences, n)
        /\ d.evidence = {e \in found : e.dimension \in Concerns(role)}
        /\ d.issues = {i \in issues : i.dimension \in Concerns(role)}
    <3>1. n \in Nat /\ n > 0 /\ score \in [1..n -> Int] /\ Weighed(found) /\ Weighed(issues)
      BY <1>2, <1>3, <2>1, <2>2
    <3>2. \A e \in Refutations(found) : e.dimension \in HardDimensions \cup {"terminology"}
      BY <1>3
    <3>3. /\ Reviewed(Draft(role, score, found, issues)) /\ RanksAll(Draft(role, score, found, issues).preferences, n)
          /\ Draft(role, score, found, issues).evidence = Concerning(role, found)
          /\ Draft(role, score, found, issues).issues = Concerning(role, issues)
      BY ONLY <3>1, <3>2, DraftIsReviewed, SMTT(30)
    <3> QED BY <3>3 DEF Concerning
  <2> HIDE DEF d
  <2> QED BY <2>2, <2>3 DEF issues
<1>5. "coverage" \in D
  BY CoverageConcernsAll
<1> HIDE DEF D
<1>6. ASSUME Spans = {} PROVE v.evidence = {}
  BY <1>3, <1>4, <1>6
<1>7. ASSUME Spans # {} PROVE Balanced(v, n)
  <2>1. v.evidence # {}
    <3>1. PICK i \in Spans : TRUE
      BY <1>7
    <3>2. 1 \in Candidate
      BY <1>2
    <3>3. Sound(F[<<1, i>>], round.source[i].span, 1, Entities(round.source[i].text) # {})
      BY <1>1, <3>2 DEF AllSound
    <3>4. PICK e \in F[<<1, i>>] : e.dimension = "coverage"
      BY <3>3 DEF Sound
    <3>5. e \in found
      BY <3>2, <3>4 DEF found, AllFound
    <3> QED BY <1>4, <1>5, <3>4, <3>5
  <2> DEFINE said == v.evidence
  <2>2. EvidenceIn(v) = said
    BY <2>1 DEF EvidenceIn
  <2>3. \A x : About(v, x) = {e \in said : e.candidate = x}
    BY <2>2 DEF About
  <2>4. ASSUME NEW w \in 1..n, NEW e \in About(v, w)
        PROVE  \/ e.polarity = "supports" /\ e.severity = "minor"
               \/ e \in Refutations(EvidenceIn(v))
    <3>1. e \in said /\ e \in found
      BY <1>4, <2>3
    <3>2. PICK c \in Candidate, i \in Spans : Found(e, round.source[i].span, c)
      BY <1>3, <3>1
    <3> QED BY <2>2, <3>1, <3>2 DEF Found, Refutations
  <2>5. ASSUME NEW c \in 1..n, NEW w \in 1..n, Stands(v, c)
        PROVE  /\ {i \in v.issues : i.candidate = c} = {}
               /\ Cardinality(Supporting(About(v, w))) <= Cardinality(About(v, c))
    <3>1. \A e \in Refutations(said) : e.candidate # c
      BY <2>2, <2>5 DEF Stands
    <3>2. ASSUME NEW i \in v.issues, i.candidate = c PROVE FALSE
      <4>1. PICK e \in found : e.dimension = "coverage" /\ e.polarity = "refutes" /\ i = IssueOf(e)
        BY <1>4 DEF IssuesIn
      <4>2. e \in said /\ e.candidate = c
        BY <1>4, <1>5, <3>2, <4>1 DEF IssueOf
      <4>3. PICK d \in Candidate, j \in Spans : Found(e, round.source[j].span, d)
        BY <1>3
      <4>4. e \in Refutations(said)
        BY <4>1, <4>2, <4>3 DEF Found, Refutations
      <4> QED BY <3>1, <4>2, <4>4
    <3>3. Cardinality({e \in said : e.candidate = w /\ e.polarity = "supports"})
            <= Cardinality({e \in said : e.candidate = c})
      <4>1. said = {e \in AllFound(F) : e.dimension \in D} /\ c \in Candidate /\ w \in Candidate
        BY <1>2, <1>4 DEF found
      <4> HIDE DEF said
      <4>2. AllSound(F)
        BY <1>1
      <4> QED BY ONLY round \in ReviewRounds, round.stage = "translation",
                      <1>5, <3>1, <4>1, <4>2, SupportsAreMatched
    <3>4. Supporting(About(v, w)) = {e \in said : e.candidate = w /\ e.polarity = "supports"}
      BY <2>3 DEF Supporting
    <3>5. About(v, c) = {e \in said : e.candidate = c}
      BY <2>3
    <3> QED BY <3>2, <3>3, <3>4, <3>5
  <2> QED BY <2>4, <2>5 DEF Balanced
<1> QED BY <1>4, <1>6, <1>7

-----------------------------------------------------------------------------
(* The fixed reviews.                                                      *)

LEMMA FixtureIsReviewed ==
  ASSUME NEW order, NEW confidence \in Nat, NEW evidence, IsFiniteSet(evidence),
         \A e \in evidence : e.severity \in DOMAIN SeverityWeight,
         NEW issues, IsFiniteSet(issues), \A i \in issues : i.severity \in DOMAIN SeverityWeight,
         NEW signal, Refutations(evidence) # {} => signal
  PROVE  Reviewed(Fixture(order, confidence, evidence, issues, signal))
BY DEF Fixture, Reviewed, Weighed

LEMMA SupportIsOne ==
  ASSUME NEW span, NEW c, NEW dimension, NEW value
  PROVE  \E e : Support(span, c, dimension, value) = {e} /\ e.severity = "minor" /\ e.polarity = "supports"
<1> DEFINE s == Evidence(span, c, dimension, "supports", value, "minor")
<1>1. s.severity = "minor" /\ s.polarity = "supports"
  BY DEF Evidence
<1>2. Support(span, c, dimension, value) = {s}
  BY DEF Support
<1> QED BY <1>1, <1>2

LEMMA RefuteIsOne ==
  ASSUME NEW span, NEW c, NEW dimension, NEW value, NEW severity
  PROVE  \E e : Refute(span, c, dimension, value, severity) = {e} /\ e.severity = severity
<1> DEFINE s == Evidence(span, c, dimension, "refutes", value, severity)
<1>1. s.severity = severity
  BY DEF Evidence
<1>2. Refute(span, c, dimension, value, severity) = {s}
  BY DEF Refute
<1> QED BY <1>1, <1>2

\* At most two things said, each with a weight.
Few(said) == \E e, f : said \in {{}, {e}, {e, f}}
Graded(said) == \A e \in said : e.severity \in DOMAIN SeverityWeight

LEMMA FewAreFinite ==
  ASSUME NEW said, Few(said)
  PROVE  IsFiniteSet(said)
<1>1. PICK e, f : said \in {{}, {e}, {e, f}}
  BY DEF Few
<1>2. IsFiniteSet({}) /\ IsFiniteSet({e})
  BY FS_EmptySet, FS_Singleton
<1>3. IsFiniteSet({e} \cup {f})
  BY <1>2, FS_AddElement
<1>4. {e} \cup {f} = {e, f}
  OBVIOUS
<1> QED BY <1>1, <1>2, <1>3, <1>4

LEMMA AlertIsReviewed ==
  ASSUME NEW order, NEW confidence \in Nat, NEW said, Few(said), Graded(said),
         NEW issues, Few(issues), Graded(issues)
  PROVE  Reviewed(Fixture(order, confidence, said, issues, TRUE))
<1>1. IsFiniteSet(said) /\ IsFiniteSet(issues)
  BY FewAreFinite
<1> QED BY <1>1, FixtureIsReviewed DEF Graded

LEMMA ScenarioIsReviewed ==
  ASSUME NEW role, round.scenario \in Scenarios
  PROVE  Reviewed(ScenarioReview(role))
<1> DEFINE a == VariantA
           b == VariantB
           span == IF SegmentsOf(VariantA) = <<>> THEN <<0, 1250>> ELSE SegmentsOf(VariantA)[1].span
<1> HIDE DEF a, b, span
<1>1. "major" \in DOMAIN SeverityWeight /\ "critical" \in DOMAIN SeverityWeight /\ "minor" \in DOMAIN SeverityWeight
  BY DEF SeverityWeight
<1>2. ASSUME NEW c, NEW dimension, NEW value
      PROVE  /\ \E e : Support(span, c, dimension, value) = {e} /\ e.severity = "minor" /\ e.polarity = "supports"
             /\ \E e : Refute(span, c, dimension, value, "major") = {e} /\ e.severity = "major"
             /\ \E e : Refute(span, c, dimension, value, "critical") = {e} /\ e.severity = "critical"
  <2>1. \E e : Support(span, c, dimension, value) = {e} /\ e.severity = "minor" /\ e.polarity = "supports"
    BY ONLY SupportIsOne
  <2>2. ASSUME NEW grave
        PROVE  \E e : Refute(span, c, dimension, value, grave) = {e} /\ e.severity = grave
    BY ONLY RefuteIsOne
  <2> QED BY <2>1, <2>2
<1>3. Few({}) /\ Graded({})
  BY DEF Few, Graded
<1>4. CASE Len(round.candidates) = 1
  <2> DEFINE said == Support(span, 1, "coverage", <<"single_candidate">>)
  <2>1. ScenarioReview(role) = Fixture(<<1>>, 8200, said, {}, FALSE)
    BY <1>4 DEF ScenarioReview, span
  <2>2. Few(said) /\ Graded(said) /\ Refutations(said) = {}
    <3>1. PICK e : said = {e} /\ e.severity = "minor" /\ e.polarity = "supports"
      BY <1>2
    <3> HIDE DEF said
    <3> QED BY <1>1, <3>1 DEF Few, Graded, Refutations
  <2> DEFINE order == <<1>>
             confidence == 8200
  <2>3. confidence \in Nat /\ ScenarioReview(role) = Fixture(order, confidence, said, {}, FALSE)
    BY <2>1
  <2> HIDE DEF said, order, confidence
  <2>4. IsFiniteSet(said) /\ IsFiniteSet({})
    BY <1>3, <2>2, FewAreFinite
  <2>5. Reviewed(Fixture(order, confidence, said, {}, FALSE))
    BY ONLY <1>3, <2>2, <2>3, <2>4, FixtureIsReviewed DEF Graded
  <2> QED BY <2>3, <2>5
<1>5. CASE Len(round.candidates) # 1 /\ round.scenario \in {"translation_conflict", "translation_high_risk"}
  <2>1. ScenarioReview(role) = ConflictReview(role, span)
    BY <1>5 DEF ScenarioReview, span
  <2> DEFINE A == Support(span, a, "coverage", <<"preserved">>) \cup Support(span, b, "coverage", <<"preserved">>)
             B == Support(span, b, "style", <<"fluent">>) \cup Support(span, a, "style", <<"literal">>)
  <2>2. Few(A) /\ Graded(A) /\ Few(B) /\ Graded(B)
    <3>1. ASSUME NEW c, NEW d, NEW dimension, NEW x, NEW y
          PROVE  LET U == Support(span, c, dimension, x) \cup Support(span, d, dimension, y)
                 IN  Few(U) /\ Graded(U)
      <4>1. PICK e : Support(span, c, dimension, x) = {e} /\ e.severity = "minor"
        BY <1>2
      <4>2. PICK f : Support(span, d, dimension, y) = {f} /\ f.severity = "minor"
        BY <1>2
      <4>3. {e} \cup {f} = {e, f}
        OBVIOUS
      <4> QED BY <1>1, <4>1, <4>2, <4>3 DEF Few, Graded
    <3> QED BY <3>1
  <2> HIDE DEF A, B
  <2> DEFINE order1 == <<a, b>>
             sure1 == 8600
             order2 == <<b, a>>
             sure2 == 4600
  <2>3. ScenarioReview(role) \in {Fixture(order1, sure1, A, {}, TRUE), Fixture(order2, sure2, B, {}, TRUE)}
    BY <2>1 DEF ConflictReview, A, B, a, b
  <2>5. sure1 \in Nat /\ sure2 \in Nat
    OBVIOUS
  <2> HIDE DEF order1, sure1, order2, sure2
  <2>6. Reviewed(Fixture(order1, sure1, A, {}, TRUE))
    BY ONLY <1>3, <2>2, <2>5, AlertIsReviewed
  <2>7. Reviewed(Fixture(order2, sure2, B, {}, TRUE))
    BY ONLY <1>3, <2>2, <2>5, AlertIsReviewed
  <2> QED BY ONLY <2>3, <2>6, <2>7
<1>6. CASE Len(round.candidates) # 1 /\ round.scenario = "translation_escalation"
  <2>1. ScenarioReview(role) = EscalationReview(role, span)
    BY <1>6 DEF ScenarioReview, span
  <2> DEFINE added == Refute(span, b, "meaning", <<"added_content">>, "major")
             stiff == Refute(span, a, "style", <<"stiff">>, "major")
             A == Support(span, a, "coverage", <<"preserved">>) \cup added
             B == Support(span, b, "style", <<"fluent">>) \cup stiff
             X == {IssueOf(e) : e \in added}
             Y == {IssueOf(e) : e \in stiff}
  <2>2. Few(A) /\ Graded(A) /\ Few(B) /\ Graded(B) /\ Few(X) /\ Graded(X) /\ Few(Y) /\ Graded(Y)
    <3>1. PICK e : added = {e} /\ e.severity = "major"
      BY <1>2
    <3>2. PICK f : stiff = {f} /\ f.severity = "major"
      BY <1>2
    <3>3. PICK g : Support(span, a, "coverage", <<"preserved">>) = {g} /\ g.severity = "minor"
      BY <1>2
    <3>4. PICK h : Support(span, b, "style", <<"fluent">>) = {h} /\ h.severity = "minor"
      BY <1>2
    <3> HIDE DEF added, stiff
    <3>5. A = {g, e} /\ B = {h, f} /\ X = {IssueOf(e)} /\ Y = {IssueOf(f)}
      BY <3>1, <3>2, <3>3, <3>4
    <3>6. IssueOf(e).severity = "major" /\ IssueOf(f).severity = "major"
      BY <3>1, <3>2 DEF IssueOf
    <3> HIDE DEF A, B, X, Y
    <3>7. Few(A) /\ Few(B) /\ Few(X) /\ Few(Y)
      BY <3>5 DEF Few
    <3>8. Graded(A) /\ Graded(B) /\ Graded(X) /\ Graded(Y)
      BY <1>1, <3>1, <3>2, <3>3, <3>4, <3>5, <3>6 DEF Graded
    <3> QED BY <3>7, <3>8
  <2> HIDE DEF A, B, X, Y
  <2> DEFINE order1 == <<a, b>>
             sure1 == 8800
             order2 == <<b, a>>
             sure2 == 8200
  <2>3. ScenarioReview(role) \in {Fixture(order1, sure1, A, X, TRUE), Fixture(order2, sure2, B, Y, TRUE)}
    BY <2>1 DEF EscalationReview, A, B, X, Y, a, b
  <2>5. sure1 \in Nat /\ sure2 \in Nat
    OBVIOUS
  <2> HIDE DEF order1, sure1, order2, sure2
  <2>6. Reviewed(Fixture(order1, sure1, A, X, TRUE))
    BY ONLY <2>2, <2>5, AlertIsReviewed
  <2>7. Reviewed(Fixture(order2, sure2, B, Y, TRUE))
    BY ONLY <2>2, <2>5, AlertIsReviewed
  <2> QED BY ONLY <2>3, <2>6, <2>7
<1>7. CASE Len(round.candidates) # 1 /\ round.scenario = "translation_conflict_timeout"
  <2> DEFINE A == Refute(span, b, "meaning", <<"added_content">>, "major")
  <2>1. ScenarioReview(role) = Fixture(<<a, b>>, 8200, A, {}, TRUE)
    BY <1>7 DEF ScenarioReview, TimeoutReview, span, a, b
  <2>2. Few(A) /\ Graded(A)
    <3>1. PICK e : A = {e} /\ e.severity = "major"
      BY <1>2
    <3> HIDE DEF A
    <3> QED BY <1>1, <3>1 DEF Few, Graded
  <2> HIDE DEF A
  <2> DEFINE order1 == <<a, b>>
             sure1 == 8200
  <2>5. sure1 \in Nat /\ ScenarioReview(role) = Fixture(order1, sure1, A, {}, TRUE)
    BY <2>1
  <2> HIDE DEF order1, sure1
  <2>6. Reviewed(Fixture(order1, sure1, A, {}, TRUE))
    BY ONLY <1>3, <2>2, <2>5, AlertIsReviewed
  <2> QED BY ONLY <2>5, <2>6
<1>8. CASE Len(round.candidates) # 1 /\ round.scenario = "translation_human_review"
  <2> DEFINE A == UNION {Refute(span, c, "meaning", <<"conflict">>, "critical") : c \in {a, b}}
             none == [candidate |-> Nobody, dimension |-> "meaning", severity |-> "critical", span |-> span]
             X == {none}
  <2>1. ScenarioReview(role) = Fixture(<<a, b>>, 5500, A, X, TRUE)
    BY <1>8 DEF ScenarioReview, UnsafeReview, span, a, b
  <2>2. Few(A) /\ Graded(A)
    <3>1. PICK e : Refute(span, a, "meaning", <<"conflict">>, "critical") = {e} /\ e.severity = "critical"
      BY <1>2
    <3>2. PICK f : Refute(span, b, "meaning", <<"conflict">>, "critical") = {f} /\ f.severity = "critical"
      BY <1>2
    <3>3. A = {e, f}
      BY <3>1, <3>2
    <3> HIDE DEF A
    <3> QED BY <1>1, <3>1, <3>2, <3>3 DEF Few, Graded
  <2>3. none.severity = "critical"
    OBVIOUS
  <2> HIDE DEF none
  <2>4. Few(X) /\ Graded(X)
    BY <1>1, <2>3 DEF Few, Graded
  <2> HIDE DEF A, X
  <2> DEFINE order1 == <<a, b>>
             sure1 == 5500
  <2>5. sure1 \in Nat /\ ScenarioReview(role) = Fixture(order1, sure1, A, X, TRUE)
    BY <2>1
  <2> HIDE DEF order1, sure1
  <2>6. Reviewed(Fixture(order1, sure1, A, X, TRUE))
    BY ONLY <2>2, <2>4, <2>5, AlertIsReviewed
  <2> QED BY ONLY <2>5, <2>6
<1> QED BY <1>4, <1>5, <1>6, <1>7, <1>8 DEF Scenarios

-----------------------------------------------------------------------------
(* The review of transcripts.                                              *)

Entry == [owner : Candidate, segment : PieceType]
GroupType == [span : {SpanIdOf(s) : s \in PieceType}, entries : Seq(Entry)]

LEMMA GroupedIsTyped ==
  ASSUME NEW groups, groups \in Seq(GroupType), NEW own \in Entry
  PROVE  Grouped(groups, own) \in Seq(GroupType)
<1> DEFINE near == {g \in DOMAIN groups : \E k \in DOMAIN groups[g].entries :
                      2 * Overlap(own.segment, groups[g].entries[k].segment) >= One}
           id == SpanIdOf(own.segment)
           same == {g \in DOMAIN groups : groups[g].span = id}
           opened == [span |-> id, entries |-> <<own>>]
           n == Len(groups)
<1>1. Grouped(groups, own) =
        IF near # {} THEN [groups EXCEPT ![Min(near)].entries = Append(@, own)]
        ELSE IF same # {} THEN [groups EXCEPT ![Min(same)] = opened]
        ELSE Append(groups, opened)
  BY DEF Grouped
<1>2. opened \in GroupType
  <2>1. own.segment \in PieceType
    BY DEF Entry
  <2>2. id \in {SpanIdOf(s) : s \in PieceType}
    BY <2>1
  <2>3. <<own>> \in Seq(Entry)
    OBVIOUS
  <2> HIDE DEF id
  <2> QED BY <2>2, <2>3 DEF GroupType
<1>3. n \in Nat /\ DOMAIN groups = 1..n /\ groups \in [1..n -> GroupType]
  OBVIOUS
<1>4. near \in SUBSET (1..n) /\ same \in SUBSET (1..n)
  BY <1>3
<1> HIDE DEF near, same, opened, id, n
<1>5. ASSUME NEW S, S \in SUBSET (1..n), S # {} PROVE Min(S) \in 1..n
  <2>1. IsFiniteSet(1..n) /\ 1..n \in SUBSET Int
    BY <1>3, IntervalSize
  <2>2. IsFiniteSet(S) /\ S \in SUBSET Int
    BY <1>5, <2>1, FS_Subset
  <2>3. Min(S) \in S
    BY ONLY <2>2, <1>5, SmallestIsMin
  <2> QED BY <1>5, <2>3
<1>6. ASSUME NEW k \in 1..n, NEW g \in GroupType PROVE [groups EXCEPT ![k] = g] \in Seq(GroupType)
  BY <1>3, <1>6
<1>7. CASE near # {}
  <2> DEFINE k == Min(near)
             g == [groups[k] EXCEPT !.entries = Append(@, own)]
  <2>1. k \in 1..n
    BY <1>4, <1>5, <1>7
  <2> HIDE DEF k
  <2>2. groups[k] \in GroupType
    BY <1>3, <2>1
  <2>3. g \in GroupType
    <3> DEFINE old == groups[k]
    <3>1. old \in GroupType
      BY <2>2
    <3> HIDE DEF old
    <3>2. old.entries \in Seq(Entry) /\ Append(old.entries, own) \in Seq(Entry)
      BY <3>1 DEF GroupType
    <3>4. [old EXCEPT !.entries = Append(@, own)] \in GroupType
      <4> DEFINE more == Append(old.entries, own)
                 Ids == {SpanIdOf(s) : s \in PieceType}
                 Lists == Seq(Entry)
      <4>1. old \in [span : Ids, entries : Lists] /\ more \in Lists /\ GroupType = [span : Ids, entries : Lists]
        BY <3>1, <3>2 DEF GroupType
      <4> HIDE DEF more, Ids, Lists
      <4>2. [old EXCEPT !.entries = more] \in GroupType
        BY <4>1
      <4> QED BY <4>2 DEF more
    <3> QED BY <3>4 DEF old
  <2>4. Grouped(groups, own) = [groups EXCEPT ![k] = g]
    BY <1>1, <1>7 DEF k
  <2> HIDE DEF g
  <2> QED BY <1>6, <2>1, <2>3, <2>4
<1>8. CASE near = {} /\ same # {}
  BY <1>1, <1>2, <1>4, <1>5, <1>6, <1>8
<1>9. CASE near = {} /\ same = {}
  <2>1. Append(groups, opened) \in Seq(GroupType)
    BY <1>2
  <2> QED BY <1>1, <1>9, <2>1
<1> QED BY <1>7, <1>8, <1>9

LEMMA SpansAreGroups ==
  ASSUME round \in ReviewRounds
  PROVE  TranscriptSpans \in Seq(GroupType)
<1> DEFINE All(c) == [k \in DOMAIN SegmentsOf(c) |-> [owner |-> c, segment |-> SegmentsOf(c)[k]]]
           each == [c \in Candidate |-> All(c)]
           all == FlattenSeq(each)
           n == Len(round.candidates)
           S == DOMAIN all
           V == Seq(GroupType)
           none == <<>>
           Body(g) == [T \in SUBSET S |-> IF T = {} THEN none
                         ELSE LET x == Max(T) IN Grouped(g[T \ {x}], all[x])]
           total == CHOOSE g : g = Body(g)
           ch == [T \in SUBSET S |-> Max(T)]
           step == [p \in S \X V |-> Grouped(p[2], all[p[1]])]
<1>1. all \in Seq(Entry)
  <2>1. n \in Nat /\ Candidate = 1..n
    BY RoundIsTyped
  <2>2. ASSUME NEW c \in Candidate PROVE All(c) \in Seq(Entry)
    <3> DEFINE segments == SegmentsOf(c)
    <3>1. segments \in Seq(PieceType)
      BY RoundIsTyped
    <3> HIDE DEF segments
    <3>2. ASSUME NEW k \in DOMAIN segments PROVE [owner |-> c, segment |-> segments[k]] \in Entry
      <4>1. segments[k] \in PieceType
        BY <3>1
      <4> QED BY <4>1 DEF Entry
    <3>3. [k \in DOMAIN segments |-> [owner |-> c, segment |-> segments[k]]] \in Seq(Entry)
      BY <3>1, <3>2
    <3> QED BY <3>3 DEF segments
  <2>3. each \in [1..n -> Seq(Entry)]
    BY <2>1, <2>2
  <2> HIDE DEF each, n
  <2> QED BY ONLY <2>1, <2>3, FlatteningKeepsAll
<1>2. TranscriptSpans = FoldLeft(Grouped, none, all)
  BY DEF TranscriptSpans
<1>3. FoldLeft(Grouped, none, all) = total[S]
  <2> HIDE DEF all
  <2> QED BY DEF FoldLeft, MapThenFoldSet
<1> HIDE DEF all
<1>4. IsFiniteSet(S) /\ S \in SUBSET Int /\ \A x \in S : all[x] \in Entry
  <2>1. S = 1..Len(all) /\ Len(all) \in Nat
    BY <1>1
  <2>2. IsFiniteSet(1..Len(all))
    BY <2>1, IntervalSize
  <2> QED BY <1>1, <2>1, <2>2
<1>5. Chooses(ch, S) /\ \A T \in SUBSET S : ch[T] = Max(T)
  <2> HIDE DEF S
  <2>1. ASSUME NEW T \in SUBSET S, T # {} PROVE Max(T) \in T
    <3>1. IsFiniteSet(T) /\ T \in SUBSET Int
      BY <1>4, FS_Subset
    <3> QED BY ONLY <2>1, <3>1, GreatestIsMax
  <2> QED BY <2>1 DEF Chooses
<1>6. \A u \in V, e \in Entry : Grouped(u, e) \in V
  BY GroupedIsTyped
<1>7. none \in V
  OBVIOUS
<1> HIDE DEF V, none
<1>8. step \in [S \X V -> V] /\ \A x \in S, v \in V : step[<<x, v>>] = Grouped(v, all[x])
  BY <1>4, <1>6
<1> HIDE DEF ch, step
<1>9. PICK g \in [SUBSET S -> V] : FoldsOver(g, S, ch, none, step)
  <2>1. Chooses(ch, S) /\ IsFiniteSet(S)
    BY <1>4, <1>5
  <2> HIDE DEF Body, total, S
  <2> QED BY ONLY <1>7, <1>8, <2>1, SubsetRecursion
<1> HIDE DEF S
<1>10. g = Body(g)
  <2>1. ASSUME NEW T \in SUBSET S, T # {} PROVE g[T] = LET x == Max(T) IN Grouped(g[T \ {x}], all[x])
    <3>1. ch[T] \in S /\ T \ {ch[T]} \in SUBSET S
      BY <2>1, <1>5 DEF Chooses
    <3>2. g[T] = Grouped(g[T \ {ch[T]}], all[ch[T]])
      BY <1>8, <1>9, <2>1, <3>1 DEF FoldsOver
    <3> QED BY <1>5, <3>2
  <2>2. g[{}] = none
    BY <1>9 DEF FoldsOver
  <2> QED BY <2>1, <2>2
<1>11. total = Body(total)
  <2> HIDE DEF Body
  <2> QED BY <1>10
<1> HIDE DEF total
<1>12. total[{}] = none
  BY <1>11
<1>13. ASSUME NEW T \in SUBSET S, T # {} PROVE total[T] = Grouped(total[T \ {Max(T)}], all[Max(T)])
  BY <1>11, <1>13
<1> HIDE DEF Body
<1>14. \A T \in SUBSET S : total[T] \in V
  <2> DEFINE H == {T \in SUBSET S : total[T] \in V}
  <2>1. {} \in H
    BY <1>7, <1>12
  <2>2. ASSUME NEW T \in SUBSET S, T # {}, \A x \in T : T \ {x} \in H PROVE T \in H
    <3>1. Max(T) \in T /\ all[Max(T)] \in Entry
      BY <2>2, <1>4, <1>5 DEF Chooses
    <3>2. total[T \ {Max(T)}] \in V
      BY <2>2, <3>1
    <3> QED BY <1>6, <1>13, <2>2, <3>1, <3>2
  <2> HIDE DEF H
  <2>3. \A T \in SUBSET S : T \in H
    BY <1>4, <2>1, <2>2, SubsetInduction
  <2> QED BY <2>3 DEF H
<1> QED BY <1>2, <1>3, <1>14 DEF V

\* What is heard of a candidate, or of a group, is a text.
LEMMA SaidIsText ==
  ASSUME round \in ReviewRounds, NEW c \in Candidate, NEW group \in GroupType
  PROVE  Said(c, group).text \in Seq(STRING)
<1> DEFINE own == {k \in DOMAIN group.entries : group.entries[k].owner = c}
           longest == group.entries[CHOOSE k \in DOMAIN group.entries :
                         \A m \in DOMAIN group.entries :
                            LET d == Length(group.entries[k].segment) - Length(group.entries[m].segment)
                            IN  d > 0 \/ (d = 0 /\ k <= m)].segment
           Covering(k) == Max({0, Min({SegmentsOf(c)[k].end, longest.end}) - Max({SegmentsOf(c)[k].start, longest.start})})
           best == {k \in DOMAIN SegmentsOf(c) : 2 * Covering(k) >= Length(longest) /\
                      \A m \in DOMAIN SegmentsOf(c) : Covering(m) <= Covering(k)}
           entries == group.entries
<1>1. Said(c, group) = IF own # {} THEN group.entries[Min(own)].segment
                       ELSE IF best # {} THEN SegmentsOf(c)[Min(best)]
                       ELSE NoSegment
  BY DEF Said
<1>2. entries \in Seq(Entry)
  BY DEF GroupType
<1>3. own \in SUBSET DOMAIN entries /\ best \in SUBSET DOMAIN SegmentsOf(c)
  OBVIOUS
<1>4. IsFiniteSet(DOMAIN entries) /\ DOMAIN entries \in SUBSET Int
  <2> HIDE DEF entries
  <2>1. DOMAIN entries = 1..Len(entries) /\ Len(entries) \in Nat
    BY <1>2
  <2>2. IsFiniteSet(1..Len(entries))
    BY <2>1, IntervalSize
  <2> QED BY <2>1, <2>2
<1>5. IsFiniteSet(DOMAIN SegmentsOf(c)) /\ DOMAIN SegmentsOf(c) \in SUBSET Int
  BY PieceIsTyped
<1>6. Said(c, group) = IF own # {} THEN entries[Min(own)].segment
                       ELSE IF best # {} THEN SegmentsOf(c)[Min(best)]
                       ELSE NoSegment
  BY <1>1
<1> HIDE DEF own, best, entries
<1>7. CASE own # {}
  <2>1. IsFiniteSet(own) /\ own \in SUBSET Int
    BY <1>3, <1>4, FS_Subset
  <2>2. Min(own) \in own
    BY ONLY <2>1, <1>7, SmallestIsMin
  <2> DEFINE e == entries[Min(own)]
  <2>3. e \in Entry
    BY <1>2, <1>3, <2>2
  <2> HIDE DEF e
  <2>4. e.segment.text \in Seq(STRING)
    BY <2>3 DEF Entry, PieceType
  <2> QED BY <1>6, <1>7, <2>4 DEF e
<1>8. CASE own = {} /\ best # {}
  <2>1. IsFiniteSet(best) /\ best \in SUBSET Int
    BY <1>3, <1>5, FS_Subset
  <2>2. Min(best) \in best
    BY ONLY <2>1, <1>8, SmallestIsMin
  <2>3. Min(best) \in DOMAIN SegmentsOf(c)
    BY <1>3, <2>2
  <2> QED BY <1>6, <1>8, <2>3, PieceIsTyped
<1>9. CASE own = {} /\ best = {}
  <2>1. NoSegment.text = <<>>
    BY DEF NoSegment
  <2>2. <<>> \in Seq(STRING)
    OBVIOUS
  <2>3. Said(c, group) = NoSegment
    BY <1>6, <1>9
  <2> QED BY <2>1, <2>2, <2>3
<1> QED BY <1>7, <1>8, <1>9

LEMMA MostCommonIsOne ==
  ASSUME NEW S, IsFiniteSet(S), S \in SUBSET Int, NEW V, NEW values, values \in [S -> V], NEW none \in V
  PROVE  MostCommon(values, none) \in V
<1> DEFINE count == [k \in S |-> Cardinality({m \in S : values[m] = values[k]})]
           R == {p \in S \X S : count[p[1]] > count[p[2]] \/ (count[p[1]] = count[p[2]] /\ p[1] < p[2])}
           Leads(k) == \A m \in S : count[k] > count[m] \/ (count[k] = count[m] /\ k <= m)
<1>1. MostCommon(values, none) = IF S = {} THEN none ELSE values[CHOOSE k \in S : Leads(k)]
  <2> DEFINE Count(x) == Cardinality({k \in DOMAIN values : values[k] = x})
             Most(k) == \A m \in DOMAIN values : Count(values[k]) > Count(values[m])
                                                  \/ (Count(values[k]) = Count(values[m]) /\ k <= m)
  <2>1. MostCommon(values, none) = IF DOMAIN values = {} THEN none ELSE values[CHOOSE k \in DOMAIN values : Most(k)]
    BY DEF MostCommon
  <2>2. DOMAIN values = S /\ \A k \in S : Count(values[k]) = count[k]
    OBVIOUS
  <2> HIDE DEF count, Count
  <2>3. \A k \in S : Most(k) <=> Leads(k)
    BY <2>2
  <2> HIDE DEF Most, Leads
  <2>4. (CHOOSE k \in DOMAIN values : Most(k)) = CHOOSE k \in S : Leads(k)
    BY <2>2, <2>3
  <2> QED BY <2>1, <2>2, <2>4
<1>2. \A k \in S : count[k] \in Int /\ k \in Int
  <2>1. ASSUME NEW k \in S PROVE Cardinality({m \in S : values[m] = values[k]}) \in Int
    <3> DEFINE T == {m \in S : values[m] = values[k]}
    <3>1. T \in SUBSET S
      OBVIOUS
    <3> HIDE DEF T
    <3>2. Cardinality(T) \in Nat
      BY <3>1, FS_Subset, FS_CardinalityType
    <3> QED BY <3>2 DEF T
  <2> QED BY <2>1
<1> HIDE DEF count
<1>3. \A x, y \in S : <<x, y>> \in R <=> (count[x] > count[y] \/ (count[x] = count[y] /\ x < y))
  OBVIOUS
<1> HIDE DEF R
<1>4. StrictOrder(R, S)
  BY ONLY <1>2, <1>3 DEF StrictOrder
<1>5. ASSUME S # {} PROVE \E k \in S : Leads(k)
  <2>1. PICK k \in S : \A m \in S \ {k} : <<k, m>> \in R
    BY ONLY IsFiniteSet(S), <1>4, <1>5, FirstExists
  <2>2. ASSUME NEW m \in S PROVE count[k] > count[m] \/ (count[k] = count[m] /\ k <= m)
    <3>1. CASE m = k
      BY <1>2, <3>1
    <3>2. CASE m # k
      <4>1. <<k, m>> \in R
        BY <2>1, <3>2
      <4>2. count[k] > count[m] \/ (count[k] = count[m] /\ k < m)
        BY ONLY <1>3, <4>1, k \in S, m \in S
      <4>3. k \in Int /\ m \in Int
        BY <1>2
      <4> QED BY <4>2, <4>3
    <3> QED BY <3>1, <3>2
  <2> QED BY <2>2
<1> HIDE DEF Leads
<1>6. S # {} => (CHOOSE k \in S : Leads(k)) \in S
  BY <1>5
<1> QED BY <1>1, <1>6

LEMMA SpokenIsText ==
  ASSUME NEW group \in GroupType
  PROVE  SpokenText(group) \in Seq(STRING)
<1> DEFINE entries == group.entries
           spoken == {k \in DOMAIN entries : entries[k].segment.text # <<>>}
           values == [k \in spoken |-> entries[k].segment.text]
           V == Seq(STRING)
           none == <<>>
<1>1. SpokenText(group) = MostCommon(values, none)
  BY DEF SpokenText
<1>2. entries \in Seq(Entry)
  BY DEF GroupType
<1> HIDE DEF entries
<1>3. DOMAIN entries = 1..Len(entries) /\ Len(entries) \in Nat
  BY <1>2
<1>4. IsFiniteSet(spoken) /\ spoken \in SUBSET Int
  <2>1. IsFiniteSet(1..Len(entries))
    BY <1>3, IntervalSize
  <2> QED BY <1>3, <2>1, FS_Subset
<1>5. values \in [spoken -> V]
  <2>1. ASSUME NEW k \in spoken PROVE entries[k].segment.text \in V
    <3> DEFINE e == entries[k]
    <3>1. e \in Entry
      BY <1>2
    <3> HIDE DEF e
    <3>2. e.segment.text \in V
      BY <3>1 DEF Entry, PieceType
    <3> QED BY <3>2 DEF e
  <2> QED BY <2>1
<1>6. none \in V
  OBVIOUS
<1> HIDE DEF spoken, values, V, none
<1>7. MostCommon(values, none) \in V
  BY ONLY <1>4, <1>5, <1>6, MostCommonIsOne
<1> QED BY <1>1, <1>7 DEF V

LEMMA MeaningIsInteger ==
  ASSUME NEW text \in Seq(STRING), NEW consensus \in Seq(STRING)
  PROVE  MeaningScore(text, consensus) \in Int
<1> DEFINE l == Vocabulary(text)
           r == Vocabulary(consensus)
<1>1. IsFiniteSet(l) /\ IsFiniteSet(r)
  BY WordsAreFinite
<1>2. MeaningScore(text, consensus) =
        IF l \cup r = {} \/ (l # {} /\ r # {} /\ r \subseteq l) THEN One
        ELSE (One * Cardinality(l \cap r)) \div Cardinality(l \cup r)
  BY DEF MeaningScore
<1> HIDE DEF l, r
<1>3. IsFiniteSet(l \cap r) /\ IsFiniteSet(l \cup r)
  <2>1. l \cap r \in SUBSET l
    OBVIOUS
  <2>2. IsFiniteSet(l \cup r)
    BY <1>1, FS_Union
  <2> QED BY <1>1, <2>1, <2>2, FS_Subset
<1>4. Cardinality(l \cap r) \in Nat
  BY <1>3, FS_CardinalityType
<1>5. l \cup r # {} => Cardinality(l \cup r) \in Nat /\ Cardinality(l \cup r) > 0
  BY <1>3, SizeIsPositive
<1> DEFINE a == Cardinality(l \cap r)
           b == Cardinality(l \cup r)
<1> HIDE DEF a, b
<1>6. a \in Nat /\ One = 10000 /\ (l \cup r # {} => b \in Nat /\ b > 0)
  BY <1>4, <1>5 DEF a, b, One
<1>7. l \cup r # {} => (One * a) \div b \in Int
  BY <1>6
<1> QED BY <1>2, <1>6, <1>7 DEF a, b

\* Something said of a transcript: whoever refutes it materially does so in what weighs hard.
Noted(said) ==
  /\ IsFiniteSet(said)
  /\ \A e \in said : /\ e.severity \in DOMAIN SeverityWeight
                     /\ (e.polarity = "refutes" /\ e.severity \in Material) => e.dimension \in HardDimensions

LEMMA RefuteIsNoted ==
  ASSUME NEW span, NEW c, NEW dimension, NEW value, NEW severity \in DOMAIN SeverityWeight,
         dimension \in HardDimensions \/ severity \notin Material
  PROVE  Noted(Refute(span, c, dimension, value, severity))
<1> DEFINE e == Evidence(span, c, dimension, "refutes", value, severity)
<1>1. e.severity = severity /\ e.dimension = dimension
  BY DEF Evidence
<1>2. Refute(span, c, dimension, value, severity) = {e}
  BY DEF Refute
<1> HIDE DEF e
<1> QED BY <1>1, <1>2, FS_Singleton DEF Noted

LEMMA SupportIsNoted ==
  ASSUME NEW span, NEW c, NEW dimension, NEW value
  PROVE  Noted(Support(span, c, dimension, value))
<1> DEFINE e == Evidence(span, c, dimension, "supports", value, "minor")
<1>1. e.severity = "minor" /\ e.polarity = "supports" /\ "minor" \in DOMAIN SeverityWeight
  BY DEF Evidence, SeverityWeight
<1>2. Support(span, c, dimension, value) = {e}
  BY DEF Support
<1> HIDE DEF e
<1> QED BY <1>1, <1>2, FS_Singleton DEF Noted

LEMMA NotedTogether ==
  ASSUME NEW A, Noted(A), NEW B, Noted(B)
  PROVE  Noted(A \cup B)
<1>1. IsFiniteSet(A \cup B)
  BY FS_Union DEF Noted
<1> QED BY <1>1 DEF Noted

LEMMA FindingsAreNoted ==
  ASSUME NEW c, NEW compared
  PROVE  Noted(TranscriptFindings(c, compared))
<1> DEFINE said == compared.said
           consensus == compared.consensus
           span == compared.span
           Meaning == IF MeaningScore(said.text, consensus) < 5500
                      THEN Refute(span, c, "meaning", <<said.text>>, "critical")
                      ELSE Support(span, c, "coverage", <<"preserved">>)
           Entity == IF Entities(said.text) = Entities(consensus) THEN {}
                     ELSE Refute(span, c, "entity", ValueOf(Entities(said.text)), "major")
           Number == IF Numbers(said.text) = Numbers(consensus) THEN {}
                     ELSE Refute(span, c, "number_date_unit", ValueOf(Numbers(said.text)), "major")
           Form == IF "" \in {compared.speaker, said.speaker} \/ said.speaker = compared.speaker THEN {}
                   ELSE Refute(span, c, "formatting", <<said.speaker>>, "minor")
           Omitted == Refute(span, c, "coverage", <<"omitted">>, "major")
<1>1. TranscriptFindings(c, compared) =
        IF said = NoSegment THEN Omitted ELSE Meaning \cup Entity \cup Number \cup Form
  BY DEF TranscriptFindings
<1>2. Noted({})
  BY FS_EmptySet DEF Noted
<1>3. /\ {"minor", "major", "critical"} \subseteq DOMAIN SeverityWeight
      /\ {"meaning", "coverage", "entity", "number_date_unit"} \subseteq HardDimensions /\ "minor" \notin Material
  BY DEF SeverityWeight, HardDimensions, Material
<1>4. ASSUME NEW dimension, NEW value, NEW severity \in {"minor", "major", "critical"},
             dimension \in {"meaning", "coverage", "entity", "number_date_unit"} \/ severity = "minor"
      PROVE  Noted(Refute(span, c, dimension, value, severity))
  <2>1. severity \in DOMAIN SeverityWeight /\ (dimension \in HardDimensions \/ severity \notin Material)
    BY <1>3, <1>4
  <2> HIDE DEF span
  <2> QED BY ONLY <2>1, RefuteIsNoted
<1>5. ASSUME NEW value PROVE Noted(Support(span, c, "coverage", value))
  <2> DEFINE dimension == "coverage"
  <2> HIDE DEF dimension, span
  <2>1. Noted(Support(span, c, dimension, value))
    BY ONLY SupportIsNoted
  <2> QED BY <2>1 DEF dimension
<1> HIDE DEF said, consensus, span
<1>6. Noted(Meaning)
  <2>1. Noted(Refute(span, c, "meaning", <<said.text>>, "critical"))
    BY <1>4
  <2> QED BY <1>5, <2>1
<1>7. Noted(Entity)
  <2>1. Noted(Refute(span, c, "entity", ValueOf(Entities(said.text)), "major"))
    BY <1>4
  <2> QED BY <1>2, <2>1
<1>8. Noted(Number)
  <2>1. Noted(Refute(span, c, "number_date_unit", ValueOf(Numbers(said.text)), "major"))
    BY <1>4
  <2> QED BY <1>2, <2>1
<1>9. Noted(Form)
  <2>1. Noted(Refute(span, c, "formatting", <<said.speaker>>, "minor"))
    BY <1>4
  <2> QED BY <1>2, <2>1
<1>10. Noted(Omitted)
  BY <1>4
<1> HIDE DEF Meaning, Entity, Number, Form, Omitted
<1>11. Noted(Meaning \cup Entity \cup Number \cup Form)
  <2>1. Noted(Meaning \cup Entity)
    BY <1>6, <1>7, NotedTogether
  <2>2. Noted((Meaning \cup Entity) \cup Number)
    BY <1>8, <2>1, NotedTogether
  <2>3. Noted(((Meaning \cup Entity) \cup Number) \cup Form)
    BY <1>9, <2>2, NotedTogether
  <2> QED BY <2>3
<1> QED BY <1>1, <1>10, <1>11

\* What is compared of a candidate: in every group two texts.
Texts(compared, m) ==
  /\ DOMAIN compared = 1..m
  /\ \A k \in 1..m : compared[k].said.text \in Seq(STRING) /\ compared[k].consensus \in Seq(STRING)

LEMMA TranscriptScoreIsInteger ==
  ASSUME NEW m \in Nat, NEW compared, compared = [k \in 1..m |-> compared[k]], Texts(compared, m)
  PROVE  TranscriptScore(compared) \in Int
<1> DEFINE heard == {k \in DOMAIN compared : compared[k].said # NoSegment}
           coverage == IF compared = <<>> THEN 0 ELSE (One * Cardinality(heard)) \div Len(compared)
           means == [k \in heard |-> MeaningScore(compared[k].said.text, compared[k].consensus)]
           heeds == [k \in heard |-> IF compared[k].speaker \in {"", compared[k].said.speaker} THEN One ELSE 0]
           zero == 0
           meaning == Mean(means, zero)
           speakers == Mean(heeds, One)
<1>1. TranscriptScore(compared) = (40 * coverage + 35 * meaning + 15 * One + 10 * speakers) \div 100
  BY DEF TranscriptScore
<1>2. One \in Int /\ zero \in Int /\ One = 10000
  BY DEF One
<1>3. IsFiniteSet(heard) /\ heard \in SUBSET (1..m)
  <2>1. IsFiniteSet(1..m) /\ heard \in SUBSET (1..m)
    BY IntervalSize DEF Texts
  <2> QED BY <2>1, FS_Subset
<1>4. means \in [heard -> Int]
  <2>1. ASSUME NEW k \in heard PROVE MeaningScore(compared[k].said.text, compared[k].consensus) \in Int
    <3>1. compared[k].said.text \in Seq(STRING) /\ compared[k].consensus \in Seq(STRING)
      BY <1>3 DEF Texts
    <3> QED BY <3>1, MeaningIsInteger
  <2> QED BY <2>1
<1>5. heeds \in [heard -> Int]
  BY <1>2
<1>6. coverage \in Int
  <2> DEFINE size == Cardinality(heard)
  <2>1. size \in Nat
    BY <1>3, FS_CardinalityType
  <2>2. Len(compared) = m
    BY DEF Texts
  <2>3. m = 0 => compared = <<>>
    BY SMT
  <2> HIDE DEF size, heard
  <2>4. m # 0 => (One * size) \div m \in Int
    BY <1>2, <2>1
  <2> QED BY <2>2, <2>3, <2>4 DEF size
<1> HIDE DEF heard, means, heeds, zero, coverage
<1>7. meaning \in Int /\ speakers \in Int
  <2> DEFINE all == One
  <2>3. IsFiniteSet(heard) /\ all \in Int /\ zero \in Int /\ all = One
    BY <1>2, <1>3
  <2> HIDE DEF all
  <2>1. Mean(means, zero) \in Int
    BY ONLY <1>4, <2>3, MeanIsInteger
  <2>2. Mean(heeds, all) \in Int
    BY ONLY <1>5, <2>3, MeanIsInteger
  <2> QED BY <2>1, <2>2, <2>3
<1> HIDE DEF meaning, speakers
<1> QED BY <1>1, <1>2, <1>6, <1>7, SMTT(30)

LEMMA TranscriptReviewIsDraft ==
  ASSUME round \in ReviewRounds, round.candidates # <<>>, NEW role, NEW n, n = Len(round.candidates)
  PROVE  /\ n \in Nat /\ n > 0
         /\ \E rating, found, noted :
              /\ rating \in [1..n -> Int] /\ Weighed(found) /\ Weighed(noted)
              /\ \A e \in Refutations(found) : e.dimension \in HardDimensions \cup {"terminology"}
              /\ TranscriptReview(role) = Draft(role, rating, found, noted)
<1> DEFINE groups == TranscriptSpans
           m == Len(groups)
           compared == [c \in Candidate |-> [g \in DOMAIN groups |-> Comparison(c, groups[g])]]
           all == UNION {TranscriptFindings(c, compared[c][g]) : c \in Candidate, g \in DOMAIN groups}
           S == Candidate \X (1..m)
           F == [p \in S |-> TranscriptFindings(p[1], compared[p[1]][p[2]])]
           Reported(e) == e.severity = "critical" \/ e.value = <<"omitted">>
           Q == {e \in all : Reported(e)}
           issues == {IssueOf(e) : e \in Q}
           score == [c \in Candidate |-> TranscriptScore(compared[c])]
<1>1. TranscriptReview(role) = Draft(role, score, all, issues)
  BY DEF TranscriptReview
<1>2. n \in Nat /\ n > 0 /\ Candidate = 1..n
  <2>1. n \in Nat /\ Candidate = 1..n
    BY RoundIsTyped
  <2>2. \E history : round.candidates \in CandidateSeq(history)
    BY ReviewAssumption DEF IsRound
  <2>3. PICK T : round.candidates \in Seq(T)
    BY <2>2 DEF CandidateSeq
  <2>4. n # 0
    BY <2>3
  <2> QED BY <2>1, <2>4
<1>3. groups \in Seq(GroupType)
  BY SpansAreGroups
<1> HIDE DEF groups
<1>4. m \in Nat /\ DOMAIN groups = 1..m /\ \A g \in 1..m : groups[g] \in GroupType
  BY <1>3
<1>5. all = UNION {F[p] : p \in S}
  <2> DEFINE R == {TranscriptFindings(c, compared[c][g]) : c \in Candidate, g \in DOMAIN groups}
             L == {F[p] : p \in S}
  <2>1. \A c \in Candidate, g \in 1..m : F[<<c, g>>] = TranscriptFindings(c, compared[c][g])
    OBVIOUS
  <2> HIDE DEF compared, m
  <2>2. R = L
    <3>1. ASSUME NEW x \in R PROVE x \in L
      <4>1. PICK c \in Candidate, g \in DOMAIN groups : x = TranscriptFindings(c, compared[c][g])
        BY <3>1
      <4>2. <<c, g>> \in S /\ x = F[<<c, g>>]
        BY <1>4, <2>1, <4>1
      <4> HIDE DEF F, S
      <4> QED BY <4>2
    <3>2. ASSUME NEW x \in L PROVE x \in R
      <4>1. PICK p \in S : x = F[p]
        BY <3>2
      <4>2. p[1] \in Candidate /\ p[2] \in DOMAIN groups /\ x = TranscriptFindings(p[1], compared[p[1]][p[2]])
        BY <1>4, <4>1
      <4> QED BY <4>2
    <3> HIDE DEF R, L
    <3> QED BY <3>1, <3>2
  <2> QED BY <2>2
<1>6. Noted(all)
  <2>1. \A p \in S : Noted(F[p])
    <3>1. ASSUME NEW p \in S PROVE Noted(F[p])
      <4> DEFINE x == compared[p[1]][p[2]]
      <4>1. F[p] = TranscriptFindings(p[1], x)
        OBVIOUS
      <4> HIDE DEF x, F
      <4> QED BY <4>1, FindingsAreNoted
    <3> QED BY <3>1
  <2>2. IsFiniteSet(S)
    <3>1. IsFiniteSet(Candidate) /\ IsFiniteSet(1..m)
      BY <1>2, <1>4, IntervalSize
    <3> QED BY <3>1, FS_Product
  <2> HIDE DEF F, S, all
  <2>3. IsFiniteSet(UNION {F[p] : p \in S})
    BY <2>1, <2>2, UnionIsFinite DEF Noted
  <2> QED BY <1>5, <2>1, <2>3 DEF Noted
<1>7. score \in [1..n -> Int]
  <2>1. ASSUME NEW c \in Candidate PROVE TranscriptScore(compared[c]) \in Int
    <3> DEFINE x == [g \in 1..m |-> Comparison(c, groups[g])]
    <3>1. compared[c] = x
      BY <1>4
    <3>2. ASSUME NEW k \in 1..m PROVE x[k].said.text \in Seq(STRING) /\ x[k].consensus \in Seq(STRING)
      <4> DEFINE group == groups[k]
      <4>1. group \in GroupType
        BY <1>4
      <4>2. x[k] = Comparison(c, group)
        OBVIOUS
      <4> HIDE DEF group, x
      <4>3. x[k].said = Said(c, group) /\ x[k].consensus = SpokenText(group)
        BY <4>2 DEF Comparison
      <4> QED BY <4>1, <4>3, SaidIsText, SpokenIsText
    <3>3. x = [k \in 1..m |-> x[k]] /\ DOMAIN x = 1..m
      OBVIOUS
    <3> HIDE DEF x, m
    <3>4. TranscriptScore(x) \in Int
      <4>1. Texts(x, m)
        BY <3>2, <3>3 DEF Texts
      <4> QED BY ONLY <1>4, <3>3, <4>1, TranscriptScoreIsInteger
    <3> QED BY <3>1, <3>4
  <2> HIDE DEF compared
  <2> QED BY <1>2, <2>1
<1>8. Weighed(issues)
  <2> DEFINE named == [e \in Q |-> IssueOf(e)]
  <2>1. IsFiniteSet(Q)
    BY <1>6, FS_Subset DEF Noted
  <2>2. issues = {named[e] : e \in Q} /\ DOMAIN named = Q
    <3> HIDE DEF Q
    <3> QED OBVIOUS
  <2>3. \A e \in Q : IssueOf(e).severity \in DOMAIN SeverityWeight
    BY <1>6 DEF Noted, IssueOf
  <2>4. IsFiniteSet(issues)
    <3> HIDE DEF named, Q, issues
    <3> QED BY ONLY <2>1, <2>2, ImageIsFinite
  <2> QED BY <2>3, <2>4 DEF Weighed
<1> HIDE DEF all, issues, score
<1>9. Weighed(all) /\ \A e \in Refutations(all) : e.dimension \in HardDimensions \cup {"terminology"}
  BY <1>6 DEF Noted, Weighed, Refutations
<1> QED BY <1>1, <1>2, <1>7, <1>8, <1>9

LEMMA TranscriptIsReviewed ==
  ASSUME round \in ReviewRounds, round.candidates # <<>>, NEW role,
         NEW n, n = Len(round.candidates), NEW v, v = TranscriptReview(role)
  PROVE  Reviewed(v) /\ RanksAll(v.preferences, n)
<1>1. n \in Nat /\ n > 0
  BY TranscriptReviewIsDraft
<1>2. PICK rating, found, noted :
         /\ rating \in [1..n -> Int] /\ Weighed(found) /\ Weighed(noted)
         /\ \A e \in Refutations(found) : e.dimension \in HardDimensions \cup {"terminology"}
         /\ v = Draft(role, rating, found, noted)
  BY TranscriptReviewIsDraft
<1>3. /\ Reviewed(Draft(role, rating, found, noted)) /\ RanksAll(Draft(role, rating, found, noted).preferences, n)
      /\ Draft(role, rating, found, noted).evidence = Concerning(role, found)
      /\ Draft(role, rating, found, noted).issues = Concerning(role, noted)
  <2>1. n \in Nat /\ n > 0 /\ rating \in [1..n -> Int] /\ Weighed(found) /\ Weighed(noted)
    BY <1>1, <1>2
  <2>2. \A e \in Refutations(found) : e.dimension \in HardDimensions \cup {"terminology"}
    BY <1>2
  <2> QED BY ONLY <2>1, <2>2, DraftIsReviewed
<1> QED BY <1>2, <1>3

-----------------------------------------------------------------------------
(* What history says is a number.                                          *)

LEMMA CapIsInteger ==
  ASSUME NEW a \in Int, NEW b \in Int
  PROVE  Min({a, b}) \in Int /\ Max({a, b}) \in Int
BY PairMaxMin

LEMMA ProviderPriorIsInteger ==
  ASSUME NEW stats \in ProviderHistory
  PROVE  ProviderPrior(stats) \in Int
<1> DEFINE a == 100 * stats.recent
           b == 100 * stats.approved
           c == (1200 * stats.rate) \div One
           d == 200 * stats.hard
           e == 300 * stats.soft
           f == 300 * stats.negative
           u == 500
           v == 1500
           w == 800
           x == 600
           y == 1200
           z == 2500
           zero == 0
           boost == Min({a, u}) + Min({b, u}) + Min({c, v}) + Min({d, w}) + Min({e, x})
           rest == Min({z, boost}) - Min({f, y})
<1>1. a \in Int /\ b \in Int /\ c \in Int /\ d \in Int /\ e \in Int /\ f \in Int
  BY DEF ProviderHistory, One
<1>2. u \in Int /\ v \in Int /\ w \in Int /\ x \in Int /\ y \in Int /\ z \in Int /\ zero \in Int
  OBVIOUS
<1>3. ProviderPrior(stats) = Max({zero, rest})
  BY DEF ProviderPrior
<1> HIDE DEF a, b, c, d, e, f, u, v, w, x, y, z, zero
<1>4. boost \in Int
  <2>1. /\ Min({a, u}) \in Int /\ Min({b, u}) \in Int /\ Min({c, v}) \in Int
        /\ Min({d, w}) \in Int /\ Min({e, x}) \in Int
    BY ONLY <1>1, <1>2, CapIsInteger
  <2> QED BY ONLY <2>1
<1> HIDE DEF boost
<1>5. rest \in Int
  <2>1. Min({z, boost}) \in Int /\ Min({f, y}) \in Int
    BY ONLY <1>1, <1>2, <1>4, CapIsInteger
  <2> QED BY ONLY <2>1
<1> HIDE DEF rest
<1> QED BY <1>2, <1>3, <1>5, CapIsInteger

LEMMA TranslationPriorIsInteger ==
  ASSUME NEW history \in PromptHistory
  PROVE  TranslationPrior(history) \in Int
<1> DEFINE stats == history.stats
           memory == history.memory
           l1 == -1800
           h1 == 1800
           l2 == -2500
           h2 == 2500
           u == 800
           v == 400
           w == 1200
           raw == 500 * (stats.won - stats.lost)
           a == 200 * stats.good
           b == 100 * stats.acceptable
           c == 300 * stats.rejected
           d == 100 * stats.failures
           pairwise == Within(l1, h1, raw)
           approval == Min({a, u}) + Min({b, v})
           failure == Min({c, w}) + Min({d, u})
           sum == pairwise + approval - failure
           feedback == Within(l2, h2, sum)
           procedural == 300 * memory.strong + 150 * memory.soft - 200 * memory.negative - 50 * memory.antiPatterns
           total == feedback + procedural
<1>1. TranslationPrior(history) = Within(l2, h2, total)
  BY DEF TranslationPrior, FeedbackPrior, ProceduralPrior
<1>2. /\ l1 \in Int /\ h1 \in Int /\ l1 <= h1 /\ l2 \in Int /\ h2 \in Int /\ l2 <= h2
      /\ u \in Int /\ v \in Int /\ w \in Int
  OBVIOUS
<1>3. /\ raw \in Int /\ a \in Int /\ b \in Int /\ c \in Int /\ d \in Int /\ procedural \in Int
  BY DEF PromptHistory
<1> HIDE DEF l1, h1, l2, h2, u, v, w, raw, a, b, c, d, procedural
<1>4. pairwise \in Int
  BY ONLY <1>2, <1>3, WithinIsInteger
<1>5. approval \in Int /\ failure \in Int
  <2>1. Min({a, u}) \in Int /\ Min({b, v}) \in Int /\ Min({c, w}) \in Int /\ Min({d, u}) \in Int
    BY ONLY <1>2, <1>3, CapIsInteger
  <2> QED BY ONLY <2>1
<1> HIDE DEF pairwise, approval, failure
<1>6. sum \in Int
  BY <1>4, <1>5
<1> HIDE DEF sum
<1>7. feedback \in Int
  BY ONLY <1>2, <1>6, WithinIsInteger
<1> HIDE DEF feedback
<1>8. total \in Int
  BY <1>3, <1>7
<1> HIDE DEF total
<1>9. Within(l2, h2, total) \in Int
  BY ONLY <1>2, <1>8, WithinIsInteger
<1> QED BY <1>1, <1>9

LEMMA PriorsAreIntegers ==
  ASSUME round \in ReviewRounds
  PROVE  Priors \in [1..Len(round.candidates) -> Int]
<1> DEFINE n == Len(round.candidates)
           candidates == round.candidates
<1>1. IsRound(round)
  BY ReviewAssumption
<1>2. Candidate = 1..n
  BY RoundIsTyped
<1>3. ASSUME NEW c \in Candidate, round.stage = "transcript"
      PROVE  ProviderPrior(round.candidates[c].history) \in Int
  <2>1. candidates \in CandidateSeq(ProviderHistory) /\ c \in DOMAIN candidates
    BY <1>1, <1>3 DEF IsRound, Candidate
  <2> HIDE DEF candidates
  <2>2. candidates[c].history \in ProviderHistory
    <3> DEFINE T == [variant : STRING, history : ProviderHistory, segments : Seq(PieceType)]
    <3>1. candidates \in Seq(T)
      BY <2>1 DEF CandidateSeq
    <3> HIDE DEF T
    <3>2. candidates[c] \in T
      BY <2>1, <3>1
    <3> QED BY <3>2 DEF T
  <2> QED BY <2>2, ProviderPriorIsInteger DEF candidates
<1>4. ASSUME NEW c \in Candidate, round.stage # "transcript"
      PROVE  TranslationPrior(round.candidates[c].history) \in Int
  <2>1. candidates \in CandidateSeq(PromptHistory) /\ c \in DOMAIN candidates
    BY <1>1, <1>4 DEF IsRound, Candidate
  <2> HIDE DEF candidates
  <2>2. candidates[c].history \in PromptHistory
    <3> DEFINE T == [variant : STRING, history : PromptHistory, segments : Seq(PieceType)]
    <3>1. candidates \in Seq(T)
      BY <2>1 DEF CandidateSeq
    <3> HIDE DEF T
    <3>2. candidates[c] \in T
      BY <2>1, <3>1
    <3> QED BY <3>2 DEF T
  <2> QED BY <2>2, TranslationPriorIsInteger DEF candidates
<1>5. Priors \in [Candidate -> Int]
  BY <1>3, <1>4 DEF Priors
<1> QED BY <1>2, <1>5

LEMMA RiskIsWeighed == ASSUME NEW scenario PROVE RiskOf(scenario) \in Nat /\ RiskOf(scenario) >= 100
<1>1. CASE scenario \in {"transcript_escalation", "translation_human_review", "translation_escalation"}
  BY <1>1 DEF RiskOf
<1>2. CASE scenario = "translation_high_risk"
  BY <1>2 DEF RiskOf
<1>3. CASE scenario \notin {"transcript_escalation", "translation_human_review", "translation_escalation",
                            "translation_high_risk"}
  BY <1>3 DEF RiskOf
<1> QED BY <1>1, <1>2, <1>3

-----------------------------------------------------------------------------
(* The stage.                                                              *)

Plain(r) == r.stage = "transcript" \/ r.scenario \notin Scenarios

\* What the reviewers of a round have brought.
Brought(r, given) ==
  /\ r.candidates # <<>> =>
       /\ TwoReviews(given)
       /\ Plain(r) => Ranking2(given, Len(r.candidates))
       /\ r.stage = "translation" /\ Plain(r) =>
            \/ \A t \in 1..2 : given[t].evidence = {}
            \/ \A t \in 1..2 : Balanced(given[t], Len(r.candidates))
  /\ r.candidates = <<>> => given = <<>> /\ r.stage = "translation"

RefutedIn(given, c) == \E e \in Refutations(AllEvidence(given)) : e.candidate = c

\* What may be said of the decision of a round.
Settled(r, given, d) ==
  /\ Final(d) => Refutations(AllEvidence(given)) = {}
  /\ d.human <=> d.winner = Nobody
  /\ (r.candidates # <<>> /\ r.stage = "translation" /\ Plain(r)) =>
        \A c \in 1..Len(r.candidates) :
           (d.winner # Nobody /\ RefutedIn(given, d.winner) /\ ~RefutedIn(given, c))
             => \E t \in 1..2 : Position(given[t], d.winner) < Position(given[t], c)

LEMMA ReviewersBring ==
  ASSUME round \in ReviewRounds, round.candidates # <<>>,
         NEW given, given = [r \in 1..2 |-> ReviewOf(Roles(round.stage)[r])]
  PROVE  Brought(round, given)
<1> DEFINE n == Len(round.candidates)
<1>1. round.stage \in {"transcript", "translation"}
  BY RoundIsTyped
<1>2. \A t \in 1..2 : given[t] = ReviewOf(Roles(round.stage)[t])
  OBVIOUS
<1>3. CASE round.stage = "transcript"
  <2>1. ASSUME NEW t \in 1..2 PROVE Reviewed(given[t]) /\ RanksAll(given[t].preferences, n)
    <3> DEFINE role == Roles(round.stage)[t]
               v == given[t]
    <3>1. v = TranscriptReview(role)
      BY <1>2, <1>3 DEF ReviewOf
    <3> HIDE DEF role, v
    <3>2. Reviewed(v) /\ RanksAll(v.preferences, n)
      BY <3>1, TranscriptIsReviewed
    <3> QED BY <3>2 DEF v
  <2>2. TwoReviews(given) /\ Ranking2(given, n)
    BY <2>1 DEF TwoReviews, Ranking2
  <2> QED BY <1>3, <2>2 DEF Brought
<1>4. CASE round.stage = "translation" /\ round.scenario \in Scenarios
  <2>1. ASSUME NEW t \in 1..2 PROVE Reviewed(given[t])
    <3> DEFINE role == Roles(round.stage)[t]
    <3>1. given[t] = ScenarioReview(role)
      BY <1>2, <1>4 DEF ReviewOf
    <3> HIDE DEF role
    <3> QED BY <1>4, <3>1, ScenarioIsReviewed
  <2>2. TwoReviews(given)
    BY <2>1 DEF TwoReviews
  <2> QED BY <1>4, <2>2 DEF Brought, Plain
<1>5. CASE round.stage = "translation" /\ round.scenario \notin Scenarios
  <2>1. ASSUME NEW t \in 1..2
        PROVE  /\ Reviewed(given[t]) /\ RanksAll(given[t].preferences, n)
               /\ Spans = {} => given[t].evidence = {}
               /\ Spans # {} => Balanced(given[t], n)
    <3> DEFINE role == Roles(round.stage)[t]
               v == given[t]
    <3>1. v = TranslationReview(role)
      BY <1>2, <1>5 DEF ReviewOf
    <3> HIDE DEF role, v
    <3>2. /\ Reviewed(v) /\ RanksAll(v.preferences, n)
          /\ Spans = {} => v.evidence = {}
          /\ Spans # {} => Balanced(v, n)
      BY <1>5, <3>1, TranslationIsReviewed
    <3> QED BY <3>2 DEF v
  <2>2. TwoReviews(given) /\ Ranking2(given, n)
    BY <2>1 DEF TwoReviews, Ranking2
  <2>3. (\A t \in 1..2 : given[t].evidence = {}) \/ (\A t \in 1..2 : Balanced(given[t], n))
    BY <2>1
  <2> QED BY <1>5, <2>2, <2>3 DEF Brought
<1> QED BY <1>1, <1>3, <1>4, <1>5

\* Of two translations the policy prefers one that is refuted to one that is not only where a
\* review ranks it first.
LEMMA PreferredIsRanked ==
  ASSUME round \in ReviewRounds, round.candidates # <<>>, round.stage = "translation", Plain(round),
         NEW given, Brought(round, given), NEW n, n = Len(round.candidates),
         NEW priors, priors \in [1..n -> Int], NEW w, w = Preferred(given, priors), RefutedIn(given, w),
         NEW c \in 1..n, ~RefutedIn(given, c)
  PROVE  \E t \in 1..2 : Position(given[t], w) < Position(given[t], c)
<1>1. n \in Nat /\ n > 0
  <2>1. n \in Nat
    BY RoundIsTyped
  <2> QED BY <2>1
<1>2. Ranking2(given, n) /\ TwoReviews(given)
  BY DEF Brought
<1>3. w \in 1..n /\ \A d \in 1..n : Points(given, priors, d) <= Points(given, priors, w)
  BY ONLY <1>1, <1>2, priors \in [1..n -> Int], w = Preferred(given, priors), PreferredLeads
<1>4. PICK e \in Refutations(AllEvidence(given)) : e.candidate = w
  BY DEF RefutedIn
<1>5. PICK t \in 1..2 : e \in Refutations(EvidenceIn(given[t]))
  BY <1>2 DEF AllEvidence, Refutations, TwoReviews
<1>6. given[t].evidence # {}
  <2>1. e \in Refutations(given[t].evidence)
    BY <1>2, <1>5, EvidenceIsWeighed DEF TwoReviews
  <2> QED BY <2>1 DEF Refutations
<1>7. \A r \in 1..2 : Balanced(given[r], n)
  BY <1>6 DEF Brought
<1>8. ~Stands(given[t], w)
  BY <1>4, <1>5 DEF Stands
<1>9. \A r \in 1..2 : Stands(given[r], c)
  <2>1. ASSUME NEW r \in 1..2, NEW x \in Refutations(EvidenceIn(given[r])), x.candidate = c PROVE FALSE
    <3>1. x \in Refutations(AllEvidence(given))
      BY <1>2, <2>1 DEF AllEvidence, Refutations, TwoReviews
    <3> QED BY <2>1, <3>1 DEF RefutedIn
  <2> QED BY <2>1 DEF Stands
<1>10. SUFFICES ASSUME \A r \in 1..2 : ~(Position(given[r], w) < Position(given[r], c)) PROVE FALSE
  OBVIOUS
<1>11. \A r \in 1..2 : Stands(given[r], c) /\ ~(Position(given[r], w) < Position(given[r], c))
  BY <1>9, <1>10
<1>12. Points(given, priors, w) < Points(given, priors, c)
  BY ONLY <1>1, <1>2, <1>3, <1>7, <1>8, <1>11, priors \in [1..n -> Int], c \in 1..n, t \in 1..2, RefutedTrails
<1>13. Points(given, priors, c) <= Points(given, priors, w)
  BY <1>3
<1>14. ASSUME NEW d \in 1..n PROVE Points(given, priors, d) \in Int
  <2>2. n \in Nat /\ Ranking2(given, n) /\ priors \in [1..n -> Int] /\ d \in 1..n
    BY <1>1, <1>2
  <2>1. /\ Boost(priors, d) \in Nat /\ Boost(priors, d) <= 3500
        /\ Worth(given[1], d) \in Int /\ Worth(given[2], d) \in Int
        /\ Points(given, priors, d) = Boost(priors, d) + Worth(given[1], d) + Worth(given[2], d)
    BY ONLY <2>2, PointsAdd
  <2> QED BY ONLY <2>1
<1>15. Points(given, priors, c) \in Int /\ Points(given, priors, w) \in Int
  BY <1>3, <1>14
<1> QED BY ONLY <1>12, <1>13, <1>15

\* No decision over a refutation is final, and none without a winner is but a human's.
LEMMA OutcomeIsSettled ==
  ASSUME round \in ReviewRounds, round.candidates # <<>>, NEW given, Brought(round, given),
         NEW o, o = AdjudicateReviews(given, round.stage, Priors, RiskOf(round.scenario))
  PROVE  /\ Final(o) => Refutations(AllEvidence(given)) = {}
         /\ o.human <=> o.winner = Nobody
         /\ o.winner # Nobody => o.winner = Preferred(given, Priors)
         /\ round.stage = "transcript" => (o.preferred = Preferred(given, Priors) /\ o.preferred # Nobody)
<1> DEFINE n == Len(round.candidates)
           risk == RiskOf(round.scenario)
           kind == round.stage
           priors == Priors
<1>1. TwoReviews(given) /\ risk \in Nat /\ risk >= 100 /\ priors \in [1..n -> Int]
  BY RiskIsWeighed, PriorsAreIntegers DEF Brought
<1>2. o = AdjudicateReviews(given, kind, priors, risk)
  OBVIOUS
<1>3. ASSUME round.stage = "transcript" PROVE Preferred(given, Priors) # Nobody
  <2>1. Ranking2(given, n)
    BY <1>3 DEF Brought, Plain
  <2>2. n \in Nat /\ n > 0
    <3>1. n \in Nat
      BY RoundIsTyped
    <3> QED BY <3>1
  <2> HIDE DEF n, priors
  <2>3. Preferred(given, priors) \in 1..n
    BY ONLY <1>1, <2>1, <2>2, PreferredLeads
  <2>4. Preferred(given, priors) # Nobody
    BY <2>2, <2>3 DEF Nobody
  <2> QED BY <2>4 DEF priors
<1> HIDE DEF risk, kind, priors
<1>4. Refutations(AllEvidence(given)) # {} => ~Final(AdjudicateReviews(given, kind, priors, risk))
  BY ONLY <1>1, DisputeIsNotFinal
<1>5. /\ o.human <=> o.winner = Nobody
      /\ o.winner # Nobody => o.winner = Preferred(given, priors)
      /\ o.preferred = Preferred(given, priors)
  BY ONLY <1>2, OutcomeHasWinner
<1> QED BY <1>2, <1>3, <1>4, <1>5 DEF priors

LEMMA TranslationSettles ==
  ASSUME round \in ReviewRounds, round.candidates # <<>>, round.stage = "translation",
         NEW given, Brought(round, given),
         NEW o, o = AdjudicateReviews(given, round.stage, Priors, RiskOf(round.scenario))
  PROVE  Settled(round, given, TranslationDecision(o))
<1> DEFINE d == TranslationDecision(o)
           n == Len(round.candidates)
<1>1. /\ Final(o) => Refutations(AllEvidence(given)) = {}
      /\ o.human <=> o.winner = Nobody
      /\ o.winner # Nobody => o.winner = Preferred(given, Priors)
  BY OutcomeIsSettled
<1>2. \/ ~Final(d) /\ d.human /\ d.winner = Nobody
      \/ (Final(d) <=> Final(o)) /\ d.human = o.human /\ d.winner = o.winner
  BY DEF TranslationDecision, Final
<1> HIDE DEF d
<1>3. Final(d) => Refutations(AllEvidence(given)) = {}
  BY <1>1, <1>2
<1>4. d.human <=> d.winner = Nobody
  BY <1>1, <1>2
<1>5. ASSUME Plain(round), NEW c \in 1..n, d.winner # Nobody, RefutedIn(given, d.winner), ~RefutedIn(given, c)
      PROVE  \E t \in 1..2 : Position(given[t], d.winner) < Position(given[t], c)
  <2>1. d.winner = Preferred(given, Priors)
    BY <1>1, <1>2, <1>5
  <2>2. Priors \in [1..n -> Int]
    BY PriorsAreIntegers
  <2> QED BY <1>5, <2>1, <2>2, PreferredIsRanked
<1> QED BY <1>3, <1>4, <1>5 DEF Settled, d

LEMMA TranscriptSettles ==
  ASSUME round \in ReviewRounds, round.candidates # <<>>, round.stage = "transcript",
         NEW given, Brought(round, given),
         NEW o, o = AdjudicateReviews(given, round.stage, Priors, RiskOf(round.scenario))
  PROVE  Settled(round, given, TranscriptDecision(o))
<1> DEFINE d == TranscriptDecision(o)
<1>1. /\ Final(o) => Refutations(AllEvidence(given)) = {}
      /\ o.preferred # Nobody
  BY OutcomeIsSettled
<1>2. (Final(d) <=> Final(o)) /\ d.human = FALSE /\ d.winner # Nobody
  BY <1>1 DEF TranscriptDecision, Final
<1> HIDE DEF d
<1> QED BY <1>1, <1>2 DEF Settled, d

LEMMA NothingSettles ==
  ASSUME NEW r, r.candidates = <<>>, NEW given
  PROVE  Settled(r, given, NoTranslation)
<1>1. ~Final(NoTranslation) /\ NoTranslation.human /\ NoTranslation.winner = Nobody
  BY DEF NoTranslation, Final
<1> HIDE DEF NoTranslation
<1> QED BY <1>1 DEF Settled

AdjudicationInv ==
  /\ round \in ReviewRounds
  /\ stage \in {"review", "adjudicate", "decided", "failed"}
  /\ stage = "review" => reviews = <<>>
  /\ stage \in {"adjudicate", "decided"} => Brought(round, reviews)
  /\ stage = "decided" => Settled(round, reviews, decision)

LEMMA AdjudicationStarts == AdjudicationInit => AdjudicationInv
BY DEF AdjudicationInit, AdjudicationInv

LEMMA AdjudicationSteps == AdjudicationInv /\ [AdjudicationNext]_adjudicationVars => AdjudicationInv'
<1> SUFFICES ASSUME AdjudicationInv, [AdjudicationNext]_adjudicationVars PROVE AdjudicationInv'
  OBVIOUS
<1>1. round' = round /\ round \in ReviewRounds
  BY DEF AdjudicationInv, AdjudicationNext, adjudicationVars, ReviewCandidates, SkipReview, ReviewFails,
         AdjudicateTranslation, AdjudicateTranscript, AdjudicationOver
<1>2. CASE ReviewCandidates
  <2> DEFINE given == [r \in 1..2 |-> ReviewOf(Roles(round.stage)[r])]
  <2>1. stage' = "adjudicate" /\ reviews' = given /\ round.candidates # <<>>
    BY <1>2 DEF ReviewCandidates, HasCandidates
  <2>2. Brought(round, given)
    BY <1>1, <2>1, ReviewersBring
  <2> HIDE DEF given
  <2>3. Brought(round', reviews')
    BY <1>1, <2>1, <2>2
  <2> QED BY <1>1, <2>1, <2>3 DEF AdjudicationInv
<1>3. CASE SkipReview
  <2>1. round.candidates = <<>> /\ reviews' = <<>>
    BY <1>3 DEF SkipReview, HasCandidates, AdjudicationInv
  <2>2. stage' \in {"failed", "adjudicate"} /\ (stage' = "adjudicate" => round.stage # "transcript")
    BY <1>3 DEF SkipReview
  <2>3. round.stage \in {"transcript", "translation"}
    BY <1>1, RoundIsTyped
  <2>4. stage' = "adjudicate" => Brought(round', reviews')
    BY <1>1, <2>1, <2>2, <2>3 DEF Brought
  <2> QED BY <1>1, <2>2, <2>4 DEF AdjudicationInv
<1>4. CASE ReviewFails
  BY <1>1, <1>4 DEF ReviewFails, AdjudicationInv
<1>5. CASE AdjudicateTranslation
  <2>1. /\ stage' = "decided" /\ reviews' = reviews /\ round.stage = "translation"
        /\ decision' = IF HasCandidates THEN TranslationDecision(Outcome) ELSE NoTranslation
        /\ Brought(round, reviews)
    BY <1>5 DEF AdjudicateTranslation, AdjudicationInv
  <2>2. Settled(round, reviews, decision')
    <3>1. CASE round.candidates # <<>>
      <4> DEFINE o == Outcome
      <4>1. o = AdjudicateReviews(reviews, round.stage, Priors, RiskOf(round.scenario))
        BY DEF Outcome
      <4>2. decision' = TranslationDecision(o)
        BY <2>1, <3>1 DEF HasCandidates
      <4> HIDE DEF o
      <4> QED BY <1>1, <2>1, <3>1, <4>1, <4>2, TranslationSettles
    <3>2. CASE round.candidates = <<>>
      BY <2>1, <3>2, NothingSettles DEF HasCandidates
    <3> QED BY <3>1, <3>2
  <2>3. Settled(round', reviews', decision') /\ Brought(round', reviews')
    BY <1>1, <2>1, <2>2
  <2> QED BY <1>1, <2>1, <2>3 DEF AdjudicationInv
<1>6. CASE AdjudicateTranscript
  <2>1. /\ stage' = "decided" /\ reviews' = reviews /\ round.stage = "transcript"
        /\ decision' = TranscriptDecision(Outcome) /\ Brought(round, reviews)
    BY <1>6 DEF AdjudicateTranscript, AdjudicationInv
  <2>2. round.candidates # <<>>
    BY <2>1 DEF Brought
  <2>3. Settled(round, reviews, decision')
    <3> DEFINE o == Outcome
    <3>1. o = AdjudicateReviews(reviews, round.stage, Priors, RiskOf(round.scenario))
      BY DEF Outcome
    <3>2. decision' = TranscriptDecision(o)
      BY <2>1
    <3> HIDE DEF o
    <3> QED BY <1>1, <2>1, <2>2, <3>1, <3>2, TranscriptSettles
  <2>4. Settled(round', reviews', decision') /\ Brought(round', reviews')
    BY <1>1, <2>1, <2>3
  <2> QED BY <1>1, <2>1, <2>4 DEF AdjudicationInv
<1>7. CASE AdjudicationOver \/ UNCHANGED adjudicationVars
  <2>1. round' = round /\ stage' = stage /\ reviews' = reviews /\ decision' = decision
    BY <1>7 DEF AdjudicationOver, adjudicationVars
  <2> QED BY <2>1 DEF AdjudicationInv
<1> QED BY <1>2, <1>3, <1>4, <1>5, <1>6, <1>7 DEF AdjudicationNext

\* A decision that nobody looks at again has no candidate a reviewer refutes, and every
\* decision without a winner is left to a human.
THEOREM AutomaticDecisionIsUndisputed == AdjudicationSpec => []AutomaticIsUndisputed
<1>1. AdjudicationInv => AutomaticIsUndisputed
  <2> SUFFICES ASSUME AdjudicationInv, stage = "decided"
               PROVE  /\ decision.mode = "automatic_finalize" \/ decision.bucket = "low"
                            => \A c \in Candidate : ~Refuted(c)
                      /\ decision.human <=> decision.winner = Nobody
    BY DEF AutomaticIsUndisputed
  <2>1. Settled(round, reviews, decision)
    BY DEF AdjudicationInv
  <2>2. Final(decision) => Refutations(AllEvidence(reviews)) = {}
    BY <2>1 DEF Settled
  <2>3. decision.human <=> decision.winner = Nobody
    BY <2>1 DEF Settled
  <2>4. Final(decision) => \A c \in Candidate : ~Refuted(c)
    BY <2>2 DEF Refuted
  <2> QED BY <2>3, <2>4 DEF Final
<1> QED BY <1>1, AdjudicationStarts, AdjudicationSteps, PTL DEF AdjudicationSpec

\* A refuted translation wins over one that nobody refutes only where a reviewer ranks it first.
THEOREM RefutedTranslationWinsOnlyRanked == AdjudicationSpec => []RefutedWinsOnlyRanked
<1>1. AdjudicationInv => RefutedWinsOnlyRanked
  <2> SUFFICES ASSUME AdjudicationInv, Compared, NEW c \in Candidate,
                      decision.winner # Nobody, Refuted(decision.winner), ~Refuted(c)
               PROVE  \E r \in DOMAIN reviews : Position(reviews[r], decision.winner) < Position(reviews[r], c)
    BY DEF RefutedWinsOnlyRanked
  <2>1. /\ stage = "decided" /\ round.stage = "translation" /\ round.candidates # <<>>
        /\ Plain(round) /\ round \in ReviewRounds
    BY DEF AdjudicationInv, Compared, HasCandidates, Plain
  <2>2. Settled(round, reviews, decision) /\ Brought(round, reviews)
    BY <2>1 DEF AdjudicationInv
  <2>3. c \in 1..Len(round.candidates)
    BY <2>1, RoundIsTyped
  <2>4. RefutedIn(reviews, decision.winner) /\ ~RefutedIn(reviews, c)
    BY DEF Refuted, RefutedIn
  <2>5. \E t \in 1..2 : Position(reviews[t], decision.winner) < Position(reviews[t], c)
    BY <2>1, <2>2, <2>3, <2>4 DEF Settled
  <2>6. DOMAIN reviews = 1..2
    BY <2>1, <2>2 DEF Brought, TwoReviews
  <2> QED BY <2>5, <2>6
<1> QED BY <1>1, AdjudicationStarts, AdjudicationSteps, PTL DEF AdjudicationSpec

-----------------------------------------------------------------------------
(* The timing of cues and segments (TimedText, TimedSegments).             *)

\* A function defined step by step keeps a type.
LEMMA StepsAreTyped ==
  ASSUME NEW n \in Nat, NEW V, NEW f, f = [i \in 0..n |-> f[i]], f[0] \in V,
         \A i \in 1..n : f[i - 1] \in V => f[i] \in V
  PROVE  f \in [0..n -> V]
<1> DEFINE S == {i \in 0..n : f[i] \in V}
<1>1. 0 \in S
  OBVIOUS
<1>2. \A i \in 0..(n - 1) : i \in S => i + 1 \in S
  <2> SUFFICES ASSUME NEW i \in 0..(n - 1), i \in S PROVE i + 1 \in S
    OBVIOUS
  <2>1. i + 1 \in 1..n /\ i + 1 \in 0..n /\ (i + 1) - 1 = i
    OBVIOUS
  <2> QED BY <2>1
<1> HIDE DEF S
<1>3. \A i \in 0..n : i \in S
  BY <1>1, <1>2, IntervalInduction
<1>4. \A i \in 0..n : f[i] \in V
  BY <1>3 DEF S
<1> QED BY <1>4

\* Some of the numbers of an interval are finitely many.
LEMMA PartOfInterval ==
  ASSUME NEW m \in Int, NEW n \in Int, NEW S, S \subseteq m..n
  PROVE  S \in SUBSET Int /\ IsFiniteSet(S)
<1>1. IsFiniteSet(m..n)
  BY FS_Interval
<1>2. IsFiniteSet(S)
  BY <1>1, FS_Subset
<1>3. \A x \in m..n : x \in Int
  OBVIOUS
<1> QED BY <1>2, <1>3

-----------------------------------------------------------------------------
(* Sharing time (TimedText).                                               *)

\* What a style says of time and length.
IsStyle(style) == style.gap \in Nat /\ style.countsBlanks \in BOOLEAN /\ style.compact \in BOOLEAN

\* The styles of cues and of segments are styles.
LEMMA StylesAreTyped ==
  ASSUME TimingAssumption, NEW compact \in BOOLEAN
  PROVE  IsStyle(CueStyle(compact)) /\ IsStyle(SegmentStyle(compact))
BY DEF TimingAssumption, CueStyle, SegmentStyle, IsStyle

\* The characters of a text that are not blank are finitely many.
LEMMA InkIsFinite ==
  ASSUME NEW text \in Seq(Characters)
  PROVE  /\ IsFiniteSet(InkIn(text)) /\ InkIn(text) \subseteq 1..Len(text)
         /\ Cardinality(InkIn(text)) \in Nat
<1>1. InkIn(text) \subseteq 1..Len(text)
  BY DEF InkIn
<1>2. IsFiniteSet(1..Len(text))
  BY FS_Interval
<1> QED BY <1>1, <1>2, FS_Subset, FS_CardinalityType

\* A text has a length.
LEMMA UnitsAreCounted ==
  ASSUME NEW text \in Seq(Characters), NEW style, IsStyle(style)
  PROVE  Units(text, style) \in Nat
BY InkIsFinite DEF Units, IsStyle

\* A quotient is rounded to an integer.
LEMMA RoundedIsInteger ==
  ASSUME NEW x \in Int, NEW y \in Nat, y > 0
  PROVE  Rounded(x, y) \in Int
<1>1. x \div y \in Int /\ x % y \in Int
  OBVIOUS
<1> QED BY <1>1 DEF Rounded

\* Time shared out by length has integer bounds.
LEMMA BoundariesAreTimes ==
  ASSUME NEW parts \in Seq(Seq(Characters)), parts # <<>>, NEW shared \in Int, NEW style, IsStyle(style)
  PROVE  Boundaries(parts, shared, style) \in [0..Len(parts) -> Int]
<1> DEFINE n == Len(parts)
           Weight(k) == Max({Units(parts[k], style), 1})
           Totals(f) == [k \in 0..n |-> IF k = 0 THEN 0 ELSE f[k - 1] + Weight(k)]
           through == CHOOSE f : f = Totals(f)
           step == [p \in (1..n) \X Nat |-> p[2] + Weight(p[1])]
<1>1. n \in Nat /\ n > 0
  OBVIOUS
<1>2. \A k \in 1..n : Weight(k) \in Nat /\ Weight(k) > 0
  <2> SUFFICES ASSUME NEW k \in 1..n PROVE Weight(k) \in Nat /\ Weight(k) > 0
    OBVIOUS
  <2>1. parts[k] \in Seq(Characters)
    OBVIOUS
  <2>2. Units(parts[k], style) \in Nat
    BY <2>1, UnitsAreCounted
  <2> QED BY <2>2, PairMaxMin
<1>3. Boundaries(parts, shared, style) = [k \in 0..n |-> IF k = n THEN shared ELSE Rounded(shared * through[k], through[n])]
  BY DEF Boundaries
<1> HIDE DEF Weight
<1>4. step \in [(1..n) \X Nat -> Nat] /\ \A k \in 1..n, x \in Nat : step[<<k, x>>] = x + Weight(k)
  BY <1>2
<1> HIDE DEF step, n
<1>5. PICK f \in [0..n -> Nat] : Unrolls(f, n, 0, step)
  BY <1>1, <1>4, IntervalRecursion
<1>6. f = Totals(f)
  <2>1. ASSUME NEW k \in 0..n PROVE f[k] = IF k = 0 THEN 0 ELSE f[k - 1] + Weight(k)
    <3>1. CASE k = 0
      BY <1>5, <3>1 DEF Unrolls
    <3>2. CASE k # 0
      <4>1. k \in 1..n /\ f[k - 1] \in Nat
        BY <1>1, <1>5, <3>2
      <4> QED BY <1>4, <1>5, <3>2, <4>1 DEF Unrolls
    <3> QED BY <3>1, <3>2
  <2> QED BY <2>1
<1>7. through = Totals(through)
  <2> HIDE DEF Totals
  <2> QED BY <1>6
<1> HIDE DEF through
<1>8. through[0] = 0 /\ \A k \in 1..n : through[k] = through[k - 1] + Weight(k)
  <2>1. \A k \in 0..n : through[k] = IF k = 0 THEN 0 ELSE through[k - 1] + Weight(k)
    BY <1>7
  <2>2. 0 \in 0..n /\ \A k \in 1..n : k \in 0..n /\ k # 0
    BY <1>1
  <2> QED BY <2>1, <2>2
<1>9. through \in [0..n -> Nat]
  <2>1. through = [k \in 0..n |-> through[k]]
    BY <1>7
  <2>2. \A k \in 1..n : through[k - 1] \in Nat => through[k] \in Nat
    BY <1>2, <1>8
  <2>3. through[0] \in Nat /\ n \in Nat
    BY <1>1, <1>8
  <2> QED BY ONLY <2>1, <2>2, <2>3, StepsAreTyped
<1>10. through[n] \in Nat /\ through[n] > 0
  <2>1. n \in 1..n /\ n - 1 \in 0..n /\ n \in 0..n
    BY <1>1
  <2>2. through[n - 1] \in Nat /\ Weight(n) \in Nat /\ Weight(n) > 0 /\ through[n] = through[n - 1] + Weight(n)
    BY <1>2, <1>8, <1>9, <2>1
  <2> QED BY <2>2
<1>11. \A k \in 0..n : shared * through[k] \in Int
  BY <1>9
<1>12. \A k \in 0..n : Rounded(shared * through[k], through[n]) \in Int
  BY <1>10, <1>11, RoundedIsInteger
<1>13. Boundaries(parts, shared, style) \in [0..n -> Int]
  BY <1>3, <1>12
<1> QED BY <1>13 DEF n

\* A part ends within the time of the segment, and not before it starts.
LEMMA PartEndIsWithin ==
  ASSUME NEW from \in Int, NEW end \in Int, from <= end, NEW length \in Int, NEW latest \in Int, latest <= end
  PROVE  PartEnd(from, length, latest, end) \in Int
         /\ from <= PartEnd(from, length, latest, end) /\ PartEnd(from, length, latest, end) <= end
<1> DEFINE to == Min({from + length, latest})
<1>1. to \in Int /\ to <= latest
  <2> DEFINE sum == from + length
  <2>1. sum \in Int
    OBVIOUS
  <2> HIDE DEF sum
  <2>2. Min({sum, latest}) = IF sum <= latest THEN sum ELSE latest
    BY ONLY <2>1, latest \in Int, PairMaxMin
  <2>3. Min({sum, latest}) \in Int /\ Min({sum, latest}) <= latest
    BY <2>1, <2>2
  <2> QED BY <2>3 DEF sum
<1>2. Min({from + 1, end}) = IF from + 1 <= end THEN from + 1 ELSE end
  BY PairMaxMin
<1>3. PartEnd(from, length, latest, end) = IF to > from THEN to ELSE Min({from + 1, end})
  BY DEF PartEnd
<1> HIDE DEF to
<1> QED BY <1>1, <1>2, <1>3

\* From the start to the end of a segment, in order; without a gap, if there is none.
InTime(timed, n, start, end, gap) ==
  /\ DOMAIN timed = 1..n /\ timed = [i \in 1..n |-> timed[i]]
  /\ \A i \in 1..n : timed[i].start \in Int /\ timed[i].end \in Int /\ timed[i].start <= timed[i].end
  /\ n > 0 => timed[1].start = start /\ timed[n].end = end
  /\ \A i \in 2..n : timed[i].start >= timed[i - 1].end /\ (gap = 0 => timed[i].start = timed[i - 1].end)

\* The time that a segment has is shared out in order, however little it is.
LEMMA TimedInTime ==
  ASSUME NEW parts \in Seq(Seq(Characters)), parts # <<>>, NEW style, IsStyle(style),
         NEW start \in Int, NEW end \in Int, start <= end
  PROVE  /\ InTime(Timed(start, end, parts, style), Len(parts), start, end, style.gap)
         /\ \A i \in 1..Len(parts) : Timed(start, end, parts, style)[i].text = parts[i]
<1> DEFINE n == Len(parts)
           total == Max({end - start, 1})
           gaps == Min({style.gap * (n - 1), Max({total - n, 0})})
           bounds == Boundaries(parts, Max({total - gaps, n}), style)
           From(i, last) == IF i = 1 THEN start ELSE Min({last + style.gap, end})
           Share(i, from) == Min({Max({bounds[i] - bounds[i - 1], 1}),
                                   Max({(IF i = 1 THEN total ELSE Max({end - from, 0})) - (n - i), 1})})
           Latest(i) == end - (n - i) - (IF i < n THEN style.gap ELSE 0)
           To(i, from) == PartEnd(from, Share(i, from), Latest(i), end)
           Ends(f) == [i \in 0..n |-> IF i = 0 THEN start ELSE To(i, From(i, f[i - 1]))]
           ends == CHOOSE f : f = Ends(f)
           step == [p \in (1..n) \X Int |-> To(p[1], From(p[1], p[2]))]
           timed == Timed(start, end, parts, style)
<1>1. n \in Nat /\ n > 0 /\ style.gap \in Nat
  BY DEF IsStyle
<1>2. timed = [i \in 1..n |-> [start |-> From(i, ends[i - 1]), end |-> IF i = n THEN end ELSE ends[i], text |-> parts[i]]]
  BY DEF Timed
<1>3. total \in Int /\ gaps \in Int /\ bounds \in [0..n -> Int]
  <2>1. total \in Int
    <3>1. end - start \in Int
      OBVIOUS
    <3> QED BY <3>1, PairMaxMin
  <2> HIDE DEF total
  <2>2. gaps \in Int
    <3> HIDE DEF n
    <3>1. style.gap * (n - 1) \in Int /\ total - n \in Int
      BY <1>1, <2>1
    <3> DEFINE wanted == style.gap * (n - 1)
               free == total - n
    <3>2. wanted \in Int /\ free \in Int
      BY <3>1
    <3> HIDE DEF wanted, free
    <3>3. Max({free, 0}) \in Int
      BY ONLY <3>2, PairMaxMin
    <3>4. Min({wanted, Max({free, 0})}) \in Int
      BY ONLY <3>2, <3>3, PairMaxMin
    <3> QED BY <3>4 DEF wanted, free
  <2> HIDE DEF gaps
  <2>3. Max({total - gaps, n}) \in Int
    <3>1. total - gaps \in Int
      BY <2>1, <2>2
    <3> QED BY <1>1, <3>1, PairMaxMin
  <2>4. bounds \in [0..n -> Int]
    BY <2>3, BoundariesAreTimes
  <2> QED BY <2>1, <2>2, <2>4
<1> HIDE DEF total, gaps, bounds, n, timed
<1>4. ASSUME NEW i \in 1..n, NEW from \in Int PROVE Share(i, from) \in Int
  <2> DEFINE share == bounds[i] - bounds[i - 1]
             left == end - from
             rest == (IF i = 1 THEN total ELSE Max({left, 0})) - (n - i)
  <2>1. share \in Int /\ left \in Int
    BY <1>1, <1>3
  <2> HIDE DEF share, left
  <2>2. Max({share, 1}) \in Int
    BY ONLY <2>1, PairMaxMin
  <2>3. Max({left, 0}) \in Int
    BY ONLY <2>1, PairMaxMin
  <2>4. rest \in Int
    BY <1>1, <1>3, <2>3
  <2> HIDE DEF rest
  <2>5. Max({rest, 1}) \in Int
    BY ONLY <2>4, PairMaxMin
  <2>6. Min({Max({share, 1}), Max({rest, 1})}) \in Int
    BY ONLY <2>2, <2>5, PairMaxMin
  <2> QED BY <2>6 DEF share, left, rest
<1>5. \A i \in 1..n : Latest(i) \in Int /\ Latest(i) <= end
  BY <1>1
<1>6. ASSUME NEW i \in 1..n, NEW from \in Int, from <= end
      PROVE  To(i, from) \in Int /\ from <= To(i, from) /\ To(i, from) <= end
  <2>1. Share(i, from) \in Int
    BY <1>4
  <2>2. Latest(i) \in Int /\ Latest(i) <= end
    BY <1>5
  <2> HIDE DEF Share, Latest
  <2> QED BY <1>6, <2>1, <2>2, PartEndIsWithin
<1> HIDE DEF Share, Latest, To
<1>7. ASSUME NEW i \in 1..n, NEW last \in Int
      PROVE  /\ From(i, last) \in Int /\ From(i, last) <= end
             /\ i # 1 => From(i, last) = IF last + style.gap <= end THEN last + style.gap ELSE end
  <2> DEFINE to == last + style.gap
  <2>1. to \in Int
    BY <1>1
  <2>2. From(i, last) = IF i = 1 THEN start ELSE Min({to, end})
    OBVIOUS
  <2> HIDE DEF to, From
  <2>3. Min({to, end}) = IF to <= end THEN to ELSE end
    BY ONLY <2>1, end \in Int, PairMaxMin
  <2>4. /\ From(i, last) \in Int /\ From(i, last) <= end
        /\ i # 1 => From(i, last) = IF to <= end THEN to ELSE end
    BY <2>1, <2>2, <2>3
  <2> QED BY <2>4 DEF to
<1> HIDE DEF From
<1>8. /\ step \in [(1..n) \X Int -> Int]
      /\ \A i \in 1..n, last \in Int : step[<<i, last>>] = To(i, From(i, last))
  BY <1>6, <1>7
<1> HIDE DEF step
<1>9. PICK f \in [0..n -> Int] : Unrolls(f, n, start, step)
  BY <1>1, <1>8, IntervalRecursion
<1>10. f = Ends(f)
  <2>1. ASSUME NEW i \in 0..n PROVE f[i] = IF i = 0 THEN start ELSE To(i, From(i, f[i - 1]))
    <3>1. CASE i = 0
      BY <1>9, <3>1 DEF Unrolls
    <3>2. CASE i # 0
      <4>1. i \in 1..n /\ f[i - 1] \in Int
        BY <1>1, <1>9, <3>2
      <4> QED BY <1>8, <1>9, <3>2, <4>1 DEF Unrolls
    <3> QED BY <3>1, <3>2
  <2> QED BY <2>1
<1>11. ends = Ends(ends)
  <2> HIDE DEF Ends
  <2> QED BY <1>10
<1> HIDE DEF ends
<1>12. ends[0] = start /\ \A i \in 1..n : ends[i] = To(i, From(i, ends[i - 1]))
  <2>1. \A i \in 0..n : ends[i] = IF i = 0 THEN start ELSE To(i, From(i, ends[i - 1]))
    BY <1>11
  <2>2. 0 \in 0..n /\ \A i \in 1..n : i \in 0..n /\ i # 0
    BY <1>1
  <2> QED BY <2>1, <2>2
<1>13. ends \in [0..n -> Int]
  <2>1. ends = [i \in 0..n |-> ends[i]]
    BY <1>11
  <2>2. \A i \in 1..n : ends[i - 1] \in Int => ends[i] \in Int
    BY <1>6, <1>7, <1>12
  <2> QED BY <1>1, <1>12, <2>1, <2>2, StepsAreTyped
<1>14. ASSUME NEW i \in 1..n
       PROVE  /\ From(i, ends[i - 1]) \in Int /\ ends[i] \in Int
              /\ From(i, ends[i - 1]) <= ends[i] /\ ends[i] <= end /\ From(i, ends[i - 1]) <= end
  <2>1. ends[i - 1] \in Int
    BY <1>1, <1>13
  <2> QED BY <1>6, <1>7, <1>12, <2>1
<1>15. ASSUME NEW i \in 2..n
       PROVE  /\ i - 1 \in 1..n /\ i - 1 # n /\ i \in 1..n
              /\ From(i, ends[i - 1]) >= ends[i - 1]
              /\ style.gap = 0 => From(i, ends[i - 1]) = ends[i - 1]
  <2>1. i - 1 \in 1..n /\ i - 1 # n /\ i \in 1..n /\ i # 1
    BY <1>1
  <2>2. ends[i - 1] \in Int /\ ends[i - 1] <= end
    BY <1>14, <2>1
  <2>3. From(i, ends[i - 1]) = IF ends[i - 1] + style.gap <= end THEN ends[i - 1] + style.gap ELSE end
    BY <1>7, <2>1, <2>2
  <2> QED BY <1>1, <2>1, <2>2, <2>3
<1>16. From(1, ends[0]) = start /\ 1 \in 1..n /\ n \in 1..n
  BY <1>1 DEF From
<1>17. /\ DOMAIN timed = 1..n /\ timed = [i \in 1..n |-> timed[i]]
       /\ \A i \in 1..n : timed[i].start = From(i, ends[i - 1]) /\ timed[i].text = parts[i]
       /\ timed[n].end = end /\ \A i \in 1..n : i # n => timed[i].end = ends[i]
  BY <1>2, <1>16
<1>18. InTime(timed, n, start, end, style.gap)
  <2>1. ASSUME NEW i \in 1..n
        PROVE  timed[i].start \in Int /\ timed[i].end \in Int /\ timed[i].start <= timed[i].end
    BY <1>14, <1>17
  <2>2. timed[1].start = start /\ timed[n].end = end
    <3>1. timed[1].start = From(1, ends[1 - 1]) /\ 1 - 1 = 0
      <4> HIDE DEF From
      <4>1. timed[1].start = From(1, ends[1 - 1])
        BY <1>16, <1>17
      <4> QED BY <4>1
    <3> QED BY <1>16, <1>17, <3>1
  <2>3. ASSUME NEW i \in 2..n
        PROVE  timed[i].start >= timed[i - 1].end /\ (style.gap = 0 => timed[i].start = timed[i - 1].end)
    BY <1>15, <1>17
  <2> QED BY <1>17, <2>1, <2>2, <2>3 DEF InTime
<1> QED BY <1>17, <1>18 DEF n, timed

-----------------------------------------------------------------------------
(* Cutting text (TimedText): the parts of a text are texts.                *)

\* A text, of the characters that TimedText tells apart.
Text == Seq(Characters)

\* A piece of a text is a text.
LEMMA CutIsText ==
  ASSUME NEW text \in Text, NEW i \in Int, NEW j \in Int, 1 <= i, j <= Len(text)
  PROVE  SubSeq(text, i, j) \in Text
<1>1. \A k \in i..j : text[k] \in Characters
  BY DEF Text
<1> QED BY <1>1 DEF Text

\* A text without its outer blanks is a text, empty if it was blank.
LEMMA StripIsText ==
  ASSUME NEW text \in Text
  PROVE  Strip(text) \in Text /\ (Strip(text) = <<>> <=> InkIn(text) = {})
<1>1. InkIn(text) \subseteq 1..Len(text) /\ IsFiniteSet(InkIn(text))
  BY InkIsFinite DEF Text
<1>2. CASE InkIn(text) = {}
  BY <1>2 DEF Strip, Text
<1>3. CASE InkIn(text) # {}
  <2> DEFINE i == Min(InkIn(text))
             j == Max(InkIn(text))
  <2>1. InkIn(text) \in SUBSET Int
    BY <1>1
  <2>2. i \in InkIn(text) /\ j \in InkIn(text) /\ i <= j
    <3>1. i \in InkIn(text) /\ \A y \in InkIn(text) : i <= y
      BY <1>1, <1>3, <2>1, SmallestIsMin
    <3>2. j \in InkIn(text)
      BY <1>1, <1>3, <2>1, GreatestIsMax
    <3> QED BY <3>1, <3>2
  <2>3. Strip(text) = SubSeq(text, i, j)
    BY <1>3 DEF Strip
  <2> HIDE DEF i, j
  <2>4. i \in 1..Len(text) /\ j \in 1..Len(text) /\ Len(text) \in Nat
    BY <1>1, <2>2 DEF Text
  <2>5. SubSeq(text, i, j) \in Text
    BY <2>4, CutIsText
  <2>6. Len(SubSeq(text, i, j)) = j - i + 1
    BY <2>2, <2>4 DEF Text
  <2>7. SubSeq(text, i, j) # <<>>
    BY <2>2, <2>4, <2>6
  <2> QED BY <1>3, <2>3, <2>5, <2>7
<1> QED BY <1>2, <1>3

\* Two texts joined are a text.
LEMMA JoinIsText ==
  ASSUME NEW left \in Text, NEW right \in Text, NEW style
  PROVE  Join(left, right, style) \in Text
<1>1. <<>> \in Text /\ <<" ">> \in Text
  <2>1. <<>> \in Seq(Characters)
    OBVIOUS
  <2>2. \A c \in Characters : <<c>> \in Seq(Characters)
    OBVIOUS
  <2>3. " " \in Characters
    BY DEF Characters
  <2> QED BY <2>1, <2>2, <2>3 DEF Text
<1>2. \A s, t \in Text : s \o t \in Text
  BY DEF Text
<1>3. (IF style.compact THEN <<>> ELSE <<" ">>) \in Text
  BY <1>1
<1> QED BY <1>2, <1>3 DEF Join

\* A text that is not empty can be cut before its end.
LEMMA CutsAreInside ==
  ASSUME NEW text \in Text, text # <<>>, NEW style
  PROVE  /\ Cuts(text, style) # {} /\ IsFiniteSet(Cuts(text, style))
         /\ Cuts(text, style) \subseteq 0..(Len(text) - 1)
<1> DEFINE inner == 1..(Len(text) - 1)
           stops == {k \in inner : text[k] \in style.stops}
           blanks == {k - 1 : k \in {x \in inner : ~style.compact /\ text[x] = " "}}
           cuts == stops \cup blanks
<1>1. Len(text) \in Nat /\ Len(text) >= 1
  BY DEF Text
<1>2. Cuts(text, style) = IF cuts = {} THEN {Len(text) \div 2} ELSE cuts
  BY DEF Cuts
<1>3. cuts \subseteq 0..(Len(text) - 1)
  <2>1. \A k \in inner : k \in 0..(Len(text) - 1) /\ k - 1 \in 0..(Len(text) - 1)
    BY <1>1
  <2> HIDE DEF inner
  <2> QED BY <2>1
<1>4. Len(text) \div 2 \in 0..(Len(text) - 1)
  BY <1>1
<1>5. IsFiniteSet(0..(Len(text) - 1))
  BY <1>1, FS_Interval
<1> HIDE DEF cuts
<1>6. Cuts(text, style) # {} /\ Cuts(text, style) \subseteq 0..(Len(text) - 1)
  BY <1>2, <1>3, <1>4
<1> QED BY <1>5, <1>6, FS_Subset

\* One of the cuts is the nearest, and the first of those.
LEMMA NearestCutIsOne ==
  ASSUME NEW cuts, cuts # {}, IsFiniteSet(cuts), NEW text \in Text, cuts \subseteq 0..(Len(text) - 1),
         NEW doubled \in Int, NEW style, IsStyle(style)
  PROVE  NearestCut(cuts, text, doubled, style) \in cuts
<1> DEFINE Off(k) == Distance(2 * Units(SubSeq(text, 1, k), style), doubled)
           R == {p \in cuts \X cuts : Off(p[1]) < Off(p[2]) \/ (Off(p[1]) = Off(p[2]) /\ p[1] < p[2])}
<1>1. \A k \in cuts : Off(k) \in Int /\ k \in Int
  <2> SUFFICES ASSUME NEW k \in cuts PROVE Off(k) \in Int /\ k \in Int
    OBVIOUS
  <2>1. Len(text) \in Nat
    BY DEF Text
  <2>2. k \in Int /\ k <= Len(text)
    BY <2>1
  <2>3. SubSeq(text, 1, k) \in Seq(Characters)
    BY <2>2, CutIsText DEF Text
  <2>4. Units(SubSeq(text, 1, k), style) \in Nat
    BY <2>3, UnitsAreCounted
  <2> QED BY <2>2, <2>4 DEF Distance
<1>2. NearestCut(cuts, text, doubled, style) = CHOOSE k \in cuts : \A m \in cuts : Off(k) < Off(m) \/ (Off(k) = Off(m) /\ k <= m)
  BY DEF NearestCut
<1> HIDE DEF Off
<1>3. StrictOrder(R, cuts)
  <2>1. \A x, y \in cuts : <<x, y>> \in R <=> Off(x) < Off(y) \/ (Off(x) = Off(y) /\ x < y)
    OBVIOUS
  <2> HIDE DEF R
  <2> QED BY <1>1, <2>1 DEF StrictOrder
<1>4. \A x, y \in cuts : <<x, y>> \in R => Off(x) < Off(y) \/ (Off(x) = Off(y) /\ x < y)
  OBVIOUS
<1> HIDE DEF R
<1>5. PICK k \in cuts : \A m \in cuts \ {k} : <<k, m>> \in R
  BY <1>3, FirstExists
<1>6. \A m \in cuts : Off(k) < Off(m) \/ (Off(k) = Off(m) /\ k <= m)
  <2> SUFFICES ASSUME NEW m \in cuts PROVE Off(k) < Off(m) \/ (Off(k) = Off(m) /\ k <= m)
    OBVIOUS
  <2>1. CASE m = k
    BY <1>1, <2>1
  <2>2. CASE m # k
    <3>1. Off(k) < Off(m) \/ (Off(k) = Off(m) /\ k < m)
      BY <1>4, <1>5, <2>2
    <3> QED BY <1>1, <3>1
  <2> QED BY <2>1, <2>2
<1> QED BY <1>2, <1>6

\* A text is left whole or cut in two.
LEMMA HalvesAreTexts ==
  ASSUME NEW text \in Text, NEW style, IsStyle(style)
  PROVE  /\ Halves(text, style) \in Seq(Text)
         /\ Len(Halves(text, style)) = 1 \/ Len(Halves(text, style)) = 2
<1> DEFINE doubled == 2 * Max({Units(text, style) \div 2, 1})
           cut == NearestCut(Cuts(text, style), text, doubled, style)
<1>1. Units(text, style) \in Nat
  BY UnitsAreCounted DEF Text
<1>2. CASE Units(text, style) <= 1
  BY <1>2 DEF Halves
<1>3. CASE Units(text, style) > 1
  <2>1. text # <<>>
    <3> SUFFICES ASSUME text = <<>> PROVE FALSE
      OBVIOUS
    <3>1. Len(text) = 0 /\ InkIn(text) = {}
      BY DEF InkIn
    <3>2. Units(text, style) = 0
      BY <3>1, FS_EmptySet DEF Units
    <3> QED BY <1>3, <3>2
  <2>2. doubled \in Int
    <3>1. Units(text, style) \div 2 \in Int
      BY <1>1
    <3> QED BY <3>1, PairMaxMin
  <2> HIDE DEF doubled
  <2>3. cut \in Cuts(text, style) /\ Cuts(text, style) \subseteq 0..(Len(text) - 1)
    BY <2>1, <2>2, CutsAreInside, NearestCutIsOne
  <2>4. Halves(text, style) = <<Strip(SubSeq(text, 1, cut)), Strip(SubSeq(text, cut + 1, Len(text)))>>
    BY <1>1, <1>3 DEF Halves, doubled
  <2> HIDE DEF cut
  <2>5. cut \in Nat /\ cut <= Len(text) /\ Len(text) \in Nat
    BY <2>3 DEF Text
  <2>6. SubSeq(text, 1, cut) \in Text /\ SubSeq(text, cut + 1, Len(text)) \in Text
    BY <2>5, CutIsText
  <2>7. Strip(SubSeq(text, 1, cut)) \in Text /\ Strip(SubSeq(text, cut + 1, Len(text))) \in Text
    BY <2>6, StripIsText
  <2> QED BY <2>4, <2>7
<1> QED BY <1>1, <1>2, <1>3

\* The words or sentences of a text are texts.
LEMMA PiecesAreTexts ==
  ASSUME NEW text \in Text, NEW style
  PROVE  Pieces(text, style) \in Seq(Text)
<1> DEFINE Starts(k) == IF style.compact THEN k = 1 \/ text[k - 1] \in style.stops
                       ELSE IsInk(text[k]) /\ (k = 1 \/ ~IsInk(text[k - 1]))
           starts == {k \in DOMAIN text : Starts(k)}
           Ends(k) == {m \in starts : m > k} \cup {Len(text) + 1}
           Piece(k) == Strip(SubSeq(text, k, Min(Ends(k)) - 1))
           full == {k \in starts : Piece(k) # <<>>}
           order == InOrder(full)
<1>1. Pieces(text, style) = [i \in DOMAIN order |-> Piece(order[i])]
  BY DEF Pieces
<1>2. Len(text) \in Nat /\ starts \subseteq 1..Len(text)
  BY DEF Text
<1> HIDE DEF starts
<1>3. ASSUME NEW k \in starts PROVE Piece(k) \in Text
  <2>1. IsFiniteSet(Ends(k)) /\ Ends(k) \in SUBSET Int /\ Ends(k) # {} /\ \A m \in Ends(k) : m <= Len(text) + 1
    <3> DEFINE top == Len(text) + 1
    <3>1. top \in Int /\ \A m \in starts : m \in 1..top
      BY <1>2
    <3>2. top \in Ends(k) /\ top \in 1..top
      BY <1>2
    <3>3. \A m \in Ends(k) : m \in starts \/ m = top
      OBVIOUS
    <3> HIDE DEF Ends, top
    <3>4. Ends(k) \subseteq 1..top
      BY <3>1, <3>2, <3>3
    <3>5. Ends(k) \in SUBSET Int /\ IsFiniteSet(Ends(k))
      BY ONLY <3>1, <3>4, 1 \in Int, PartOfInterval
    <3>6. \A m \in Ends(k) : m <= top
      BY <3>1, <3>4
    <3> QED BY <3>2, <3>5, <3>6 DEF top
  <2> DEFINE m == Min(Ends(k))
  <2> HIDE DEF Ends
  <2>2. m \in Ends(k)
    BY <2>1, SmallestIsMin
  <2>3. m - 1 \in Int /\ m - 1 <= Len(text) /\ k \in Int /\ 1 <= k
    BY <1>2, <2>1, <2>2
  <2>4. SubSeq(text, k, m - 1) \in Text
    BY <2>3, CutIsText
  <2> QED BY <2>4, StripIsText
<1> HIDE DEF Piece
<1>4. full \in SUBSET Int /\ IsFiniteSet(full)
  <2>1. full \subseteq starts
    OBVIOUS
  <2> HIDE DEF full
  <2>2. full \subseteq 1..Len(text) /\ Len(text) \in Int
    BY <1>2, <2>1
  <2> QED BY ONLY <2>2, 1 \in Int, PartOfInterval
<1>5. Cardinality(full) \in Nat /\ order \in [1..Cardinality(full) -> full]
  BY <1>4, InOrderLists
<1>6. \A i \in 1..Cardinality(full) : order[i] \in starts
  BY <1>5
<1> HIDE DEF order, full
<1> QED BY <1>1, <1>3, <1>5, <1>6

\* A text whose blanks are collapsed is a text.
LEMMA NormalizedIsText ==
  ASSUME NEW text \in Text
  PROVE  NormalizedText(text) \in Text
<1> DEFINE keep == {k \in DOMAIN text : k = 1 \/ IsInk(text[k]) \/ IsInk(text[k - 1])}
           left == InOrder(keep)
           packed == [i \in DOMAIN left |-> text[left[i]]]
<1>1. NormalizedText(text) = Strip(packed)
  BY DEF NormalizedText
<1>2. keep \subseteq 1..Len(text) /\ Len(text) \in Nat
  BY DEF Text
<1> HIDE DEF keep
<1>3. keep \in SUBSET Int /\ IsFiniteSet(keep)
  <2>1. Len(text) \in Int
    BY <1>2
  <2> QED BY ONLY <1>2, <2>1, 1 \in Int, PartOfInterval
<1>4. Cardinality(keep) \in Nat /\ left \in [1..Cardinality(keep) -> keep]
  BY <1>3, InOrderLists
<1> HIDE DEF left
<1>5. \A i \in 1..Cardinality(keep) : text[left[i]] \in Characters
  <2>1. \A k \in 1..Len(text) : text[k] \in Characters
    BY DEF Text
  <2>2. \A i \in 1..Cardinality(keep) : left[i] \in 1..Len(text)
    BY <1>2, <1>4
  <2> QED BY <2>1, <2>2
<1>6. packed \in Text
  BY <1>4, <1>5 DEF Text
<1> HIDE DEF packed
<1> QED BY <1>1, <1>6, StripIsText

\* An element of a sequence is replaced by one of the same kind.
LEMMA PutIsTyped ==
  ASSUME NEW T, NEW s \in Seq(T), s # <<>>, NEW x \in T
  PROVE  [s EXCEPT ![Len(s)] = x] \in Seq(T) /\ [s EXCEPT ![Len(s)] = x] # <<>>
<1>1. Len(s) \in Nat /\ Len(s) > 0 /\ s = [i \in 1..Len(s) |-> s[i]]
  OBVIOUS
<1> DEFINE n == Len(s)
           put == [s EXCEPT ![Len(s)] = x]
<1>2. put = [i \in 1..n |-> IF i = n THEN x ELSE s[i]]
  BY <1>1
<1>3. \A i \in 1..n : s[i] \in T
  OBVIOUS
<1> HIDE DEF n
<1>4. put \in [1..n -> T]
  BY <1>2, <1>3
<1>5. n \in Nat /\ n > 0
  BY <1>1 DEF n
<1> HIDE DEF put
<1>6. put \in Seq(T) /\ Len(put) = n
  BY <1>4, <1>5
<1>7. put # <<>>
  BY <1>5, <1>6
<1> QED BY <1>6, <1>7 DEF put

\* However often a text is halved, it is texts.
LEMMA BoundedIsTexts ==
  ASSUME NEW text \in Text, NEW limit, NEW style, IsStyle(style)
  PROVE  Bounded(text, limit, style) \in Seq(Text)
<1> DEFINE n == Len(text)
           Bisected(t) == IF Units(t, style) <= limit THEN <<t>> ELSE Halves(t, style)
           Next(last) == FlattenSeq([i \in DOMAIN last |-> Bisected(last[i])])
           Steps(f) == [m \in 0..n |-> IF m = 0 THEN <<text>> ELSE Next(f[m - 1])]
           rounds == CHOOSE f : f = Steps(f)
           step == [p \in (1..n) \X Seq(Text) |-> Next(p[2])]
<1>1. Bounded(text, limit, style) = rounds[n]
  BY DEF Bounded
<1>2. n \in Nat
  BY DEF Text
<1>3. ASSUME NEW t \in Text PROVE Bisected(t) \in Seq(Text)
  <2>1. <<t>> \in Seq(Text) /\ Halves(t, style) \in Seq(Text)
    BY HalvesAreTexts
  <2> QED BY <2>1
<1> HIDE DEF Bisected, n
<1>4. ASSUME NEW last \in Seq(Text) PROVE Next(last) \in Seq(Text)
  <2> DEFINE each == [i \in DOMAIN last |-> Bisected(last[i])]
  <2>1. Len(last) \in Nat /\ DOMAIN last = 1..Len(last) /\ \A i \in 1..Len(last) : last[i] \in Text
    OBVIOUS
  <2>2. each \in [1..Len(last) -> Seq(Text)]
    BY <1>3, <2>1
  <2> HIDE DEF each
  <2>3. FlattenSeq(each) \in Seq(Text)
    BY <2>1, <2>2, FlatteningKeepsAll
  <2> QED BY <2>3 DEF each
<1> HIDE DEF Next
<1>5. step \in [(1..n) \X Seq(Text) -> Seq(Text)]
      /\ \A i \in 1..n, last \in Seq(Text) : step[<<i, last>>] = Next(last)
  BY <1>4
<1>6. <<text>> \in Seq(Text)
  OBVIOUS
<1> HIDE DEF step
<1>7. PICK f \in [0..n -> Seq(Text)] : Unrolls(f, n, <<text>>, step)
  BY <1>2, <1>5, <1>6, IntervalRecursion
<1>8. f = Steps(f)
  <2>1. ASSUME NEW i \in 0..n PROVE f[i] = IF i = 0 THEN <<text>> ELSE Next(f[i - 1])
    <3>1. CASE i = 0
      BY <1>7, <3>1 DEF Unrolls
    <3>2. CASE i # 0
      <4>1. i \in 1..n /\ f[i - 1] \in Seq(Text)
        BY <1>2, <1>7, <3>2
      <4> QED BY <1>5, <1>7, <3>2, <4>1 DEF Unrolls
    <3> QED BY <3>1, <3>2
  <2> QED BY <2>1
<1>9. rounds = Steps(rounds)
  <2> HIDE DEF Steps
  <2> QED BY <1>8
<1> HIDE DEF rounds
<1>10. rounds[0] = <<text>> /\ \A i \in 1..n : rounds[i] = Next(rounds[i - 1])
  <2>1. \A i \in 0..n : rounds[i] = IF i = 0 THEN <<text>> ELSE Next(rounds[i - 1])
    BY <1>9
  <2>2. 0 \in 0..n /\ \A i \in 1..n : i \in 0..n /\ i # 0
    BY <1>2
  <2> QED BY <2>1, <2>2
<1>11. rounds \in [0..n -> Seq(Text)]
  <2>1. rounds = [i \in 0..n |-> rounds[i]]
    BY <1>9
  <2>2. \A i \in 1..n : rounds[i - 1] \in Seq(Text) => rounds[i] \in Seq(Text)
    BY <1>4, <1>10
  <2> QED BY <1>2, <1>6, <1>10, <2>1, <2>2, StepsAreTyped
<1>12. n \in 0..n
  BY <1>2
<1> QED BY <1>1, <1>11, <1>12

\* A piece begins a clause or resumes the last one.
LEMMA ResumedIsTexts ==
  ASSUME NEW clauses \in Seq(Text), NEW piece \in Text, NEW style, IsStyle(style)
  PROVE  Resumed(clauses, piece, style) \in Seq(Text)
<1> DEFINE IsClosed(clause) == clause # <<>> /\ Last(clause) \in style.stops
           x == Join(clauses[Len(clauses)], piece, style)
<1> HIDE DEF IsClosed
<1>1. CASE clauses = <<>> \/ IsClosed(Last(clauses))
  <2>1. Resumed(clauses, piece, style) = Append(clauses, piece)
    BY <1>1 DEF Resumed, IsClosed
  <2> QED BY <2>1
<1>2. CASE ~(clauses = <<>> \/ IsClosed(Last(clauses)))
  <2>1. Resumed(clauses, piece, style) = [clauses EXCEPT ![Len(clauses)] = x]
    BY <1>2 DEF Resumed, IsClosed
  <2>2. clauses # <<>> /\ clauses[Len(clauses)] \in Text
    BY <1>2
  <2>3. x \in Text
    BY <2>2, JoinIsText
  <2> HIDE DEF x
  <2>4. [clauses EXCEPT ![Len(clauses)] = x] \in Seq(Text)
    BY <2>2, <2>3, PutIsTyped
  <2> QED BY <2>1, <2>4
<1> QED BY <1>1, <1>2

\* The clauses of a text are texts.
LEMMA ClausesAreTexts ==
  ASSUME NEW text \in Text, NEW limit, NEW style, IsStyle(style)
  PROVE  Clauses(text, limit, style) \in Seq(Text)
<1> DEFINE pieces == Pieces(text, style)
           n == Len(pieces)
           Next(i, last) == Resumed(last, pieces[i], style)
           Steps(f) == [i \in 0..n |-> IF i = 0 THEN <<>> ELSE Next(i, f[i - 1])]
           clauses == CHOOSE f : f = Steps(f)
           step == [p \in (1..n) \X Seq(Text) |-> Next(p[1], p[2])]
           all == IF pieces = <<>> THEN <<text>> ELSE clauses[n]
           each == [i \in DOMAIN all |-> Bounded(all[i], limit, style)]
<1>1. Clauses(text, limit, style) = FlattenSeq(each)
  BY DEF Clauses
<1>2. pieces \in Seq(Text)
  BY PiecesAreTexts
<1> HIDE DEF pieces
<1>3. n \in Nat /\ \A i \in 1..n : pieces[i] \in Text
  BY <1>2
<1> HIDE DEF n
<1>4. ASSUME NEW i \in 1..n, NEW last \in Seq(Text) PROVE Next(i, last) \in Seq(Text)
  BY <1>3, ResumedIsTexts
<1> HIDE DEF Next
<1>5. step \in [(1..n) \X Seq(Text) -> Seq(Text)]
      /\ \A i \in 1..n, last \in Seq(Text) : step[<<i, last>>] = Next(i, last)
  BY <1>4
<1>6. <<>> \in Seq(Text)
  OBVIOUS
<1> HIDE DEF step
<1>7. PICK f \in [0..n -> Seq(Text)] : Unrolls(f, n, <<>>, step)
  BY <1>3, <1>5, <1>6, IntervalRecursion
<1>8. f = Steps(f)
  <2>1. ASSUME NEW i \in 0..n PROVE f[i] = IF i = 0 THEN <<>> ELSE Next(i, f[i - 1])
    <3>1. CASE i = 0
      BY <1>7, <3>1 DEF Unrolls
    <3>2. CASE i # 0
      <4>1. i \in 1..n /\ f[i - 1] \in Seq(Text)
        BY <1>3, <1>7, <3>2
      <4> QED BY <1>5, <1>7, <3>2, <4>1 DEF Unrolls
    <3> QED BY <3>1, <3>2
  <2> QED BY <2>1
<1>9. clauses = Steps(clauses)
  <2> HIDE DEF Steps
  <2> QED BY <1>8
<1> HIDE DEF clauses
<1>10. clauses[0] = <<>> /\ \A i \in 1..n : clauses[i] = Next(i, clauses[i - 1])
  <2>1. \A i \in 0..n : clauses[i] = IF i = 0 THEN <<>> ELSE Next(i, clauses[i - 1])
    BY <1>9
  <2>2. 0 \in 0..n /\ \A i \in 1..n : i \in 0..n /\ i # 0
    BY <1>3
  <2> QED BY <2>1, <2>2
<1>11. clauses \in [0..n -> Seq(Text)]
  <2>1. clauses = [i \in 0..n |-> clauses[i]]
    BY <1>9
  <2>2. \A i \in 1..n : clauses[i - 1] \in Seq(Text) => clauses[i] \in Seq(Text)
    BY <1>4, <1>10
  <2>3. clauses[0] \in Seq(Text)
    BY <1>6, <1>10
  <2> QED BY ONLY <1>3, <2>1, <2>2, <2>3, StepsAreTyped
<1>12. all \in Seq(Text)
  <2>1. n \in 0..n /\ <<text>> \in Seq(Text)
    BY <1>3
  <2> QED BY <1>11, <2>1
<1> HIDE DEF all
<1>13. Len(all) \in Nat /\ DOMAIN all = 1..Len(all) /\ \A i \in 1..Len(all) : all[i] \in Text
  BY <1>12
<1>14. each \in [1..Len(all) -> Seq(Text)]
  BY <1>13, BoundedIsTexts
<1> HIDE DEF each
<1>15. FlattenSeq(each) \in Seq(Text)
  BY <1>13, <1>14, FlatteningKeepsAll
<1> QED BY <1>1, <1>15

\* A clause fits in the last part or begins one.
LEMMA FilledIsTexts ==
  ASSUME NEW parts \in Seq(Text), NEW clause \in Text, NEW limit, NEW style, IsStyle(style)
  PROVE  Filled(parts, clause, limit, style) \in Seq(Text) /\ Filled(parts, clause, limit, style) # <<>>
<1> DEFINE fits == parts # <<>> /\ Units(Join(Last(parts), clause, style), style) <= limit
           x == Join(parts[Len(parts)], clause, style)
<1>1. CASE ~fits
  <2>1. Filled(parts, clause, limit, style) = Append(parts, clause)
    BY <1>1 DEF Filled
  <2>2. Append(parts, clause) \in Seq(Text) /\ Len(Append(parts, clause)) = Len(parts) + 1 /\ Len(parts) \in Nat
    OBVIOUS
  <2>3. Append(parts, clause) # <<>>
    BY <2>2
  <2> QED BY <2>1, <2>2, <2>3
<1>2. CASE fits
  <2>1. Filled(parts, clause, limit, style) = [parts EXCEPT ![Len(parts)] = x]
    BY <1>2 DEF Filled
  <2>2. parts # <<>> /\ parts[Len(parts)] \in Text
    BY <1>2
  <2>3. x \in Text
    BY <2>2, JoinIsText
  <2> HIDE DEF x
  <2>4. [parts EXCEPT ![Len(parts)] = x] \in Seq(Text) /\ [parts EXCEPT ![Len(parts)] = x] # <<>>
    BY <2>2, <2>3, PutIsTyped
  <2> QED BY <2>1, <2>4
<1> QED BY <1>1, <1>2

\* A text has parts, and they are texts.
LEMMA PartsAreTexts ==
  ASSUME NEW text \in Text, NEW limit, NEW style, IsStyle(style)
  PROVE  Parts(text, limit, style) \in Seq(Text) /\ Parts(text, limit, style) # <<>>
<1> DEFINE clauses == Clauses(text, limit, style)
           n == Len(clauses)
           Next(i, last) == Filled(last, clauses[i], limit, style)
           Steps(f) == [i \in 0..n |-> IF i = 0 THEN <<>> ELSE Next(i, f[i - 1])]
           parts == CHOOSE f : f = Steps(f)
           step == [p \in (1..n) \X Seq(Text) |-> Next(p[1], p[2])]
<1>1. Parts(text, limit, style) = IF clauses = <<>> THEN <<text>> ELSE parts[n]
  BY DEF Parts
<1>2. clauses \in Seq(Text)
  BY ClausesAreTexts
<1> HIDE DEF clauses
<1>3. n \in Nat /\ (clauses # <<>> => n > 0) /\ \A i \in 1..n : clauses[i] \in Text
  BY <1>2
<1> HIDE DEF n
<1>4. ASSUME NEW i \in 1..n, NEW last \in Seq(Text) PROVE Next(i, last) \in Seq(Text) /\ Next(i, last) # <<>>
  BY <1>3, FilledIsTexts
<1> HIDE DEF Next
<1>5. step \in [(1..n) \X Seq(Text) -> Seq(Text)]
      /\ \A i \in 1..n, last \in Seq(Text) : step[<<i, last>>] = Next(i, last)
  BY <1>4
<1>6. <<>> \in Seq(Text)
  OBVIOUS
<1> HIDE DEF step
<1>7. PICK f \in [0..n -> Seq(Text)] : Unrolls(f, n, <<>>, step)
  BY <1>3, <1>5, <1>6, IntervalRecursion
<1>8. f = Steps(f)
  <2>1. ASSUME NEW i \in 0..n PROVE f[i] = IF i = 0 THEN <<>> ELSE Next(i, f[i - 1])
    <3>1. CASE i = 0
      BY <1>7, <3>1 DEF Unrolls
    <3>2. CASE i # 0
      <4>1. i \in 1..n /\ f[i - 1] \in Seq(Text)
        BY <1>3, <1>7, <3>2
      <4> QED BY <1>5, <1>7, <3>2, <4>1 DEF Unrolls
    <3> QED BY <3>1, <3>2
  <2> QED BY <2>1
<1>9. parts = Steps(parts)
  <2> HIDE DEF Steps
  <2> QED BY <1>8
<1> HIDE DEF parts
<1>10. parts[0] = <<>> /\ \A i \in 1..n : parts[i] = Next(i, parts[i - 1])
  <2>1. \A i \in 0..n : parts[i] = IF i = 0 THEN <<>> ELSE Next(i, parts[i - 1])
    BY <1>9
  <2>2. 0 \in 0..n /\ \A i \in 1..n : i \in 0..n /\ i # 0
    BY <1>3
  <2> QED BY <2>1, <2>2
<1>11. parts \in [0..n -> Seq(Text)]
  <2>1. parts = [i \in 0..n |-> parts[i]]
    BY <1>9
  <2>2. \A i \in 1..n : parts[i - 1] \in Seq(Text) => parts[i] \in Seq(Text)
    BY <1>4, <1>10
  <2>3. parts[0] \in Seq(Text)
    BY <1>6, <1>10
  <2> QED BY ONLY <1>3, <2>1, <2>2, <2>3, StepsAreTyped
<1>12. CASE clauses = <<>>
  BY <1>1, <1>12
<1>13. CASE clauses # <<>>
  <2>1. n \in 1..n /\ n - 1 \in 0..n
    BY <1>3, <1>13
  <2>2. parts[n - 1] \in Seq(Text) /\ parts[n] = Next(n, parts[n - 1])
    BY <1>10, <1>11, <2>1
  <2>3. parts[n] \in Seq(Text) /\ parts[n] # <<>>
    BY <1>4, <2>1, <2>2
  <2> QED BY <1>1, <1>13, <2>3
<1> QED BY <1>12, <1>13

\* Some texts.
SomeTexts == {p \in Seq(Text) : p # <<>>}

\* A try shares the time out among texts, and so does the next.
LEMMA RefitSharesTime ==
  ASSUME NEW start \in Int, NEW end \in Int, start <= end, NEW style, IsStyle(style), NEW parts \in SomeTexts
  PROVE  /\ Refit(start, end, parts, style).next \in SomeTexts
         /\ Refit(start, end, parts, style).timed = Timed(start, end, parts, style)
<1> DEFINE timed == Timed(start, end, parts, style)
           long == TooLong(timed, style)
           first == Min(long)
           halves == Halves(parts[first], style)
           n == Len(parts)
           refit == Refit(start, end, parts, style)
<1>1. refit.timed = timed /\ (refit.next = parts \/ (long # {} /\ refit.next = PutFor(first, halves, parts)))
  BY DEF Refit, Halved
<1> HIDE DEF refit
<1>2. n \in Nat /\ n > 0 /\ \A i \in 1..n : parts[i] \in Text
  BY DEF SomeTexts
<1>3. DOMAIN timed = 1..n
  <2>1. parts \in Seq(Seq(Characters)) /\ parts # <<>>
    BY DEF SomeTexts, Text
  <2> QED BY <2>1, TimedInTime DEF InTime
<1> HIDE DEF timed
<1>4. ASSUME long # {} PROVE PutFor(first, halves, parts) \in SomeTexts
  <2>1. long \in SUBSET Int /\ IsFiniteSet(long) /\ long \subseteq 1..n
    <3>1. long \subseteq 1..n
      BY <1>3 DEF TooLong
    <3>2. IsFiniteSet(1..n)
      BY <1>2, FS_Interval
    <3> HIDE DEF long
    <3>3. IsFiniteSet(long)
      BY <3>1, <3>2, FS_Subset
    <3>4. 1..n \subseteq Int
      OBVIOUS
    <3> QED BY <3>1, <3>3, <3>4
  <2> HIDE DEF long
  <2>2. first \in 1..n
    BY <1>4, <2>1, SmallestIsMin
  <2> HIDE DEF first
  <2>3. halves \in Seq(Text) /\ Len(halves) >= 1
    <3>1. parts[first] \in Text
      BY <1>2, <2>2
    <3>2. halves \in Seq(Text) /\ (Len(halves) = 1 \/ Len(halves) = 2)
      BY <3>1, HalvesAreTexts
    <3> HIDE DEF halves
    <3> QED BY <3>2
  <2> HIDE DEF halves
  <2>4. SubSeq(parts, 1, first - 1) \in Seq(Text) /\ SubSeq(parts, first + 1, n) \in Seq(Text)
    <3>1. parts \in Seq(Text)
      BY DEF SomeTexts
    <3> QED BY <2>2, <3>1
  <2> DEFINE left == SubSeq(parts, 1, first - 1)
             right == SubSeq(parts, first + 1, n)
  <2>5. PutFor(first, halves, parts) = left \o halves \o right
    BY DEF PutFor
  <2> HIDE DEF left, right
  <2>6. left \o halves \in Seq(Text) /\ Len(left \o halves) = Len(left) + Len(halves) /\ Len(left) \in Nat
    BY <2>3, <2>4 DEF left, right
  <2>7. left \o halves \o right \in Seq(Text) /\ Len(left \o halves \o right) = Len(left \o halves) + Len(right) /\ Len(right) \in Nat
    BY <2>4, <2>6 DEF right
  <2>8. left \o halves \o right # <<>>
    BY <2>3, <2>6, <2>7
  <2> QED BY <2>5, <2>7, <2>8 DEF SomeTexts
<1>5. refit.next \in SomeTexts
  BY <1>1, <1>4
<1> QED BY <1>1, <1>5 DEF refit, timed

\* However often it is tried, the time is shared out among texts.
LEMMA FittedSharesTime ==
  ASSUME NEW start \in Int, NEW end \in Int, start <= end, NEW style, IsStyle(style), NEW parts \in SomeTexts
  PROVE  \E p \in SomeTexts : Fitted(start, end, parts, style).timed = Timed(start, end, p, style)
<1> DEFINE n == Len(FlattenSeq(parts))
           Try(p) == Refit(start, end, p, style)
           Tries == {Try(p) : p \in SomeTexts}
           Next(last) == IF last.over THEN last ELSE Try(last.next)
           Steps(f) == [i \in 0..n |-> IF i = 0 THEN Try(parts) ELSE Next(f[i - 1])]
           tries == CHOOSE f : f = Steps(f)
           step == [p \in (1..n) \X Tries |-> Next(p[2])]
<1>1. Fitted(start, end, parts, style) = tries[n]
  BY DEF Fitted
<1>2. n \in Nat
  <2> DEFINE m == Len(parts)
  <2>1. m \in Nat /\ parts \in [1..m -> Seq(Characters)]
    BY DEF SomeTexts, Text
  <2> HIDE DEF m
  <2>2. FlattenSeq(parts) \in Seq(Characters)
    BY <2>1, FlatteningKeepsAll
  <2> QED BY <2>2
<1> HIDE DEF n
<1>3. ASSUME NEW last \in Tries PROVE Next(last) \in Tries
  <2>1. PICK p \in SomeTexts : last = Try(p)
    BY <1>3
  <2>2. last.next \in SomeTexts
    BY <2>1, RefitSharesTime
  <2> HIDE DEF Try
  <2> QED BY <1>3, <2>2
<1>4. Try(parts) \in Tries
  OBVIOUS
<1> HIDE DEF Next, Tries
<1>5. step \in [(1..n) \X Tries -> Tries] /\ \A i \in 1..n, last \in Tries : step[<<i, last>>] = Next(last)
  BY <1>3
<1> HIDE DEF step, Try
<1>6. PICK f \in [0..n -> Tries] : Unrolls(f, n, Try(parts), step)
  BY <1>2, <1>4, <1>5, IntervalRecursion
<1>7. f = Steps(f)
  <2>1. ASSUME NEW i \in 0..n PROVE f[i] = IF i = 0 THEN Try(parts) ELSE Next(f[i - 1])
    <3>1. CASE i = 0
      BY <1>6, <3>1 DEF Unrolls
    <3>2. CASE i # 0
      <4>1. i \in 1..n /\ f[i - 1] \in Tries
        BY <1>2, <1>6, <3>2
      <4> QED BY <1>5, <1>6, <3>2, <4>1 DEF Unrolls
    <3> QED BY <3>1, <3>2
  <2> QED BY <2>1
<1>8. tries = Steps(tries)
  <2> HIDE DEF Steps
  <2> QED BY <1>7
<1> HIDE DEF tries
<1>9. tries[0] = Try(parts) /\ \A i \in 1..n : tries[i] = Next(tries[i - 1])
  <2>1. \A i \in 0..n : tries[i] = IF i = 0 THEN Try(parts) ELSE Next(tries[i - 1])
    BY <1>8
  <2>2. 0 \in 0..n /\ \A i \in 1..n : i \in 0..n /\ i # 0
    BY <1>2
  <2> QED BY <2>1, <2>2
<1>10. tries \in [0..n -> Tries]
  <2>1. tries = [i \in 0..n |-> tries[i]]
    BY <1>8
  <2>2. \A i \in 1..n : tries[i - 1] \in Tries => tries[i] \in Tries
    BY <1>3, <1>9
  <2>3. tries[0] \in Tries
    BY <1>4, <1>9
  <2> QED BY ONLY <1>2, <2>1, <2>2, <2>3, StepsAreTyped
<1>11. tries[n] \in Tries
  BY <1>2, <1>10
<1>12. PICK p \in SomeTexts : tries[n] = Refit(start, end, p, style)
  BY <1>11 DEF Tries, Try
<1>13. tries[n].timed = Timed(start, end, p, style)
  BY <1>12, RefitSharesTime
<1> QED BY <1>1, <1>13

\* A segment that is cut begins and ends as it did, and its parts are in order.
LEMMA FittedInTime ==
  ASSUME NEW start \in Int, NEW end \in Int, start <= end, NEW style, IsStyle(style), NEW parts \in SomeTexts
  PROVE  \E n \in Nat \ {0} : InTime(Fitted(start, end, parts, style).timed, n, start, end, style.gap)
<1>1. PICK p \in SomeTexts : Fitted(start, end, parts, style).timed = Timed(start, end, p, style)
  BY FittedSharesTime
<1>2. p \in Seq(Seq(Characters)) /\ p # <<>> /\ Len(p) \in Nat \ {0}
  BY DEF SomeTexts, Text
<1>3. InTime(Timed(start, end, p, style), Len(p), start, end, style.gap)
  BY <1>2, TimedInTime
<1> QED BY <1>1, <1>2, <1>3

\* A segment that says something has cues from its start to its end; a blank one has none.
LEMMA CuesInTime ==
  ASSUME TimingAssumption, NEW segment \in WrittenSegment, NEW compact \in BOOLEAN
  PROVE  /\ InkIn(segment.text) = {} => CuesOf(segment, compact) = <<>>
         /\ InkIn(segment.text) # {} =>
              \E n \in Nat \ {0} : InTime(CuesOf(segment, compact), n, segment.start, segment.end, CueGap)
<1> DEFINE style == CueStyle(compact)
           text == Strip(segment.text)
           parts == Parts(text, 2 * LineChars[compact], style)
           timed == Fitted(segment.start, segment.end, parts, style).timed
           cues == CuesOf(segment, compact)
<1>1. segment.start \in Int /\ segment.end \in Int /\ segment.start <= segment.end /\ segment.text \in Text
  BY DEF WrittenSegment, Text
<1>2. IsStyle(style) /\ style.gap = CueGap
  BY StylesAreTyped DEF CueStyle
<1>3. text \in Text /\ (text = <<>> <=> InkIn(segment.text) = {})
  BY <1>1, StripIsText
<1>4. cues = IF text = <<>> THEN <<>> ELSE [i \in DOMAIN timed |-> CueOf(timed[i], style)]
  BY DEF CuesOf
<1> HIDE DEF text, style
<1>5. parts \in SomeTexts
  BY <1>2, <1>3, PartsAreTexts DEF SomeTexts
<1> HIDE DEF parts
<1>6. PICK n \in Nat \ {0} : InTime(timed, n, segment.start, segment.end, CueGap)
  BY <1>1, <1>2, <1>5, FittedInTime
<1> HIDE DEF timed, cues
<1>7. ASSUME InkIn(segment.text) # {} PROVE InTime(cues, n, segment.start, segment.end, CueGap)
  <2>1. cues = [i \in 1..n |-> CueOf(timed[i], style)]
    BY <1>3, <1>4, <1>6, <1>7 DEF InTime
  <2>2. DOMAIN cues = 1..n /\ cues = [i \in 1..n |-> cues[i]] /\ \A i \in 1..n : cues[i].start = timed[i].start /\ cues[i].end = timed[i].end
    BY <2>1 DEF CueOf
  <2>3. \A i \in 2..n : i \in 1..n /\ i - 1 \in 1..n
    OBVIOUS
  <2>4. 1 \in 1..n /\ n \in 1..n
    OBVIOUS
  <2> QED BY <1>6, <2>2, <2>3, <2>4 DEF InTime
<1> QED BY <1>3, <1>4, <1>7 DEF cues

\* A segment of a transcript is cut into segments without a gap, from its start to its end.
LEMMA SplitInTime ==
  ASSUME TimingAssumption, NEW segment \in WrittenSegment
  PROVE  \E n \in Nat \ {0} : InTime(SplitSegment(segment), n, segment.start, segment.end, 0)
<1> DEFINE style == SegmentStyle(HasIdeographs(segment.text))
           count == Max({Ceiling(segment.end - segment.start, LongestSegment), 2})
           limit == Max({Ceiling(Units(segment.text, style), count), 1})
           parts == Parts(segment.text, limit, style)
           fitted == Fitted(segment.start, segment.end, parts, style)
           whole == <<segment>>
<1>1. segment.start \in Int /\ segment.end \in Int /\ segment.start <= segment.end /\ segment.text \in Text
  BY DEF WrittenSegment, Text
<1>2. IsStyle(style) /\ style.gap = 0
  <2>1. HasIdeographs(segment.text) \in BOOLEAN
    BY DEF HasIdeographs
  <2> QED BY <2>1, StylesAreTyped DEF SegmentStyle
<1>3. SplitSegment(segment) = whole \/ SplitSegment(segment) = fitted.timed
  BY DEF SplitSegment
<1> HIDE DEF style, limit
<1>4. parts \in SomeTexts
  BY <1>1, <1>2, PartsAreTexts DEF SomeTexts
<1> HIDE DEF parts
<1>5. PICK n \in Nat \ {0} : InTime(fitted.timed, n, segment.start, segment.end, 0)
  BY <1>1, <1>2, <1>4, FittedInTime
<1>6. InTime(whole, 1, segment.start, segment.end, 0)
  BY <1>1 DEF InTime
<1> HIDE DEF whole, fitted
<1>7. 1 \in Nat \ {0}
  OBVIOUS
<1> QED BY <1>3, <1>5, <1>6, <1>7

-----------------------------------------------------------------------------
(* The parts of all segments (TimedSegments).                              *)

\* Segments in the order of time are segments.
LEMMA SortedIsWritten ==
  ASSUME NEW segments \in Seq(WrittenSegment)
  PROVE  Sorted(segments) \in [1..Len(segments) -> WrittenSegment]
<1> DEFINE n == Len(segments)
           R == {p \in (DOMAIN segments) \X (DOMAIN segments) :
                   \/ segments[p[1]].start < segments[p[2]].start
                   \/ /\ segments[p[1]].start = segments[p[2]].start
                      /\ \/ segments[p[1]].end < segments[p[2]].end
                         \/ segments[p[1]].end = segments[p[2]].end /\ p[1] < p[2]}
           order == Enumeration(DOMAIN segments, R)
<1>1. n \in Nat /\ DOMAIN segments = 1..n
  OBVIOUS
<1>2. \A i \in 1..n : segments[i].start \in Int /\ segments[i].end \in Int /\ segments[i] \in WrittenSegment
  BY DEF WrittenSegment
<1>3. Sorted(segments) = [k \in DOMAIN order |-> segments[order[k]]]
  BY DEF Sorted
<1>4. \A x, y \in 1..n : <<x, y>> \in R <=>
        \/ segments[x].start < segments[y].start
        \/ /\ segments[x].start = segments[y].start
           /\ \/ segments[x].end < segments[y].end
              \/ segments[x].end = segments[y].end /\ x < y
  BY <1>1
<1> HIDE DEF R, n
<1>5. StrictOrder(R, 1..n)
  <2>1. ASSUME NEW x \in 1..n, <<x, x>> \in R PROVE FALSE
    <3>1. segments[x].start \in Int /\ segments[x].end \in Int
      BY <1>2
    <3>2. segments[x].start < segments[x].start \/ segments[x].end < segments[x].end \/ x < x
      BY <1>4, <2>1
    <3> QED BY <1>1, <3>1, <3>2
  <2>2. ASSUME NEW x \in 1..n, NEW y \in 1..n, NEW z \in 1..n, <<x, y>> \in R, <<y, z>> \in R PROVE <<x, z>> \in R
    <3>1. /\ segments[x].start \in Int /\ segments[x].end \in Int /\ segments[y].start \in Int
          /\ segments[y].end \in Int /\ segments[z].start \in Int /\ segments[z].end \in Int
      BY <1>2
    <3> QED BY <1>1, <1>4, <2>2, <3>1
  <2>3. ASSUME NEW x \in 1..n, NEW y \in 1..n, x # y PROVE <<x, y>> \in R \/ <<y, x>> \in R
    BY <1>1, <1>2, <1>4, <2>3
  <2> QED BY <2>1, <2>2, <2>3 DEF StrictOrder
<1>6. IsFiniteSet(1..n) /\ Cardinality(1..n) = n
  BY <1>1, IntervalSize, FS_Interval
<1>7. order \in [1..n -> 1..n]
  BY <1>1, <1>5, <1>6, EnumerationLists DEF ListsInOrder
<1> HIDE DEF order
<1>8. Sorted(segments) \in [1..n -> WrittenSegment]
  BY <1>2, <1>3, <1>7
<1> QED BY <1>8 DEF n

\* A part begins before the one before it has ended.
Overlaps(parts) == \E k \in DOMAIN parts \ {1} : parts[k].start < parts[k - 1].end

\* One part after the other, they overlap within either, or where they meet.
LEMMA OverlapsOfTwo ==
  ASSUME NEW T, NEW s \in Seq(T), NEW t \in Seq(T)
  PROVE  Overlaps(s \o t) <=>
           Overlaps(s) \/ Overlaps(t) \/ (s # <<>> /\ t # <<>> /\ t[1].start < s[Len(s)].end)
<1> DEFINE m == Len(s)
           n == Len(t)
           u == s \o t
<1>1. /\ m \in Nat /\ n \in Nat /\ DOMAIN s = 1..m /\ DOMAIN t = 1..n /\ DOMAIN u = 1..(m + n)
      /\ (s # <<>> <=> m > 0) /\ (t # <<>> <=> n > 0)
  OBVIOUS
<1>2. (\A k \in 1..m : u[k] = s[k]) /\ (\A k \in 1..n : u[m + k] = t[k])
  OBVIOUS
<1> HIDE DEF m, n, u
<1>3. ASSUME Overlaps(s) PROVE Overlaps(u)
  <2>1. PICK k \in 1..m : k # 1 /\ s[k].start < s[k - 1].end
    BY <1>1, <1>3 DEF Overlaps
  <2>2. k \in 1..(m + n) /\ k # 1 /\ k - 1 \in 1..m
    BY <1>1, <2>1
  <2>3. u[k] = s[k] /\ u[k - 1] = s[k - 1]
    BY <1>2, <2>2
  <2> QED BY <1>1, <2>1, <2>2, <2>3 DEF Overlaps
<1>4. ASSUME Overlaps(t) PROVE Overlaps(u)
  <2>1. PICK k \in 1..n : k # 1 /\ t[k].start < t[k - 1].end
    BY <1>1, <1>4 DEF Overlaps
  <2>2. m + k \in 1..(m + n) /\ m + k # 1 /\ k - 1 \in 1..n /\ (m + k) - 1 = m + (k - 1)
    BY <1>1, <2>1
  <2>3. u[m + k] = t[k] /\ u[m + (k - 1)] = t[k - 1]
    BY <1>2, <2>2
  <2>4. u[m + k].start < u[(m + k) - 1].end
    BY <2>1, <2>2, <2>3
  <2> QED BY <1>1, <2>2, <2>4 DEF Overlaps
<1>5. ASSUME m > 0, n > 0, t[1].start < s[m].end PROVE Overlaps(u)
  <2>1. m + 1 \in 1..(m + n) /\ m + 1 # 1 /\ (m + 1) - 1 = m /\ m \in 1..m /\ 1 \in 1..n
    BY <1>1, <1>5
  <2>2. u[m + 1] = t[1] /\ u[m] = s[m]
    BY <1>2, <2>1
  <2>3. u[m + 1].start < u[(m + 1) - 1].end
    BY <1>5, <2>1, <2>2
  <2> QED BY <1>1, <2>1, <2>3 DEF Overlaps
<1>6. ASSUME Overlaps(u) PROVE Overlaps(s) \/ Overlaps(t) \/ (m > 0 /\ n > 0 /\ t[1].start < s[m].end)
  <2>1. PICK k \in 1..(m + n) : k # 1 /\ u[k].start < u[k - 1].end
    BY <1>1, <1>6 DEF Overlaps
  <2>2. CASE k <= m
    <3>1. k \in 1..m /\ k - 1 \in 1..m
      BY <1>1, <2>1, <2>2
    <3>2. s[k].start < s[k - 1].end
      BY <1>2, <2>1, <3>1
    <3> QED BY <1>1, <2>1, <3>1, <3>2 DEF Overlaps
  <2>3. CASE k = m + 1
    <3>1. k = m + 1 /\ 1 \in 1..n /\ k - 1 = m /\ m \in 1..m /\ m > 0 /\ n > 0
      BY <1>1, <2>1, <2>3
    <3>2. u[k] = t[1] /\ u[k - 1] = s[m]
      BY <1>2, <3>1
    <3> QED BY <2>1, <3>1, <3>2
  <2>4. CASE k > m + 1
    <3> DEFINE j == k - m
    <3>1. j \in 1..n /\ j # 1 /\ j - 1 \in 1..n /\ k = m + j /\ k - 1 = m + (j - 1)
      BY <1>1, <2>1, <2>4
    <3> HIDE DEF j
    <3>2. u[m + j] = t[j] /\ u[m + (j - 1)] = t[j - 1]
      BY <1>2, <3>1
    <3>3. t[j].start < t[j - 1].end
      BY <2>1, <3>1, <3>2
    <3> QED BY <1>1, <3>1, <3>3 DEF Overlaps
  <2> QED BY <1>1, <2>1, <2>2, <2>3, <2>4
<1>7. Overlaps(u) <=> Overlaps(s) \/ Overlaps(t) \/ (m > 0 /\ n > 0 /\ t[1].start < s[m].end)
  BY <1>3, <1>4, <1>5, <1>6
<1>8. Overlaps(u) <=> Overlaps(s) \/ Overlaps(t) \/ (s # <<>> /\ t # <<>> /\ t[1].start < s[m].end)
  BY <1>1, <1>7
<1> QED BY <1>8 DEF m, u

\* The elements of S that are next to each other.
AreNext(S, i, j) == i \in S /\ j \in S /\ i < j /\ \A k \in S : k <= i \/ k >= j

\* Parts that are in time overlap where segments next to each other do.
LEMMA OverlapsAreOfSegments ==
  ASSUME NEW n \in Nat, n > 0, NEW T, NEW all \in [1..n -> Seq(T)], NEW gap,
         NEW begins \in [1..n -> Int], NEW ends \in [1..n -> Int],
         NEW S \in SUBSET (1..n), \A i \in 1..n : i \notin S => all[i] = <<>>,
         \A i \in S : all[i] # <<>> /\ InTime(all[i], Len(all[i]), begins[i], ends[i], gap)
  PROVE  Overlaps(FlattenSeq(all)) <=> \E i, j \in S : AreNext(S, i, j) /\ begins[j] < ends[i]
<1>1. PICK f \in [1..n -> Seq(T)] : Joined(f, n, all) /\ FlattenSeq(all) = f[n]
  BY Flattening
<1> DEFINE HasSome(m) == f[m] # <<>> <=> \E i \in S : i <= m
           EndsWith(m) == \A i \in S : i <= m /\ (\A j \in S : j <= m => j <= i) => f[m][Len(f[m])].end = ends[i]
           Late(m) == \E i, j \in S : j <= m /\ AreNext(S, i, j) /\ begins[j] < ends[i]
           Good == {m \in 1..n : HasSome(m) /\ EndsWith(m) /\ (Overlaps(f[m]) <=> Late(m))}
<1>0. \A i \in S : i \in Int /\ 1 <= i /\ i <= n
  OBVIOUS
<1>2. ASSUME NEW i \in S
      PROVE  /\ i \in 1..n /\ all[i] # <<>> /\ all[i][1].start = begins[i] /\ all[i][Len(all[i])].end = ends[i]
             /\ ~Overlaps(all[i])
  <2>1. i \in 1..n /\ all[i] \in Seq(T) /\ all[i] # <<>>
    OBVIOUS
  <2> DEFINE s == all[i]
             m == Len(s)
  <2>2. m \in Nat /\ m > 0 /\ DOMAIN s = 1..m
    BY <2>1
  <2>3. InTime(s, m, begins[i], ends[i], gap)
    OBVIOUS
  <2> HIDE DEF s, m
  <2>4. s[1].start = begins[i] /\ s[m].end = ends[i]
    BY <2>2, <2>3 DEF InTime
  <2>5. ~Overlaps(s)
    <3> SUFFICES ASSUME NEW k \in 1..m, k # 1, s[k].start < s[k - 1].end PROVE FALSE
      BY <2>2 DEF Overlaps
    <3>1. k \in 2..m /\ k - 1 \in 1..m
      BY <2>2
    <3>2. s[k].start >= s[k - 1].end /\ s[k].start \in Int /\ s[k - 1].end \in Int
      BY <2>3, <3>1 DEF InTime
    <3> QED BY <3>2
  <2> QED BY <2>1, <2>4, <2>5 DEF s, m
<1>3. 1 \in Good
  <2>1. f[1] = all[1] /\ 1 \in 1..n
    BY <1>1 DEF Joined
  <2>2. CASE 1 \in S
    <3>1. HasSome(1) /\ EndsWith(1) /\ ~Overlaps(f[1])
      <4>1. \A i \in S : i <= 1 => i = 1
        BY <1>0
      <4>2. f[1] # <<>> /\ f[1][Len(f[1])].end = ends[1] /\ ~Overlaps(f[1])
        BY <1>2, <2>1, <2>2
      <4>3. HasSome(1)
        BY <2>2, <4>2
      <4>4. EndsWith(1)
        BY <4>1, <4>2
      <4> HIDE DEF HasSome, EndsWith
      <4> QED BY <4>2, <4>3, <4>4
    <3>2. ~Late(1)
      BY <1>0 DEF AreNext
    <3> QED BY <2>1, <3>1, <3>2
  <2>3. CASE 1 \notin S
    <3>1. \A i \in S : ~(i <= 1)
      BY <2>3
    <3>2. f[1] = <<>> /\ ~Overlaps(f[1])
      BY <2>1, <2>3 DEF Overlaps
    <3> QED BY <2>1, <3>1, <3>2
  <2> QED BY <2>2, <2>3
<1>4. ASSUME NEW m \in 1..(n - 1), m \in Good PROVE m + 1 \in Good
  <2>1. m \in 1..n /\ m + 1 \in 1..n /\ f[m + 1] = f[m] \o all[m + 1]
    <3>1. m + 1 \in 2..n /\ (m + 1) - 1 = m /\ m \in 1..n /\ m + 1 \in 1..n
      OBVIOUS
    <3>2. f[m + 1] = f[(m + 1) - 1] \o all[m + 1]
      BY <1>1, <3>1 DEF Joined
    <3> QED BY <3>1, <3>2
  <2>2. HasSome(m) /\ EndsWith(m) /\ (Overlaps(f[m]) <=> Late(m))
    BY <1>4
  <2> HIDE DEF Good
  <2>3. f[m] \in Seq(T) /\ all[m + 1] \in Seq(T)
    BY <2>1
  <2>4. CASE m + 1 \notin S
    <3>1. f[m + 1] = f[m]
      <4>1. all[m + 1] = <<>> /\ f[m] \o <<>> = f[m]
        BY <2>1, <2>3, <2>4
      <4> QED BY <2>1, <4>1
    <3>2. ASSUME NEW i \in S PROVE i <= m + 1 <=> i <= m
      <4>1. i \in Int /\ m \in Int /\ i # m + 1
        BY <1>0, <2>4
      <4> QED BY <4>1
    <3>3. HasSome(m + 1) /\ EndsWith(m + 1)
      BY <2>2, <3>1, <3>2
    <3>4. Late(m + 1) <=> Late(m)
      BY <3>2
    <3>5. HasSome(m + 1) /\ EndsWith(m + 1) /\ (Overlaps(f[m + 1]) <=> Late(m + 1))
      BY <2>2, <3>1, <3>3, <3>4
    <3> QED BY <2>1, <3>5 DEF Good
  <2>5. CASE m + 1 \in S
    <3> DEFINE t == all[m + 1]
               u == f[m + 1]
    <3>1. t \in Seq(T) /\ t # <<>> /\ t[1].start = begins[m + 1] /\ t[Len(t)].end = ends[m + 1] /\ ~Overlaps(t)
      BY <1>2, <2>3, <2>5
    <3>2. u = f[m] \o t
      BY <2>1
    <3>3. u # <<>> /\ u[Len(u)] = t[Len(t)]
      <4> DEFINE w == f[m]
      <4>0. w \in Seq(T) /\ t \in Seq(T) /\ t # <<>> /\ u = w \o t
        BY <2>3, <3>1, <3>2
      <4> HIDE DEF t, u, w
      <4>1. Len(t) \in Nat /\ Len(t) > 0 /\ Len(w) \in Nat
        BY <4>0
      <4>2. Len(u) = Len(w) + Len(t) /\ u[Len(w) + Len(t)] = t[Len(t)]
        BY <4>0, <4>1
      <4>3. u # <<>>
        BY <4>0, <4>1, <4>2
      <4> QED BY <4>2, <4>3
    <3>4. \A i \in S : i <= m + 1 <=> i = m + 1 \/ i <= m
      BY <1>0
    <3>5. HasSome(m + 1)
      BY <2>5, <3>3
    <3>6. EndsWith(m + 1)
      <4> SUFFICES ASSUME NEW i \in S, i <= m + 1, \A j \in S : j <= m + 1 => j <= i PROVE u[Len(u)].end = ends[i]
        OBVIOUS
      <4>1. i = m + 1
        BY <2>5
      <4> QED BY <3>1, <3>3, <4>1
    <3>7. Overlaps(u) <=> Overlaps(f[m]) \/ (f[m] # <<>> /\ t[1].start < f[m][Len(f[m])].end)
      <4> HIDE DEF t, u
      <4>1. Overlaps(f[m] \o t)
              <=> Overlaps(f[m]) \/ Overlaps(t) \/ (f[m] # <<>> /\ t # <<>> /\ t[1].start < f[m][Len(f[m])].end)
        BY ONLY <2>3, <3>1, OverlapsOfTwo
      <4> QED BY <3>1, <3>2, <4>1
    <3>8. Late(m + 1) <=> Late(m) \/ \E i \in S : AreNext(S, i, m + 1) /\ begins[m + 1] < ends[i]
      BY <2>5, <3>4
    <3>9. (f[m] # <<>> /\ t[1].start < f[m][Len(f[m])].end)
            <=> \E i \in S : AreNext(S, i, m + 1) /\ begins[m + 1] < ends[i]
      <4>1. CASE \A i \in S : ~(i <= m)
        <5>1. f[m] = <<>>
          BY <2>2, <4>1
        <5>2. \A i \in S : ~AreNext(S, i, m + 1)
          BY <2>1, <4>1 DEF AreNext
        <5> QED BY <5>1, <5>2
      <4>2. CASE \E i \in S : i <= m
        <5> DEFINE X == {i \in S : i <= m}
        <5>1. X \in SUBSET Int /\ X # {} /\ IsFiniteSet(X)
          <6>1. X \subseteq 1..n /\ 1..n \subseteq Int
            <7>1. S \subseteq 1..n /\ X \subseteq S
              OBVIOUS
            <7>2. \A x \in 1..n : x \in Int
              OBVIOUS
            <7> HIDE DEF X
            <7> QED BY <7>1, <7>2
          <6>4. IsFiniteSet(1..n)
            BY FS_Interval
          <6>2. X # {}
            BY <4>2
          <6> HIDE DEF X
          <6>3. IsFiniteSet(X)
            BY <6>1, <6>4, FS_Subset
          <6> QED BY <6>1, <6>2, <6>3
        <5> DEFINE i == Max(X)
        <5>2. i \in X /\ \A y \in X : i >= y
          <6> HIDE DEF X
          <6> QED BY <5>1, GreatestIsMax
        <5> HIDE DEF i
        <5>3. i \in S /\ i <= m /\ \A j \in S : j <= m => j <= i
          BY <5>2
        <5>4. f[m] # <<>> /\ f[m][Len(f[m])].end = ends[i]
          BY <2>2, <5>3
        <5>5. \A j \in S : AreNext(S, j, m + 1) <=> j = i
          <6>1. m + 1 \in S /\ i < m + 1 /\ i \in Int /\ m + 1 \in Int
            BY <1>0, <2>5, <5>3
          <6>2. AreNext(S, i, m + 1)
            BY <1>0, <5>3, <6>1 DEF AreNext
          <6>3. ASSUME NEW j \in S, AreNext(S, j, m + 1) PROVE j = i
            BY <1>0, <5>3, <6>1, <6>3 DEF AreNext
          <6> QED BY <6>2, <6>3
        <5> QED BY <3>1, <5>3, <5>4, <5>5
      <4> QED BY <4>1, <4>2
    <3>10. Overlaps(f[m + 1]) <=> Late(m + 1)
      BY <2>2, <3>7, <3>8, <3>9
    <3> QED BY <2>1, <3>5, <3>6, <3>10 DEF Good
  <2> QED BY <2>4, <2>5
<1> HIDE DEF Good
<1>5. n \in Good
  <2>1. \A i \in 1..(n - 1) : i \in Good => i + 1 \in Good
    BY <1>4
  <2>2. \A i \in 1..n : i \in Good
    BY ONLY n \in Nat, 1 \in Nat, <1>3, <2>1, IntervalInduction
  <2> QED BY <2>2
<1>6. Overlaps(f[n]) <=> Late(n)
  BY <1>5 DEF Good
<1>7. \A j \in S : j <= n
  OBVIOUS
<1> QED BY <1>1, <1>6, <1>7

\* What is said of the parts of a segment.
PartsAreInTime(parts, start, end, gapless) ==
  parts # <<>> =>
    /\ parts[1].start = start /\ parts[Len(parts)].end = end
    /\ \A k \in DOMAIN parts : parts[k].start <= parts[k].end
    /\ \A k \in DOMAIN parts \ {1} :
         parts[k].start >= parts[k - 1].end /\ (gapless => parts[k].start = parts[k - 1].end)

\* Parts in time are a sequence, not an empty one.
LEMMA InTimeIsSequence ==
  ASSUME NEW n \in Nat \ {0}, NEW start, NEW end, NEW gap, NEW parts, InTime(parts, n, start, end, gap)
  PROVE  /\ Len(parts) = n /\ parts # <<>> /\ parts \in Seq({parts[k] : k \in DOMAIN parts})
         /\ PartsAreInTime(parts, start, end, gap = 0)
<1> DEFINE T == {parts[k] : k \in DOMAIN parts}
<1>1. DOMAIN parts = 1..n /\ parts = [k \in 1..n |-> parts[k]] /\ n > 0
  BY DEF InTime
<1>2. parts \in [1..n -> T]
  BY <1>1
<1> HIDE DEF T
<1>3. parts \in Seq(T) /\ Len(parts) = n
  BY <1>2
<1>4. parts # <<>>
  BY <1>1, <1>3
<1>5. PartsAreInTime(parts, start, end, gap = 0)
  <2>1. \A k \in (1..n) \ {1} : k \in 2..n
    OBVIOUS
  <2> QED BY <1>1, <1>3, <2>1 DEF PartsAreInTime, InTime
<1> QED BY <1>3, <1>4, <1>5 DEF T

\* The cues of a translation share the time of its segments.
LEMMA CuesAreInTime ==
  ASSUME TimingAssumption, written \in Writings, written.kind = "cues",
         timedParts # <<>>, timedParts = CuesBySegment(written)
  PROVE  PartsInTime
<1> DEFINE segs == written.segments
           n == Len(segs)
           compact == UsesCompactScript(written)
           all == timedParts
           S == Voiced
           begins == [i \in 1..n |-> segs[i].start]
           ends == [i \in 1..n |-> segs[i].end]
           T == UNION {{all[i][k] : k \in DOMAIN all[i]} : i \in 1..n}
           errors == SubtitleErrors(segs, FlattenSeq(all))
<1>1. segs \in Seq(WrittenSegment) /\ n \in Nat /\ DOMAIN segs = 1..n
  BY DEF TimingAssumption
<1>2. compact \in BOOLEAN
  BY DEF UsesCompactScript
<1>3. all = [i \in 1..n |-> CuesOf(segs[i], compact)]
  BY <1>1 DEF CuesBySegment
<1>4. n > 0
  <2> SUFFICES ASSUME n = 0 PROVE FALSE
    BY <1>1
  <2>1. 1..n = {}
    OBVIOUS
  <2>2. all = <<>>
    BY <1>3, <2>1
  <2> QED BY <2>2
<1>5. \A i \in 1..n : segs[i] \in WrittenSegment /\ begins[i] = segs[i].start /\ ends[i] = segs[i].end
  BY <1>1
<1>6. begins \in [1..n -> Int] /\ ends \in [1..n -> Int]
  <2> HIDE DEF segs, n
  <2>1. \A i \in 1..n : segs[i].start \in Int /\ segs[i].end \in Int
    BY <1>5 DEF WrittenSegment
  <2> QED BY <2>1
<1>7. S \subseteq 1..n /\ \A i \in 1..n : i \in S <=> InkIn(segs[i].text) # {}
  BY <1>1 DEF Voiced
<1> HIDE DEF S, compact, begins, ends, n
<1>8. ASSUME NEW i \in 1..n
      PROVE  /\ i \notin S => all[i] = <<>>
             /\ i \in S => /\ Len(all[i]) \in Nat \ {0} /\ all[i] # <<>>
                           /\ InTime(all[i], Len(all[i]), begins[i], ends[i], CueGap)
                           /\ all[i] \in Seq({all[i][k] : k \in DOMAIN all[i]})
  <2>1. all[i] = CuesOf(segs[i], compact) /\ segs[i] \in WrittenSegment
    BY <1>3, <1>5
  <2>2. ASSUME i \notin S PROVE all[i] = <<>>
    <3>1. InkIn(segs[i].text) = {}
      BY <1>7, <2>2
    <3>2. CuesOf(segs[i], compact) = <<>>
      BY <1>2, <2>1, <3>1, CuesInTime
    <3> QED BY <2>1, <3>2
  <2>3. ASSUME i \in S
        PROVE  /\ Len(all[i]) \in Nat \ {0} /\ all[i] # <<>>
               /\ InTime(all[i], Len(all[i]), begins[i], ends[i], CueGap)
               /\ all[i] \in Seq({all[i][k] : k \in DOMAIN all[i]})
    <3>1. InkIn(segs[i].text) # {}
      BY <1>7, <2>3
    <3>2. PICK m \in Nat \ {0} : InTime(CuesOf(segs[i], compact), m, segs[i].start, segs[i].end, CueGap)
      BY <1>2, <2>1, <3>1, CuesInTime
    <3> DEFINE parts == all[i]
    <3>3. InTime(parts, m, begins[i], ends[i], CueGap)
      BY <1>5, <2>1, <3>2
    <3> HIDE DEF parts
    <3>4. Len(parts) = m /\ parts # <<>> /\ parts \in Seq({parts[k] : k \in DOMAIN parts})
      BY ONLY <3>3, m \in Nat \ {0}, InTimeIsSequence
    <3> QED BY <3>3, <3>4 DEF parts
  <2> QED BY <2>2, <2>3
<1>9. all \in [1..n -> Seq(T)]
  <2>1. ASSUME NEW i \in 1..n PROVE all[i] \in Seq(T)
    <3>1. CASE i \notin S
      <4>1. all[i] = <<>>
        BY <1>8, <3>1
      <4> QED BY <4>1
    <3>2. CASE i \in S
      <4> DEFINE U == {all[i][k] : k \in DOMAIN all[i]}
                 parts == all[i]
      <4>1. parts \in Seq(U)
        BY <1>8, <3>2
      <4>2. U \subseteq T
        OBVIOUS
      <4> HIDE DEF U, T, parts
      <4>3. parts \in Seq(T)
        BY <4>1, <4>2
      <4> QED BY <4>3 DEF parts
    <3> QED BY <3>1, <3>2
  <2> HIDE DEF T
  <2> QED BY <1>3, <2>1
<1> HIDE DEF T
<1>10. Overlaps(FlattenSeq(all)) <=> \E i, j \in S : AreNext(S, i, j) /\ begins[j] < ends[i]
  <2>1. \A i \in 1..n : i \notin S => all[i] = <<>>
    BY <1>8
  <2>2. \A i \in S : all[i] # <<>> /\ InTime(all[i], Len(all[i]), begins[i], ends[i], CueGap)
    BY <1>7, <1>8
  <2>3. n \in Nat /\ S \in SUBSET (1..n)
    BY <1>1, <1>7 DEF n
  <2> QED BY ONLY <1>4, <1>6, <1>9, <2>1, <2>2, <2>3, OverlapsAreOfSegments
<1>11. (\E i, j \in S : AreNext(S, i, j) /\ begins[j] < ends[i]) <=> \E p \in Neighbours : segs[p[2]].start < segs[p[1]].end
  <2>1. ASSUME NEW i \in S, NEW j \in S
        PROVE  /\ AreNext(S, i, j) <=> <<i, j>> \in Neighbours
               /\ begins[j] = segs[j].start /\ ends[i] = segs[i].end
    BY <1>5, <1>7 DEF AreNext, Neighbours, S
  <2>2. \A p \in Neighbours : p = <<p[1], p[2]>> /\ p[1] \in S /\ p[2] \in S
    BY DEF Neighbours, S
  <2>3. ASSUME NEW i \in S, NEW j \in S, AreNext(S, i, j), begins[j] < ends[i]
        PROVE  \E p \in Neighbours : segs[p[2]].start < segs[p[1]].end
    <3>1. <<i, j>> \in Neighbours /\ segs[j].start < segs[i].end
      BY <2>1, <2>3
    <3> QED BY <3>1
  <2>4. ASSUME NEW p \in Neighbours, segs[p[2]].start < segs[p[1]].end
        PROVE  \E i, j \in S : AreNext(S, i, j) /\ begins[j] < ends[i]
    <3>1. p[1] \in S /\ p[2] \in S /\ <<p[1], p[2]>> \in Neighbours
      BY <2>2
    <3> QED BY <2>1, <2>4, <3>1
  <2> QED BY <2>3, <2>4
<1>12. "subtitle_overlaps" \in errors <=> Overlaps(FlattenSeq(all))
  BY DEF SubtitleErrors, Overlaps
<1>13. "blank_target_cues" \in errors <=> S # DOMAIN segs
  <2>1. "blank_target_cues" \in errors <=> \E i \in 1..n : Strip(segs[i].text) = <<>>
    BY <1>1 DEF SubtitleErrors, n
  <2>2. ASSUME NEW i \in 1..n PROVE Strip(segs[i].text) = <<>> <=> i \notin S
    <3>1. segs[i].text \in Text
      BY <1>5 DEF WrittenSegment, Text
    <3> QED BY <1>7, <3>1, StripIsText
  <2>3. DOMAIN segs = 1..n
    BY <1>1 DEF n
  <2> QED BY <1>7, <2>1, <2>2, <2>3
<1>14. \A i \in DOMAIN all : PartsAreInTime(all[i], Source(i).start, Source(i).end, FALSE)
  <2> SUFFICES ASSUME NEW i \in 1..n PROVE PartsAreInTime(all[i], Source(i).start, Source(i).end, FALSE)
    BY <1>3
  <2>1. CASE i \notin S
    <3>1. all[i] = <<>>
      BY <1>8, <2>1
    <3> QED BY <3>1 DEF PartsAreInTime
  <2>2. CASE i \in S
    <3> DEFINE parts == all[i]
    <3>1. Len(parts) \in Nat \ {0} /\ InTime(parts, Len(parts), begins[i], ends[i], CueGap)
      BY <1>8, <2>2
    <3>2. Source(i).start = begins[i] /\ Source(i).end = ends[i]
      BY <1>5 DEF Source
    <3> HIDE DEF parts
    <3>3. PartsAreInTime(parts, begins[i], ends[i], CueGap = 0)
      BY <3>1, InTimeIsSequence
    <3>4. PartsAreInTime(parts, Source(i).start, Source(i).end, FALSE)
      BY <3>2, <3>3 DEF PartsAreInTime
    <3> QED BY <3>4 DEF parts
  <2> QED BY <2>1, <2>2
<1>15. written.kind # "transcript"
  OBVIOUS
<1> HIDE DEF segs, all, errors
<1>16. "subtitle_overlaps" \in errors <=> \E p \in Neighbours : segs[p[2]].start < segs[p[1]].end
  BY <1>10, <1>11, <1>12
<1> QED BY <1>13, <1>14, <1>15, <1>16 DEF PartsInTime, PartsAreInTime, segs, all, errors, S

\* The parts of a transcript share the time of its segments.
LEMMA SegmentsAreInTime ==
  ASSUME TimingAssumption, written \in Writings, written.kind = "transcript",
         timedParts # <<>>, timedParts = NormalizedSegments(written.segments)
  PROVE  PartsInTime
<1> DEFINE segs == written.segments
           n == Len(segs)
           sorted == Sorted(segs)
           all == timedParts
<1>1. segs \in Seq(WrittenSegment) /\ n \in Nat /\ DOMAIN segs = 1..n
  BY DEF TimingAssumption
<1>2. all = [i \in 1..n |-> SplitSegment([sorted[i] EXCEPT !.text = NormalizedText(@)])]
  BY <1>1 DEF NormalizedSegments
<1>3. sorted \in [1..n -> WrittenSegment]
  BY <1>1, SortedIsWritten
<1> HIDE DEF n, sorted
<1>4. ASSUME NEW i \in 1..n PROVE PartsAreInTime(all[i], Source(i).start, Source(i).end, TRUE)
  <2> DEFINE segment == sorted[i]
             s == [segment EXCEPT !.text = NormalizedText(@)]
             parts == all[i]
  <2>1. segment \in WrittenSegment
    BY <1>3
  <2>2. NormalizedText(segment.text) \in Seq(Characters)
    BY <2>1, NormalizedIsText DEF WrittenSegment, Text
  <2> HIDE DEF segment
  <2>3. s \in WrittenSegment /\ s.start = segment.start /\ s.end = segment.end
    <3> DEFINE text == NormalizedText(segment.text)
    <3>1. s = [segment EXCEPT !.text = text]
      OBVIOUS
    <3>2. text \in Seq(Characters)
      BY <2>2
    <3> HIDE DEF text, s
    <3> QED BY <2>1, <3>1, <3>2 DEF WrittenSegment
  <2>4. parts = SplitSegment(s)
    BY <1>2 DEF segment
  <2> HIDE DEF s, parts
  <2>5. PICK m \in Nat \ {0} : InTime(parts, m, segment.start, segment.end, 0)
    BY <2>3, <2>4, SplitInTime
  <2>6. PartsAreInTime(parts, segment.start, segment.end, TRUE)
    BY <2>5, InTimeIsSequence
  <2>7. Source(i) = segment
    BY DEF Source, segment, sorted
  <2> QED BY <2>6, <2>7 DEF parts
<1>5. DOMAIN all = 1..n /\ written.kind # "cues"
  BY <1>2
<1> HIDE DEF all
<1> QED BY <1>4, <1>5 DEF PartsInTime, PartsAreInTime, all

\* However a segment is cut and whatever it says, its parts share its time in order
\* and without overlap: a translation cannot be published exactly when a segment is
\* blank or begins before the one before it has ended (subtitles.py _timed_chunks,
\* subtitle_validation_errors; normalization.py _split_transcript_segment).
THEOREM SegmentsShareTheirTime == TimingSpec => []PartsInTime
<1> DEFINE Inv == /\ written \in Writings
                  /\ timedParts # <<>> =>
                       timedParts = IF written.kind = "cues" THEN CuesBySegment(written)
                                    ELSE NormalizedSegments(written.segments)
<1>1. TimingInit => Inv
  BY DEF TimingInit
<1>2. Inv /\ [Time]_timingVars => Inv'
  BY DEF Time, timingVars
<1>3. Inv => PartsInTime
  <2> SUFFICES ASSUME Inv, timedParts # <<>> PROVE PartsInTime
    BY DEF PartsInTime
  <2>1. written.kind = "cues" \/ written.kind = "transcript"
    BY TimingAssumption DEF TimingAssumption
  <2>2. CASE written.kind = "cues"
    BY <2>2, TimingAssumption, CuesAreInTime
  <2>3. CASE written.kind = "transcript"
    BY <2>3, TimingAssumption, SegmentsAreInTime
  <2> QED BY <2>1, <2>2, <2>3
<1> QED BY <1>1, <1>2, <1>3, PTL DEF TimingSpec
================================================================================
