----------------------- MODULE TranslationFanOutProofs -----------------------
(***************************************************************************)
(* Proofs about the translation stage, for every transcript, limit,        *)
(* prompt-size predicate, number of variants and workers, and for every    *)
(* failure of a provider call: the chunks of a transcript cover it, a      *)
(* candidate is the whole transcript, the verdicts follow the chunks, and  *)
(* the calls of a task stay in their budget.                               *)
(*                                                                         *)
(* Two of the module's helpers are recursive functions: the concatenation  *)
(* of a task's translated chunks and the list of the variants that         *)
(* succeeded.  ChunkingProofs says what such functions compute, and that   *)
(* the cut of a transcript is whole.                                       *)
(***************************************************************************)
EXTENDS TranslationFanOut, ChunkingProofs

\* The chunks of the stage cover the transcript, segment by segment, in order.
LEMMA ChunksCoverTranscript ==
  /\ Chunks \in Seq(ChunkType) /\ Len(Chunks) \in Nat \ {0}
  /\ \A i \in 1..Len(Chunks) : Chunks[i] \in ChunkType /\ Chunks[i].lo <= Chunks[i].hi + 1
  /\ FlattenSeq([i \in 1..Len(Chunks) |-> Covered(Chunks[i])]) = Positions(NumSegments)
<1> DEFINE c == ChunkTranscript(NumSegments, MaxSegments, TooLarge)
<1>1. /\ c \in Seq(ChunkType) /\ Len(c) > 0 /\ c[1].lo = 1 /\ c[Len(c)].hi = NumSegments
      /\ \A i \in 1..Len(c) : c[i].lo <= c[i].hi + 1
      /\ \A i \in 2..Len(c) : c[i].lo = c[i - 1].hi + 1
  <2>1. CASE NumSegments = 0
    <3> DEFINE empty == Chunk(1, 0, SplitLevels)
    <3>1. c = <<empty>>
      BY <2>1 DEF ChunkTranscript
    <3>2. empty \in ChunkType /\ empty.lo = 1 /\ empty.hi = 0
      BY ChunkIsTyped DEF SplitLevels
    <3> HIDE DEF empty, c
    <3> QED BY <2>1, <3>1, <3>2
  <2>2. CASE NumSegments # 0
    <3>1. WellCut(c, NumSegments, MaxSegments, TooLarge)
      <4>1. NumSegments \in Nat /\ NumSegments > 0 /\ MaxSegments \in Nat \ {0}
        BY <2>2, FanOutAssumption
      <4> QED BY <4>1, TranscriptIsWellCut
    <3> HIDE DEF c
    <3>2. ASSUME NEW i \in 1..Len(c) PROVE c[i].lo <= c[i].hi + 1
      <4>1. c[i] \in ChunkType /\ c[i].lo <= c[i].hi
        <5>1. c \in Seq(ChunkType)
          BY <3>1 DEF WellCut
        <5>2. c[i] \in ChunkType
          BY <5>1
        <5>3. c[i].lo <= c[i].hi
          BY <3>1 DEF WellCut
        <5> QED BY <5>2, <5>3
      <4> QED BY <4>1 DEF ChunkType
    <3> QED BY <3>1, <3>2 DEF WellCut
  <2> QED BY <2>1, <2>2
<1> HIDE DEF c
<1>2. FlattenSeq([i \in 1..Len(c) |-> Covered(c[i])]) = Positions(NumSegments)
  BY <1>1, ChunksThatFollow
<1>3. Len(c) \in Nat \ {0} /\ \A i \in 1..Len(c) : c[i] \in ChunkType
  BY <1>1
<1>4. c = Chunks
  BY DEF c, Chunks
<1> QED BY <1>1, <1>2, <1>3, <1>4

-----------------------------------------------------------------------------
(* Results in input order.                                                 *)

\* Whatever the order in which they arrive, the results are taken in the order of the
\* tasks (parallelism.py ordered_parallel_map).
LEMMA ResultsAreInInputOrder ==
  ASSUME NEW n \in Nat, NEW arrival \in Arrivals(n)
  PROVE  InInputOrder(arrival) = Positions(n)
<1>1. /\ arrival \in [1..n -> 1..n]
      /\ \A i, j \in 1..n : i # j => arrival[i] # arrival[j]
  BY IntervalSize DEF Arrivals, SetToSeqs
<1>2. \A x \in 1..n : \E i \in 1..n : arrival[i] = x
  <2>1. arrival \in Injection(1..n, 1..n)
    BY <1>1 DEF Injection, IsInjective
  <2>2. arrival \in Surjection(1..n, 1..n)
    BY <2>1, IntervalSize, FS_Injection
  <2> QED BY <2>2 DEF Surjection
<1>3. ToSet(arrival) = 1..n
  <2>1. DOMAIN arrival = 1..n /\ \A i \in 1..n : arrival[i] \in 1..n
    BY <1>1
  <2> QED BY <1>2, <2>1 DEF ToSet
<1>4. ASSUME NEW x \in 1..n PROVE Cardinality({y \in 1..n : y <= x}) = x
  <2>1. {y \in 1..n : y <= x} = 1..x /\ x \in Nat
    OBVIOUS
  <2>2. Cardinality(1..x) = x
    BY <2>1, IntervalSize
  <2> QED BY <2>1, <2>2
<1>5. ASSUME NEW k \in 1..n
      PROVE  (CHOOSE x \in 1..n : Cardinality({y \in 1..n : y <= x}) = k) = k
  BY <1>4
<1>6. DOMAIN arrival = 1..n
  BY <1>1
<1>7. InInputOrder(arrival) =
        [k \in 1..n |-> CHOOSE x \in 1..n : Cardinality({y \in 1..n : y <= x}) = k]
  BY <1>3, <1>6 DEF InInputOrder
<1> QED BY <1>5, <1>7 DEF Positions

-----------------------------------------------------------------------------
(* One chunk task.                                                         *)

\* What is left of chunk c, what is translated of it, and how many calls were spent before
\* the piece that is next: the chunk, its two halves, or the second half.
Remaining(c, left, translated, spent) ==
  \/ left = <<c>> /\ translated = <<>> /\ spent = 0
  \/ /\ CanSplit(c)
     /\ left = Split(c) /\ translated = <<>> /\ spent \in 0..MaxAttempts
  \/ /\ CanSplit(c)
     /\ left = <<Split(c)[2]>> /\ translated = Covered(Split(c)[1])
     /\ spent \in 0..(2 * MaxAttempts)

\* The calls that remain are enough for every piece that remains.
LEMMA RemainingFits ==
  ASSUME NEW c \in ChunkType, NEW left, NEW translated, NEW spent,
         Remaining(c, left, translated, spent)
  PROVE  /\ left \in Seq(ChunkType) /\ left # <<>> /\ Head(left) \in ChunkType
         /\ Tail(left) \in Seq(ChunkType)
         /\ spent \in 0..(2 * MaxAttempts)
<1>1. CASE left = <<c>> /\ spent = 0
  BY <1>1, FanOutAssumption
<1>2. CASE CanSplit(c) /\ left = Split(c) /\ spent \in 0..MaxAttempts
  <2>1. PICK a, b \in ChunkType : Split(c) = <<a, b>>
    BY <1>2, SplitCoversChunk
  <2> QED BY <1>2, <2>1, FanOutAssumption
<1>3. CASE CanSplit(c) /\ left = <<Split(c)[2]>> /\ spent \in 0..(2 * MaxAttempts)
  <2>1. PICK a, b \in ChunkType : Split(c) = <<a, b>>
    BY <1>3, SplitCoversChunk
  <2> QED BY <1>3, <2>1
<1> QED BY <1>1, <1>2, <1>3 DEF Remaining

\* Once the last piece is translated, so is the whole chunk.
LEMMA LastPiece ==
  ASSUME NEW c \in ChunkType, c.lo <= c.hi + 1, NEW left, NEW translated, NEW spent,
         Remaining(c, left, translated, spent), Tail(left) = <<>>
  PROVE  translated \o Covered(Head(left)) = Covered(c)
<1>1. CASE left = <<c>> /\ translated = <<>>
  <2>1. Covered(c) \in Seq(Int)
    BY CoveredIsSequence
  <2> QED BY <1>1, <2>1
<1>2. CASE CanSplit(c) /\ left = Split(c)
  <2>1. PICK a, b \in ChunkType : Split(c) = <<a, b>>
    BY <1>2, SplitCoversChunk
  <2> QED BY <1>2, <2>1
<1>3. CASE CanSplit(c) /\ left = <<Split(c)[2]>> /\ translated = Covered(Split(c)[1])
  <2>1. PICK a, b \in ChunkType :
           Split(c) = <<a, b>> /\ Covered(a) \o Covered(b) = Covered(c)
    BY <1>3, SplitCoversChunk
  <2>2. Head(left) = b /\ translated = Covered(a)
    BY <1>3, <2>1
  <2> QED BY <2>1, <2>2
<1> QED BY <1>1, <1>2, <1>3 DEF Remaining

\* Between the two halves.
LEMMA NextPiece ==
  ASSUME NEW c \in ChunkType, NEW left, NEW translated, NEW spent, NEW n \in 0..MaxAttempts,
         Remaining(c, left, translated, spent), Tail(left) # <<>>
  PROVE  Remaining(c, Tail(left), translated \o Covered(Head(left)), spent + n)
<1>1. CanSplit(c) /\ left = Split(c) /\ translated = <<>> /\ spent \in 0..MaxAttempts
  <2>1. CASE left = <<c>>
    BY <2>1
  <2>2. CASE left = <<Split(c)[2]>>
    BY <2>2
  <2> QED BY <2>1, <2>2 DEF Remaining
<1>2. PICK a, b \in ChunkType : Split(c) = <<a, b>> /\ a.lo <= a.hi
  BY <1>1, SplitCoversChunk
<1>3. Head(left) = a /\ Tail(left) = <<b>> /\ b = Split(c)[2] /\ a = Split(c)[1]
  BY <1>1, <1>2
<1>4. Covered(a) \in Seq(Int)
  BY <1>2, CoveredIsSequence DEF ChunkType
<1>5. translated \o Covered(Head(left)) = Covered(a)
  BY <1>1, <1>3, <1>4
<1>6. spent + n \in 0..(2 * MaxAttempts)
  BY <1>1, FanOutAssumption
<1> QED BY <1>1, <1>3, <1>5, <1>6 DEF Remaining

\* Only the chunk itself can be split, its halves cannot.
LEMMA SplitPiece ==
  ASSUME NEW c \in ChunkType, NEW left, NEW translated, NEW spent, NEW n \in 0..MaxAttempts,
         Remaining(c, left, translated, spent), CanSplit(Head(left))
  PROVE  Remaining(c, Split(Head(left)) \o Tail(left), translated, spent + n)
<1>1. left = <<c>> /\ translated = <<>> /\ spent = 0
  <2>1. CASE CanSplit(c) /\ (left = Split(c) \/ left = <<Split(c)[2]>>)
    <3>1. PICK a, b \in ChunkType : Split(c) = <<a, b>> /\ ~CanSplit(a) /\ ~CanSplit(b)
      BY <2>1, SplitCoversChunk
    <3>2. Head(left) = a \/ Head(left) = b
      BY <2>1, <3>1
    <3> QED BY <3>1, <3>2
  <2> QED BY <2>1 DEF Remaining
<1>2. CanSplit(c)
  BY <1>1
<1>3. PICK a, b \in ChunkType : Split(c) = <<a, b>>
  BY <1>2, SplitCoversChunk
<1>4. Split(Head(left)) \o Tail(left) = Split(c)
  BY <1>1, <1>3
<1>5. spent + n \in 0..MaxAttempts
  BY <1>1, FanOutAssumption
<1> QED BY <1>1, <1>2, <1>4, <1>5 DEF Remaining

-----------------------------------------------------------------------------
(* The variants that are staged.                                           *)

\* s lists the variants up to k that translated the transcript, in order.
Lists(s, k) ==
  /\ s \in Seq(1..k)
  /\ ToSet(s) = {v \in 1..k : variant[v] = "ok"}
  /\ \A i, j \in 1..Len(s) : i < j => s[i] < s[j]

\* One more variant: it comes last if it succeeded.
LEMMA OneMoreListed ==
  ASSUME NEW k \in Nat, NEW s, Lists(s, k), NEW t,
         t = IF variant[k + 1] = "ok" THEN Append(s, k + 1) ELSE s
  PROVE  Lists(t, k + 1)
<1>1. s \in Seq(1..k) /\ s \in Seq(1..(k + 1)) /\ Len(s) \in Nat /\ DOMAIN s = 1..Len(s)
  <2>1. s \in Seq(1..k) /\ 1..k \subseteq 1..(k + 1)
    BY DEF Lists
  <2> QED BY <2>1, SeqMonotonic
<1>2. \A i \in 1..Len(s) : s[i] \in 1..k
  BY <1>1
<1>3. CASE variant[k + 1] = "ok"
  <2>1. t = Append(s, k + 1)
    BY <1>3
  <2>2. /\ t \in Seq(1..(k + 1)) /\ Len(t) = Len(s) + 1 /\ DOMAIN t = 1..(Len(s) + 1)
        /\ \A i \in 1..Len(s) : t[i] = s[i]
        /\ t[Len(s) + 1] = k + 1
    <3>1. k + 1 \in 1..(k + 1)
      OBVIOUS
    <3> DEFINE m == k + 1
    <3> HIDE DEF m
    <3>2. m \in 1..m /\ s \in Seq(1..m) /\ t = Append(s, m)
      BY <1>1, <2>1, <3>1 DEF m
    <3>3. /\ t \in Seq(1..m) /\ Len(t) = Len(s) + 1
          /\ \A i \in 1..Len(s) : t[i] = s[i]
          /\ t[Len(s) + 1] = m
      <4>1. ASSUME NEW S, s \in Seq(S), m \in S
            PROVE  /\ t \in Seq(S) /\ Len(t) = Len(s) + 1
                   /\ \A i \in 1..Len(s) : t[i] = s[i]
                   /\ t[Len(s) + 1] = m
        <5>1. t = Append(s, m)
          BY <3>2
        <5> QED BY <4>1, <5>1, AppendProperties
      <4> QED BY <3>2, <4>1
    <3>4. DOMAIN t = 1..(Len(s) + 1)
      BY <3>3
    <3> QED BY <3>3, <3>4 DEF m
  <2>3. ToSet(t) = ToSet(s) \cup {k + 1}
    <3>1. ASSUME NEW x \in ToSet(t) PROVE x \in ToSet(s) \cup {k + 1}
      <4>1. PICK i \in 1..(Len(s) + 1) : x = t[i]
        BY <2>2 DEF ToSet
      <4>2. CASE i = Len(s) + 1
        BY <2>2, <4>1, <4>2
      <4>3. CASE i # Len(s) + 1
        <5>1. i \in 1..Len(s)
          BY <1>1, <4>3
        <5> QED BY <1>1, <2>2, <4>1, <5>1 DEF ToSet
      <4> QED BY <4>2, <4>3
    <3>2. ASSUME NEW x \in ToSet(s) PROVE x \in ToSet(t)
      <4>1. PICK i \in 1..Len(s) : x = s[i]
        BY <1>1 DEF ToSet
      <4>2. i \in 1..(Len(s) + 1)
        BY <1>1
      <4> QED BY <2>2, <4>1, <4>2 DEF ToSet
    <3>3. k + 1 \in ToSet(t)
      <4>1. Len(s) + 1 \in 1..(Len(s) + 1)
        BY <1>1
      <4> QED BY <2>2, <4>1 DEF ToSet
    <3> QED BY <3>1, <3>2, <3>3
  <2>4. ToSet(t) = {v \in 1..(k + 1) : variant[v] = "ok"}
    <3>1. ToSet(s) = {v \in 1..k : variant[v] = "ok"}
      BY DEF Lists
    <3>2. 1..(k + 1) = (1..k) \cup {k + 1}
      OBVIOUS
    <3> QED BY <1>3, <2>3, <3>1, <3>2
  <2>5. ASSUME NEW i \in 1..Len(t), NEW j \in 1..Len(t), i < j PROVE t[i] < t[j]
    <3>1. i \in 1..Len(s) /\ t[i] = s[i] /\ s[i] \in 1..k
      BY <1>1, <1>2, <2>2, <2>5
    <3>2. CASE j = Len(s) + 1
      BY <2>2, <3>1, <3>2
    <3>3. CASE j # Len(s) + 1
      <4>1. j \in 1..Len(s)
        BY <1>1, <2>2, <3>3
      <4>2. s[i] < s[j]
        BY <2>5, <3>1, <4>1 DEF Lists
      <4> QED BY <2>2, <3>1, <4>1, <4>2
    <3> QED BY <3>2, <3>3
  <2> QED BY <2>2, <2>4, <2>5 DEF Lists
<1>4. CASE variant[k + 1] # "ok"
  <2>1. t = s
    BY <1>4
  <2>2. ToSet(s) = {v \in 1..(k + 1) : variant[v] = "ok"}
    <3>1. ToSet(s) = {v \in 1..k : variant[v] = "ok"}
      BY DEF Lists
    <3>2. 1..(k + 1) = (1..k) \cup {k + 1}
      OBVIOUS
    <3> QED BY <1>4, <3>1, <3>2
  <2> QED BY <1>1, <2>1, <2>2 DEF Lists
<1> QED BY <1>3, <1>4

\* The staged candidates are the variants that translated the transcript, in their order
\* (translate.py generate_translation_candidates).
LEMMA StagedAreListed == Lists(Staged(Positions(NumVariants)), NumVariants)
<1> DEFINE n == NumVariants
           order == Positions(n)
           Next1(x, k) == IF variant[k] = "ok" THEN Append(x, k) ELSE x
           Keeps(f) == [k \in 0..n |-> IF k = 0 THEN <<>>
                                       ELSE IF variant[order[k]] = "ok"
                                            THEN Append(f[k - 1], order[k])
                                       ELSE f[k - 1]]
           kept == CHOOSE f : f = Keeps(f)
           V == Seq(1..n)
           step == [p \in (1..n) \X V |-> Next1(p[2], p[1])]
<1>1. n \in Nat /\ n > 0 /\ order \in Seq(Nat) /\ Len(order) = n /\ \A k \in 1..n : order[k] = k
  BY FanOutAssumption DEF Positions
<1>2. Staged(order) = kept[n]
  BY <1>1 DEF Staged
<1>3. step \in [(1..n) \X V -> V] /\ <<>> \in V
  <2>1. ASSUME NEW p \in (1..n) \X V PROVE Next1(p[2], p[1]) \in V
    <3>1. p[2] \in Seq(1..n) /\ p[1] \in 1..n
      OBVIOUS
    <3>2. ASSUME NEW x \in Seq(1..n), NEW k \in 1..n PROVE Append(x, k) \in Seq(1..n)
      OBVIOUS
    <3>3. Append(p[2], p[1]) \in V
      BY <3>1, <3>2
    <3> QED BY <3>1, <3>3
  <2> QED BY <2>1
<1>4. \A k \in 1..n, x \in V : step[<<k, x>>] = Next1(x, k)
  OBVIOUS
<1> HIDE DEF step
<1>5. PICK f \in [0..n -> V] : Unrolls(f, n, <<>>, step)
  <2> HIDE DEF V, n
  <2> QED BY <1>1, <1>3, IntervalRecursion
<1>6. f = Keeps(f)
  <2>1. ASSUME NEW k \in 0..n
        PROVE  f[k] = IF k = 0 THEN <<>>
                      ELSE IF variant[order[k]] = "ok" THEN Append(f[k - 1], order[k])
                      ELSE f[k - 1]
    <3>1. CASE k = 0
      BY <1>5, <3>1 DEF Unrolls
    <3>2. CASE k # 0
      <4> HIDE DEF n
      <4>1. k \in 1..n /\ k - 1 \in 0..n
        BY <1>1, <3>2
      <4>2. f[k - 1] \in V
        BY <4>1
      <4>3. f[k] = step[<<k, f[k - 1]>>]
        BY <1>5, <4>1 DEF Unrolls
      <4>4. f[k] = Next1(f[k - 1], k)
        BY <1>4, <4>1, <4>2, <4>3
      <4> QED BY <1>1, <3>2, <4>1, <4>4
    <3> QED BY <3>1, <3>2
  <2> QED BY <2>1
<1>7. kept = Keeps(kept)
  <2> HIDE DEF Keeps
  <2> QED BY <1>6
<1> HIDE DEF kept
<1>8. kept[0] = <<>> /\ \A k \in 1..n : kept[k] = Next1(kept[k - 1], k)
  <2>1. \A k \in 0..n : kept[k] = IF k = 0 THEN <<>>
                                  ELSE IF variant[order[k]] = "ok"
                                       THEN Append(kept[k - 1], order[k])
                                  ELSE kept[k - 1]
    BY <1>7
  <2>2. kept[0] = <<>>
    <3>1. 0 \in 0..n
      BY <1>1
    <3> QED BY <2>1, <3>1
  <2>3. ASSUME NEW k \in 1..n PROVE kept[k] = Next1(kept[k - 1], k)
    <3>1. k \in 0..n /\ k # 0 /\ order[k] = k
      BY <1>1
    <3> QED BY <2>1, <3>1
  <2> QED BY <2>2, <2>3
<1> HIDE DEF Keeps, order, n
<1> DEFINE Good == {k \in 0..n : Lists(kept[k], k)}
<1>9. 0 \in Good
  <2>1. Lists(<<>>, 0)
    BY DEF Lists, ToSet
  <2> QED BY <1>1, <1>8, <2>1
<1>10. ASSUME NEW k \in 0..(n - 1), k \in Good PROVE k + 1 \in Good
  <2> DEFINE m == k + 1
  <2>1. m \in 1..n /\ m \in 0..n /\ m - 1 = k /\ k \in Nat
    BY <1>1
  <2> HIDE DEF m
  <2>2. kept[m] = IF variant[m] = "ok" THEN Append(kept[k], m) ELSE kept[k]
    BY <1>8, <2>1
  <2>3. Lists(kept[k], k)
    BY <1>10
  <2>4. Lists(kept[m], m)
    BY <2>1, <2>2, <2>3, OneMoreListed DEF m
  <2> QED BY <2>1, <2>4 DEF m
<1> HIDE DEF Good
<1>11. \A k \in 0..n : k \in Good
  <2>1. 0 \in Nat
    OBVIOUS
  <2> QED BY <1>1, <1>9, <1>10, <2>1, IntervalInduction
<1>12. Lists(kept[n], n)
  BY <1>1, <1>11 DEF Good
<1> QED BY <1>2, <1>12 DEF order, n

-----------------------------------------------------------------------------
(* The inductive invariant.                                                *)

Phases == Started \cup {"queued", "ok", "failed"}
Settled == {"ok", "failed"}

TypeOK ==
  /\ variant \in [Variants -> {"queued", "open"} \cup Settled]
  /\ phase \in [Tasks -> Phases]
  /\ work \in [Tasks -> Seq(ChunkType)]
  /\ out \in [Tasks -> Seq(Int)]
  /\ attempt \in [Tasks -> 0..MaxAttempts]
  /\ calls \in [Tasks -> Nat]
  /\ admitted \in [Tasks -> {0, ProviderCost}]
  /\ text \in [Variants -> Seq(Int)]
  /\ culprit \in [Variants -> 0..Len(Chunks)]
  /\ candidates \in Seq(Variants)
  /\ stage \in {"running", "translated", "translation_failed"}
  /\ faults \in 0..MaxFaults

\* What holds of the task of chunk c that is in phase p with w still to translate and o
\* translated, after a attempts for the next piece and n calls, holding h tokens.
TaskOk(c, p, w, o, a, n, h) ==
  /\ p = "queued" => w = <<>> /\ o = <<>> /\ a = 0 /\ n = 0
  /\ p \in Started => Remaining(c, w, o, n - a)
  /\ p = "ready" => a < MaxAttempts
  /\ p = "backoff" => a < MaxAttempts
  /\ p = "calling" => 0 < a
  /\ p = "ok" => o = Covered(c)
  /\ n <= 3 * MaxAttempts
  /\ h = IF p = "calling" THEN ProviderCost ELSE 0

TaskInv(t) ==
  TaskOk(Chunks[t[2]], phase[t], work[t], out[t], attempt[t], calls[t], admitted[t])

\* The chunks of variant v that failed.
Bad(v) == {i \in 1..Len(Chunks) : phase[<<v, i>>] = "failed"}

\* A variant is decided after all its chunks, and by them alone.
VariantInv(v) ==
  /\ variant[v] \in Settled => \A i \in 1..Len(Chunks) : phase[<<v, i>>] \in Settled
  /\ variant[v] = "ok" => Bad(v) = {} /\ text[v] = Positions(NumSegments)
  /\ variant[v] = "failed" => Bad(v) # {} /\ culprit[v] = Min(Bad(v))

\* The stage is decided after all the variants, and by them alone.
StageInv ==
  stage # "running" =>
    /\ \A v \in Variants : variant[v] \in Settled
    /\ Lists(candidates, NumVariants)
    /\ stage = "translation_failed" => candidates = <<>>
    /\ stage = "translated" => candidates # <<>>

\* The calls in flight are paid for by the limiter.
Paid == Cardinality(Limiter!InUse(admitted)) <= TotalTokens

FInv ==
  /\ TypeOK
  /\ \A t \in Tasks : TaskInv(t)
  /\ \A v \in Variants : VariantInv(v)
  /\ StageInv
  /\ Paid

-----------------------------------------------------------------------------
(* The steps of one chunk task.                                            *)

TaskTyped(p, w, o, a, n, h) ==
  /\ p \in Phases /\ w \in Seq(ChunkType) /\ o \in Seq(Int)
  /\ a \in 0..MaxAttempts /\ n \in Nat /\ h \in {0, ProviderCost}

TaskGood(c, p, w, o, a, n, h) == TaskTyped(p, w, o, a, n, h) /\ TaskOk(c, p, w, o, a, n, h)

LEMMA TaskStarts ==
  ASSUME NEW c \in ChunkType, NEW w, NEW o, NEW a, NEW n, NEW h,
         TaskGood(c, "queued", w, o, a, n, h)
  PROVE  TaskGood(c, "ready", <<c>>, o, a, n, h)
<1>1. o = <<>> /\ a = 0 /\ n = 0 /\ h = 0 /\ o \in Seq(Int)
  BY DEF TaskGood, TaskOk, TaskTyped
<1>2. Remaining(c, <<c>>, o, n - a)
  BY <1>1 DEF Remaining
<1>3. TaskTyped("ready", <<c>>, o, a, n, h)
  BY <1>1, FanOutAssumption DEF TaskTyped, Phases, Started
<1> QED BY <1>1, <1>2, <1>3, FanOutAssumption DEF TaskGood, TaskOk

LEMMA TaskCalls ==
  ASSUME NEW c \in ChunkType, NEW w, NEW o, NEW a, NEW n, NEW h,
         TaskGood(c, "ready", w, o, a, n, h)
  PROVE  TaskGood(c, "calling", w, o, a + 1, n + 1, ProviderCost)
<1>1. /\ a \in 0..MaxAttempts /\ a < MaxAttempts /\ n \in Nat
      /\ w \in Seq(ChunkType) /\ o \in Seq(Int) /\ Remaining(c, w, o, n - a)
  BY DEF TaskGood, TaskOk, TaskTyped, Started
<1>2. n - a \in 0..(2 * MaxAttempts)
  BY <1>1, RemainingFits
<1>3. (n + 1) - (a + 1) = n - a /\ n + 1 <= 3 * MaxAttempts /\ 0 < a + 1
  BY <1>1, <1>2, FanOutAssumption
<1>4. Remaining(c, w, o, (n + 1) - (a + 1))
  BY <1>1, <1>3
<1>5. TaskTyped("calling", w, o, a + 1, n + 1, ProviderCost)
  BY <1>1, FanOutAssumption DEF TaskTyped, Phases, Started
<1> QED BY <1>3, <1>4, <1>5 DEF TaskGood, TaskOk

LEMMA TaskTranslates ==
  ASSUME NEW c \in ChunkType, c.lo <= c.hi + 1, NEW w, NEW o, NEW a, NEW n, NEW h,
         TaskGood(c, "calling", w, o, a, n, h)
  PROVE  TaskGood(c, IF Tail(w) = <<>> THEN "ok" ELSE "ready", Tail(w),
                  o \o Covered(Head(w)), 0, n, 0)
<1>1. /\ a \in 0..MaxAttempts /\ n \in Nat /\ n <= 3 * MaxAttempts
      /\ w \in Seq(ChunkType) /\ o \in Seq(Int) /\ Remaining(c, w, o, n - a)
  BY DEF TaskGood, TaskOk, TaskTyped, Started
<1>2. Tail(w) \in Seq(ChunkType) /\ n - a \in 0..(2 * MaxAttempts)
  BY <1>1, RemainingFits
<1>3. n - a + a = n /\ n - 0 = n /\ 0 \in 0..MaxAttempts /\ 0 < MaxAttempts
  BY <1>1, FanOutAssumption
<1>4. CASE Tail(w) = <<>>
  <2>1. o \o Covered(Head(w)) = Covered(c)
    BY <1>1, <1>4, LastPiece
  <2>2. Covered(c) \in Seq(Int)
    BY CoveredIsSequence
  <2> DEFINE new == o \o Covered(Head(w))
  <2>3. new = Covered(c) /\ new \in Seq(Int)
    BY <2>1, <2>2
  <2> HIDE DEF new
  <2>4. TaskTyped("ok", Tail(w), new, 0, n, 0)
    BY <1>1, <1>2, <1>3, <2>3 DEF TaskTyped, Phases
  <2>5. TaskOk(c, "ok", Tail(w), new, 0, n, 0)
    BY <1>1, <2>3 DEF TaskOk, Started
  <2> QED BY <1>4, <2>4, <2>5 DEF TaskGood, new
<1>5. CASE Tail(w) # <<>>
  <2> DEFINE new == o \o Covered(Head(w))
  <2>1. Remaining(c, Tail(w), new, n)
    BY <1>1, <1>3, <1>5, NextPiece
  <2>2. new \in Seq(Int)
    <3>1. new = <<>> \/ (CanSplit(c) /\ new = Covered(Split(c)[1]))
      <4> HIDE DEF new
      <4> QED BY <2>1 DEF Remaining
    <3> HIDE DEF new
    <3>2. CASE new = <<>>
      BY <3>2
    <3>3. CASE CanSplit(c) /\ new = Covered(Split(c)[1])
      <4>1. PICK x, y \in ChunkType : Split(c) = <<x, y>> /\ x.lo <= x.hi
        BY <3>3, SplitCoversChunk
      <4>2. x.lo <= x.hi + 1
        BY <4>1 DEF ChunkType
      <4>3. Covered(x) \in Seq(Int) /\ Split(c)[1] = x
        BY <4>1, <4>2, CoveredIsSequence
      <4> QED BY <3>3, <4>3
    <3> QED BY <3>1, <3>2, <3>3
  <2> HIDE DEF new
  <2>3. TaskTyped("ready", Tail(w), new, 0, n, 0)
    BY <1>1, <1>2, <1>3, <2>2 DEF TaskTyped, Phases, Started
  <2>4. TaskOk(c, "ready", Tail(w), new, 0, n, 0)
    BY <1>1, <1>3, <2>1 DEF TaskOk
  <2> QED BY <1>5, <2>3, <2>4 DEF TaskGood, new
<1> QED BY <1>4, <1>5

LEMMA TaskBacksOff ==
  ASSUME NEW c \in ChunkType, NEW w, NEW o, NEW a, NEW n, NEW h,
         TaskGood(c, "calling", w, o, a, n, h), a < MaxAttempts
  PROVE  TaskGood(c, "backoff", w, o, a, n, 0)
BY DEF TaskGood, TaskTyped, TaskOk, Phases, Started

LEMMA TaskRetries ==
  ASSUME NEW c \in ChunkType, NEW w, NEW o, NEW a, NEW n, NEW h,
         TaskGood(c, "backoff", w, o, a, n, h)
  PROVE  TaskGood(c, "ready", w, o, a, n, h)
BY DEF TaskGood, TaskTyped, TaskOk, Phases, Started

LEMMA TaskFails ==
  ASSUME NEW c \in ChunkType, NEW w, NEW o, NEW a, NEW n, NEW h,
         TaskGood(c, "calling", w, o, a, n, h)
  PROVE  TaskGood(c, "failed", w, o, a, n, 0)
BY DEF TaskGood, TaskTyped, TaskOk, Phases, Started

LEMMA TaskSplits ==
  ASSUME NEW c \in ChunkType, NEW w, NEW o, NEW a, NEW n, NEW h,
         TaskGood(c, "calling", w, o, a, n, h), CanSplit(Head(w))
  PROVE  TaskGood(c, "ready", Split(Head(w)) \o Tail(w), o, 0, n, 0)
<1>1. /\ a \in 0..MaxAttempts /\ n \in Nat /\ n <= 3 * MaxAttempts
      /\ w \in Seq(ChunkType) /\ o \in Seq(Int) /\ Remaining(c, w, o, n - a)
  BY DEF TaskGood, TaskOk, TaskTyped, Started
<1>2. n - a \in 0..(2 * MaxAttempts)
  BY <1>1, RemainingFits
<1>3. n - a + a = n /\ n - 0 = n /\ 0 \in 0..MaxAttempts /\ 0 < MaxAttempts
  BY <1>1, FanOutAssumption
<1> DEFINE new == Split(Head(w)) \o Tail(w)
<1>4. Remaining(c, new, o, n)
  BY <1>1, <1>3, SplitPiece
<1> HIDE DEF new
<1>5. new \in Seq(ChunkType)
  BY <1>4, RemainingFits
<1>6. TaskTyped("ready", new, o, 0, n, 0)
  BY <1>1, <1>3, <1>5 DEF TaskTyped, Phases, Started
<1>7. TaskOk(c, "ready", new, o, 0, n, 0)
  BY <1>1, <1>3, <1>4 DEF TaskOk
<1> QED BY <1>6, <1>7 DEF TaskGood, new

-----------------------------------------------------------------------------
(* The steps of the stage.                                                 *)

LEMMA SameFunction ==
  ASSUME NEW S, NEW T, NEW f \in [S -> T], NEW x \in S
  PROVE  f = [f EXCEPT ![x] = f[x]]
OBVIOUS

\* What the invariant says of one task.
LEMMA TaskFacts ==
  ASSUME FInv, NEW t \in Tasks
  PROVE  /\ t[1] \in Variants /\ t[2] \in 1..Len(Chunks)
         /\ Chunks[t[2]] \in ChunkType /\ Chunks[t[2]].lo <= Chunks[t[2]].hi + 1
         /\ TaskGood(Chunks[t[2]], phase[t], work[t], out[t], attempt[t], calls[t], admitted[t])
         /\ phase = [phase EXCEPT ![t] = phase[t]] /\ work = [work EXCEPT ![t] = work[t]]
         /\ out = [out EXCEPT ![t] = out[t]] /\ attempt = [attempt EXCEPT ![t] = attempt[t]]
         /\ calls = [calls EXCEPT ![t] = calls[t]]
         /\ admitted = [admitted EXCEPT ![t] = admitted[t]]
<1>1. t[1] \in Variants /\ t[2] \in 1..Len(Chunks)
  BY DEF Tasks
<1>2. Chunks[t[2]] \in ChunkType /\ Chunks[t[2]].lo <= Chunks[t[2]].hi + 1
  BY <1>1, ChunksCoverTranscript
<1>3. TaskTyped(phase[t], work[t], out[t], attempt[t], calls[t], admitted[t])
  BY DEF FInv, TypeOK, TaskTyped
<1>4. TaskOk(Chunks[t[2]], phase[t], work[t], out[t], attempt[t], calls[t], admitted[t])
  BY DEF FInv, TaskInv
<1>5. /\ phase = [phase EXCEPT ![t] = phase[t]] /\ work = [work EXCEPT ![t] = work[t]]
      /\ out = [out EXCEPT ![t] = out[t]] /\ attempt = [attempt EXCEPT ![t] = attempt[t]]
      /\ calls = [calls EXCEPT ![t] = calls[t]]
      /\ admitted = [admitted EXCEPT ![t] = admitted[t]]
  BY SameFunction DEF FInv, TypeOK
<1> QED BY <1>1, <1>2, <1>3, <1>4, <1>5 DEF TaskGood

\* A step of a task that is not settled disturbs no other task and no verdict.
LEMMA TaskStep ==
  ASSUME FInv, NEW t \in Tasks, NEW p, NEW w, NEW o, NEW a, NEW n, NEW h,
         phase' = [phase EXCEPT ![t] = p], work' = [work EXCEPT ![t] = w],
         out' = [out EXCEPT ![t] = o], attempt' = [attempt EXCEPT ![t] = a],
         calls' = [calls EXCEPT ![t] = n], admitted' = [admitted EXCEPT ![t] = h],
         TaskGood(Chunks[t[2]], p, w, o, a, n, h),
         phase[t] \notin Settled,
         UNCHANGED <<variant, text, culprit, candidates, stage>>,
         faults' \in 0..MaxFaults, Paid'
  PROVE  FInv'
<1>1. TaskTyped(p, w, o, a, n, h)
  BY DEF TaskGood
<1>2. TypeOK'
  <2>1. phase' \in [Tasks -> Phases] /\ work' \in [Tasks -> Seq(ChunkType)]
    BY <1>1 DEF FInv, TypeOK, TaskTyped
  <2>2. out' \in [Tasks -> Seq(Int)] /\ attempt' \in [Tasks -> 0..MaxAttempts]
    BY <1>1 DEF FInv, TypeOK, TaskTyped
  <2>3. calls' \in [Tasks -> Nat] /\ admitted' \in [Tasks -> {0, ProviderCost}]
    BY <1>1 DEF FInv, TypeOK, TaskTyped
  <2> QED BY <2>1, <2>2, <2>3 DEF FInv, TypeOK
<1>3. ASSUME NEW u \in Tasks
      PROVE  IF u = t
             THEN /\ phase'[u] = p /\ work'[u] = w /\ out'[u] = o
                  /\ attempt'[u] = a /\ calls'[u] = n /\ admitted'[u] = h
             ELSE /\ phase'[u] = phase[u] /\ work'[u] = work[u] /\ out'[u] = out[u]
                  /\ attempt'[u] = attempt[u] /\ calls'[u] = calls[u]
                  /\ admitted'[u] = admitted[u]
  <2>1. /\ phase \in [Tasks -> Phases] /\ work \in [Tasks -> Seq(ChunkType)]
        /\ out \in [Tasks -> Seq(Int)] /\ attempt \in [Tasks -> 0..MaxAttempts]
        /\ calls \in [Tasks -> Nat] /\ admitted \in [Tasks -> {0, ProviderCost}]
    BY DEF FInv, TypeOK
  <2> QED BY <2>1
<1>4. ASSUME NEW u \in Tasks PROVE TaskInv(u)'
  <2>1. TaskInv(u)' =
        TaskOk(Chunks[u[2]], phase'[u], work'[u], out'[u], attempt'[u], calls'[u], admitted'[u])
    BY DEF TaskInv
  <2>2. CASE u = t
    BY <1>3, <2>1, <2>2 DEF TaskGood
  <2>3. CASE u # t
    BY <1>3, <2>1, <2>3 DEF FInv, TaskInv
  <2> QED BY <2>2, <2>3
<1>5. ASSUME NEW v \in Variants, variant[v] \in Settled
      PROVE  \A i \in 1..Len(Chunks) : phase'[<<v, i>>] = phase[<<v, i>>]
  <2>1. ASSUME NEW i \in 1..Len(Chunks) PROVE phase'[<<v, i>>] = phase[<<v, i>>]
    <3>1. <<v, i>> \in Tasks
      BY DEF Tasks
    <3>2. phase[<<v, i>>] \in Settled
      BY <1>5 DEF FInv, VariantInv
    <3> QED BY <1>3, <3>1, <3>2
  <2> QED BY <2>1
<1>6. ASSUME NEW v \in Variants PROVE VariantInv(v)'
  <2>1. variant' = variant /\ text' = text /\ culprit' = culprit
    OBVIOUS
  <2>2. CASE variant[v] \in Settled
    <3>1. Bad(v)' = Bad(v)
      BY <1>5, <2>2 DEF Bad
    <3>2. VariantInv(v)
      BY DEF FInv
    <3> QED BY <1>5, <2>1, <2>2, <3>1, <3>2 DEF VariantInv
  <2>3. CASE variant[v] \notin Settled
    BY <2>1, <2>3 DEF VariantInv, Settled
  <2> QED BY <2>2, <2>3
<1>7. StageInv'
  <2>1. StageInv /\ variant' = variant /\ candidates' = candidates /\ stage' = stage
    BY DEF FInv
  <2> QED BY <2>1 DEF StageInv, Lists
<1> QED BY <1>2, <1>4, <1>6, <1>7 DEF FInv

\* Tokens that are given back make room.
LEMMA PaidAfterLeave ==
  ASSUME FInv, NEW t \in Tasks, admitted' = [admitted EXCEPT ![t] = 0]
  PROVE  Paid'
<1>1. admitted \in [Tasks -> {0, ProviderCost}] /\ Paid
  BY DEF FInv, TypeOK
<1>2. TotalTokens \in Nat /\ NumVariants \in Nat /\ Len(Chunks) \in Nat
  BY FanOutAssumption, ChunksCoverTranscript
<1>3. IsFiniteSet(Tasks \X (1..TotalTokens))
  <2>1. IsFiniteSet(Variants) /\ IsFiniteSet(1..Len(Chunks)) /\ IsFiniteSet(1..TotalTokens)
    BY <1>2, IntervalSize DEF Variants
  <2>2. IsFiniteSet(Tasks)
    BY <2>1, FS_Product DEF Tasks
  <2> QED BY <2>1, <2>2, FS_Product
<1>4. IsFiniteSet(Limiter!InUse(admitted))
  <2>1. Limiter!InUse(admitted) \subseteq Tasks \X (1..TotalTokens)
    BY DEF Limiter!InUse
  <2> QED BY <1>3, <2>1, FS_Subset
<1>5. Limiter!InUse(admitted') \subseteq Limiter!InUse(admitted)
  <2>1. ASSUME NEW q \in Tasks \X (1..TotalTokens), q[2] <= admitted'[q[1]]
        PROVE  q[2] <= admitted[q[1]]
    <3>1. q[1] \in Tasks /\ q[2] \in 1..TotalTokens
      OBVIOUS
    <3>2. CASE q[1] = t
      <4>1. admitted'[q[1]] = 0
        BY <1>1, <3>1, <3>2
      <4> QED BY <2>1, <3>1, <4>1
    <3>3. CASE q[1] # t
      <4>1. admitted'[q[1]] = admitted[q[1]]
        BY <1>1, <3>1, <3>3
      <4> QED BY <2>1, <4>1
    <3> QED BY <3>2, <3>3
  <2> QED BY <2>1 DEF Limiter!InUse
<1>6. /\ Cardinality(Limiter!InUse(admitted')) <= Cardinality(Limiter!InUse(admitted))
      /\ IsFiniteSet(Limiter!InUse(admitted'))
  BY <1>4, <1>5, FS_Subset
<1>7. /\ Cardinality(Limiter!InUse(admitted)) \in Nat
      /\ Cardinality(Limiter!InUse(admitted')) \in Nat
  BY <1>4, <1>6, FS_CardinalityType
<1> QED BY <1>1, <1>2, <1>6, <1>7 DEF Paid

\* A variant that opens is not decided.
LEMMA OpenVariantKeeps ==
  ASSUME FInv, NEW v \in Variants, OpenVariant(v)
  PROVE  FInv'
<1>1. /\ variant[v] = "queued" /\ variant' = [variant EXCEPT ![v] = "open"]
      /\ UNCHANGED <<phase, work, out, attempt, calls, admitted, text, culprit,
                     candidates, stage, faults>>
  BY DEF OpenVariant
<1>2. TypeOK'
  BY <1>1 DEF FInv, TypeOK
<1>3. variant' \in [Variants -> {"queued", "open"} \cup Settled]
      /\ \A u \in Variants : variant'[u] = IF u = v THEN "open" ELSE variant[u]
  BY <1>1 DEF FInv, TypeOK
<1>4. ASSUME NEW t \in Tasks PROVE TaskInv(t)'
  BY <1>1 DEF FInv, TaskInv
<1>5. ASSUME NEW u \in Variants PROVE VariantInv(u)'
  <2>1. Bad(u)' = Bad(u)
    BY <1>1 DEF Bad
  <2>2. CASE u = v
    BY <1>3, <2>2 DEF VariantInv, Settled
  <2>3. CASE u # v
    <3>1. variant'[u] = variant[u] /\ VariantInv(u)
      BY <1>3, <2>3 DEF FInv
    <3> QED BY <1>1, <2>1, <3>1 DEF VariantInv
  <2> QED BY <2>2, <2>3
<1>6. StageInv'
  <2>1. stage = "running"
    BY <1>1 DEF FInv, StageInv, Settled
  <2> QED BY <1>1, <2>1 DEF StageInv
<1>7. Paid'
  BY <1>1 DEF FInv, Paid
<1> QED BY <1>2, <1>4, <1>5, <1>6, <1>7 DEF FInv

LEMMA StartChunkKeeps ==
  ASSUME FInv, NEW t \in Tasks, StartChunk(t)
  PROVE  FInv'
<1> DEFINE c == Chunks[t[2]]
<1>1. /\ phase[t] = "queued" /\ phase' = [phase EXCEPT ![t] = "ready"]
      /\ work' = [work EXCEPT ![t] = <<c>>]
      /\ UNCHANGED <<variant, out, attempt, calls, admitted, text, culprit,
                     candidates, stage, faults>>
  BY DEF StartChunk
<1>2. TaskGood(c, "ready", <<c>>, out[t], attempt[t], calls[t], admitted[t])
  BY <1>1, TaskFacts, TaskStarts
<1>3. /\ out' = [out EXCEPT ![t] = out[t]] /\ attempt' = [attempt EXCEPT ![t] = attempt[t]]
      /\ calls' = [calls EXCEPT ![t] = calls[t]]
      /\ admitted' = [admitted EXCEPT ![t] = admitted[t]]
  BY <1>1, TaskFacts
<1>4. phase[t] \notin Settled /\ faults' \in 0..MaxFaults /\ Paid'
  BY <1>1 DEF Settled, FInv, TypeOK, Paid
<1>5. UNCHANGED <<variant, text, culprit, candidates, stage>>
  BY <1>1
<1>6. phase' = [phase EXCEPT ![t] = "ready"] /\ work' = [work EXCEPT ![t] = <<c>>]
  BY <1>1
<1> QED BY <1>2, <1>3, <1>4, <1>5, <1>6, TaskStep

LEMMA BeginCallKeeps ==
  ASSUME FInv, NEW t \in Tasks, BeginCall(t)
  PROVE  FInv'
<1> DEFINE c == Chunks[t[2]]
<1>1. /\ phase[t] = "ready" /\ phase' = [phase EXCEPT ![t] = "calling"]
      /\ attempt' = [attempt EXCEPT ![t] = attempt[t] + 1]
      /\ calls' = [calls EXCEPT ![t] = calls[t] + 1]
      /\ admitted' = [admitted EXCEPT ![t] = ProviderCost]
      /\ Cardinality(Limiter!InUse(admitted')) <= TotalTokens
      /\ UNCHANGED <<variant, work, out, text, culprit, candidates, stage, faults>>
  <2>1. /\ phase[t] = "ready" /\ phase' = [phase EXCEPT ![t] = "calling"]
        /\ attempt' = [attempt EXCEPT ![t] = attempt[t] + 1]
        /\ calls' = [calls EXCEPT ![t] = calls[t] + 1]
        /\ Limiter!Enter(t, ProviderCost)
        /\ UNCHANGED <<variant, work, out, text, culprit, candidates, stage, faults>>
    BY DEF BeginCall
  <2>2. admitted' = [admitted EXCEPT ![t] = ProviderCost]
    BY <2>1 DEF Limiter!Enter
  <2>3. Limiter!Cardinality(Limiter!InUse(admitted')) <= TotalTokens
    BY <2>1 DEF Limiter!Enter
  <2>4. Limiter!Cardinality(Limiter!InUse(admitted')) = Cardinality(Limiter!InUse(admitted'))
    BY DEF Cardinality, Limiter!Cardinality
  <2> QED BY <2>1, <2>2, <2>3, <2>4
<1>2. TaskGood(c, "calling", work[t], out[t], attempt[t] + 1, calls[t] + 1, ProviderCost)
  BY <1>1, TaskFacts, TaskCalls
<1>3. work' = [work EXCEPT ![t] = work[t]] /\ out' = [out EXCEPT ![t] = out[t]]
  BY <1>1, TaskFacts
<1>4. phase[t] \notin Settled /\ faults' \in 0..MaxFaults /\ Paid'
  BY <1>1 DEF Settled, FInv, TypeOK, Paid
<1>5. UNCHANGED <<variant, text, culprit, candidates, stage>>
  BY <1>1
<1> QED BY <1>1, <1>2, <1>3, <1>4, <1>5, TaskStep

LEMMA TranslatedKeeps ==
  ASSUME FInv, NEW t \in Tasks, Translated(t)
  PROVE  FInv'
<1> DEFINE c == Chunks[t[2]]
           p == IF Tail(work[t]) = <<>> THEN "ok" ELSE "ready"
           o == out[t] \o Covered(Head(work[t]))
<1>1. /\ phase[t] = "calling" /\ phase' = [phase EXCEPT ![t] = p]
      /\ work' = [work EXCEPT ![t] = Tail(work[t])] /\ out' = [out EXCEPT ![t] = o]
      /\ attempt' = [attempt EXCEPT ![t] = 0] /\ admitted' = [admitted EXCEPT ![t] = 0]
      /\ UNCHANGED <<variant, calls, text, culprit, candidates, stage, faults>>
  BY DEF Translated, Limiter!Leave
<1>2. TaskGood(c, p, Tail(work[t]), o, 0, calls[t], 0)
  <2>1. TaskGood(c, "calling", work[t], out[t], attempt[t], calls[t], admitted[t])
    BY <1>1, TaskFacts
  <2>2. c \in ChunkType /\ c.lo <= c.hi + 1
    BY TaskFacts
  <2> HIDE DEF c
  <2> QED BY <2>1, <2>2, TaskTranslates
<1>3. calls' = [calls EXCEPT ![t] = calls[t]] /\ Paid'
  BY <1>1, TaskFacts, PaidAfterLeave
<1>4. phase[t] \notin Settled /\ faults' \in 0..MaxFaults
  BY <1>1 DEF Settled, FInv, TypeOK
<1> HIDE DEF p, o
<1> QED BY <1>1, <1>2, <1>3, <1>4, TaskStep

LEMMA BackoffOverKeeps ==
  ASSUME FInv, NEW t \in Tasks, BackoffOver(t)
  PROVE  FInv'
<1> DEFINE c == Chunks[t[2]]
<1>1. /\ phase[t] = "backoff" /\ phase' = [phase EXCEPT ![t] = "ready"]
      /\ UNCHANGED <<variant, work, out, attempt, calls, admitted, text, culprit,
                     candidates, stage, faults>>
  BY DEF BackoffOver
<1>2. TaskGood(c, "ready", work[t], out[t], attempt[t], calls[t], admitted[t])
  BY <1>1, TaskFacts, TaskRetries
<1>3. /\ work' = [work EXCEPT ![t] = work[t]] /\ out' = [out EXCEPT ![t] = out[t]]
      /\ attempt' = [attempt EXCEPT ![t] = attempt[t]]
      /\ calls' = [calls EXCEPT ![t] = calls[t]]
      /\ admitted' = [admitted EXCEPT ![t] = admitted[t]]
  BY <1>1, TaskFacts
<1>4. phase[t] \notin Settled /\ faults' \in 0..MaxFaults /\ Paid'
  BY <1>1 DEF Settled, FInv, TypeOK, Paid
<1>5. UNCHANGED <<variant, text, culprit, candidates, stage>>
  BY <1>1
<1>6. phase' = [phase EXCEPT ![t] = "ready"]
  BY <1>1
<1> QED BY <1>2, <1>3, <1>4, <1>5, <1>6, TaskStep

\* A call that goes wrong: the task backs off, splits the piece or fails, and gives its
\* tokens back in any case.
LEMMA ErrorKeeps ==
  ASSUME FInv, NEW t \in Tasks, NEW splittable \in BOOLEAN, GoesWrong(t), Limiter!Leave(t),
         \/ /\ attempt[t] < MaxAttempts
            /\ phase' = [phase EXCEPT ![t] = "backoff"] /\ UNCHANGED <<work, attempt>>
         \/ SplitOrFail(t, splittable)
  PROVE  FInv'
<1> DEFINE c == Chunks[t[2]]
<1>1. /\ phase[t] = "calling" /\ admitted' = [admitted EXCEPT ![t] = 0]
      /\ UNCHANGED <<variant, out, calls, text, culprit, candidates, stage>>
      /\ phase[t] \notin Settled /\ faults' \in 0..MaxFaults
  BY FanOutAssumption DEF GoesWrong, Limiter!Leave, Settled, FInv, TypeOK
<1>2. /\ out' = [out EXCEPT ![t] = out[t]] /\ calls' = [calls EXCEPT ![t] = calls[t]]
      /\ TaskGood(c, "calling", work[t], out[t], attempt[t], calls[t], admitted[t])
      /\ c \in ChunkType /\ Paid'
  BY <1>1, TaskFacts, PaidAfterLeave
<1>3. ASSUME attempt[t] < MaxAttempts,
             phase' = [phase EXCEPT ![t] = "backoff"], UNCHANGED <<work, attempt>>
      PROVE  FInv'
  <2>1. TaskGood(c, "backoff", work[t], out[t], attempt[t], calls[t], 0)
    BY <1>2, <1>3, TaskBacksOff
  <2>2. work' = [work EXCEPT ![t] = work[t]] /\ attempt' = [attempt EXCEPT ![t] = attempt[t]]
    BY <1>3, TaskFacts
  <2> QED BY <1>1, <1>2, <1>3, <2>1, <2>2, TaskStep
<1>4. ASSUME CanSplit(Head(work[t])),
             work' = [work EXCEPT ![t] = Split(Head(work[t])) \o Tail(work[t])],
             attempt' = [attempt EXCEPT ![t] = 0], phase' = [phase EXCEPT ![t] = "ready"]
      PROVE  FInv'
  <2> DEFINE w == Split(Head(work[t])) \o Tail(work[t])
  <2>1. TaskGood(c, "ready", w, out[t], 0, calls[t], 0)
    BY <1>2, <1>4, TaskSplits
  <2>2. work' = [work EXCEPT ![t] = w]
    BY <1>4
  <2> HIDE DEF w
  <2> QED BY <1>1, <1>2, <1>4, <2>1, <2>2, TaskStep
<1>5. ASSUME phase' = [phase EXCEPT ![t] = "failed"], UNCHANGED <<work, attempt>>
      PROVE  FInv'
  <2>1. TaskGood(c, "failed", work[t], out[t], attempt[t], calls[t], 0)
    BY <1>2, TaskFails
  <2>2. work' = [work EXCEPT ![t] = work[t]] /\ attempt' = [attempt EXCEPT ![t] = attempt[t]]
    BY <1>5, TaskFacts
  <2> QED BY <1>1, <1>2, <1>5, <2>1, <2>2, TaskStep
<1>6. CASE SplitOrFail(t, splittable)
  <2>1. \/ /\ CanSplit(Head(work[t]))
           /\ work' = [work EXCEPT ![t] = Split(Head(work[t])) \o Tail(work[t])]
           /\ attempt' = [attempt EXCEPT ![t] = 0] /\ phase' = [phase EXCEPT ![t] = "ready"]
        \/ phase' = [phase EXCEPT ![t] = "failed"] /\ UNCHANGED <<work, attempt>>
    <3>1. work \in [Tasks -> Seq(ChunkType)]
      BY DEF FInv, TypeOK
    <3> QED BY <1>6, <3>1 DEF SplitOrFail
  <2> QED BY <1>4, <1>5, <2>1
<1> QED BY <1>3, <1>6

\* The parts of a variant without a failed chunk are those of the transcript.
LEMMA PartsMakeTranscript ==
  ASSUME FInv, NEW v \in Variants,
         \A i \in 1..Len(Chunks) : phase[<<v, i>>] = "ok"
  PROVE  FlattenSeq([k \in 1..Len(Chunks) |-> out[<<v, k>>]]) = Positions(NumSegments)
<1>1. ASSUME NEW k \in 1..Len(Chunks) PROVE out[<<v, k>>] = Covered(Chunks[k])
  <2>1. <<v, k>> \in Tasks /\ <<v, k>>[2] = k
    BY DEF Tasks
  <2>2. TaskOk(Chunks[k], phase[<<v, k>>], work[<<v, k>>], out[<<v, k>>], attempt[<<v, k>>],
               calls[<<v, k>>], admitted[<<v, k>>])
    BY <2>1 DEF FInv, TaskInv
  <2> QED BY <2>2 DEF TaskOk
<1>2. [k \in 1..Len(Chunks) |-> out[<<v, k>>]] = [k \in 1..Len(Chunks) |-> Covered(Chunks[k])]
  BY <1>1
<1> QED BY <1>2, ChunksCoverTranscript

\* The verdict of a variant: its chunks are settled, and the order in which they arrived
\* has no say.
LEMMA JoinChunksKeeps ==
  ASSUME FInv, NEW v \in Variants, JoinChunks(v)
  PROVE  FInv'
<1> DEFINE n == Len(Chunks)
<1>1. n \in Nat /\ n > 0
  BY ChunksCoverTranscript
<1>2. PICK arrival \in Arrivals(n) :
        LET order == InInputOrder(arrival)
            errors == {k \in DOMAIN order : phase[<<v, order[k]>>] = "failed"}
        IN \/ /\ errors # {}
              /\ variant' = [variant EXCEPT ![v] = "failed"]
              /\ culprit' = [culprit EXCEPT ![v] = order[Min(errors)]]
              /\ UNCHANGED text
           \/ /\ errors = {}
              /\ variant' = [variant EXCEPT ![v] = "ok"]
              /\ text' = [text EXCEPT ![v] =
                            FlattenSeq([k \in DOMAIN order |-> out[<<v, order[k]>>]])]
              /\ UNCHANGED culprit
  BY DEF JoinChunks
<1>3. /\ variant[v] = "open" /\ \A i \in 1..n : phase[<<v, i>>] \in Settled
      /\ UNCHANGED <<phase, work, out, attempt, calls, admitted, candidates, stage, faults>>
  BY DEF JoinChunks, Settled
<1>4. InInputOrder(arrival) = Positions(n)
  BY <1>1, ResultsAreInInputOrder
<1>5. DOMAIN Positions(n) = 1..n /\ \A k \in 1..n : Positions(n)[k] = k
  BY <1>1, PositionsAreSequence
<1>6. {k \in 1..n : phase[<<v, Positions(n)[k]>>] = "failed"} = Bad(v)
  BY <1>5 DEF Bad
<1>7. Bad(v) # {} => Min(Bad(v)) \in 1..n /\ Positions(n)[Min(Bad(v))] = Min(Bad(v))
  <2>1. Bad(v) \in SUBSET Nat /\ Bad(v) \subseteq 1..n
    BY <1>1 DEF Bad
  <2> QED BY <1>5, <2>1, LeastIsMin
<1>8. \/ /\ {k \in 1..n : phase[<<v, Positions(n)[k]>>] = "failed"} # {}
         /\ variant' = [variant EXCEPT ![v] = "failed"]
         /\ culprit' = [culprit EXCEPT ![v] =
               Positions(n)[Min({k \in 1..n : phase[<<v, Positions(n)[k]>>] = "failed"})]]
         /\ UNCHANGED text
      \/ /\ {k \in 1..n : phase[<<v, Positions(n)[k]>>] = "failed"} = {}
         /\ variant' = [variant EXCEPT ![v] = "ok"]
         /\ text' = [text EXCEPT ![v] =
               FlattenSeq([k \in 1..n |-> out[<<v, Positions(n)[k]>>]])]
         /\ UNCHANGED culprit
  <2>1. DOMAIN InInputOrder(arrival) = 1..n
    BY <1>4, <1>5
  <2> HIDE DEF n
  <2> QED BY <1>2, <1>4, <2>1
<1>9. \/ /\ Bad(v) # {}
         /\ variant' = [variant EXCEPT ![v] = "failed"]
         /\ culprit' = [culprit EXCEPT ![v] = Positions(n)[Min(Bad(v))]]
         /\ UNCHANGED text
      \/ /\ Bad(v) = {}
         /\ variant' = [variant EXCEPT ![v] = "ok"]
         /\ text' = [text EXCEPT ![v] =
               FlattenSeq([k \in 1..n |-> out[<<v, Positions(n)[k]>>]])]
         /\ UNCHANGED culprit
  <2> HIDE DEF n
  <2> QED BY <1>6, <1>8
<1>10. \/ /\ Bad(v) # {}
          /\ variant' = [variant EXCEPT ![v] = "failed"]
          /\ culprit' = [culprit EXCEPT ![v] = Min(Bad(v))] /\ text' = text
       \/ /\ Bad(v) = {}
          /\ variant' = [variant EXCEPT ![v] = "ok"]
          /\ text' = [text EXCEPT ![v] = Positions(NumSegments)] /\ culprit' = culprit
  <2>1. CASE Bad(v) # {}
    <3>1. /\ variant' = [variant EXCEPT ![v] = "failed"] /\ text' = text
          /\ culprit' = [culprit EXCEPT ![v] = Positions(n)[Min(Bad(v))]]
      <4> HIDE DEF n
      <4> QED BY <1>9, <2>1
    <3>2. Positions(n)[Min(Bad(v))] = Min(Bad(v))
      BY <1>7, <2>1
    <3> QED BY <2>1, <3>1, <3>2
  <2>2. CASE Bad(v) = {}
    <3>1. \A i \in 1..n : phase[<<v, i>>] = "ok"
      BY <1>3, <2>2 DEF Bad, Settled
    <3>2. FlattenSeq([k \in 1..n |-> out[<<v, k>>]]) = Positions(NumSegments)
      BY <3>1, PartsMakeTranscript
    <3>3. [k \in 1..n |-> out[<<v, Positions(n)[k]>>]] = [k \in 1..n |-> out[<<v, k>>]]
      BY <1>5
    <3>4. /\ variant' = [variant EXCEPT ![v] = "ok"] /\ culprit' = culprit
          /\ text' = [text EXCEPT ![v] =
                        FlattenSeq([k \in 1..n |-> out[<<v, Positions(n)[k]>>]])]
      <4> HIDE DEF n
      <4> QED BY <1>9, <2>2
    <3> QED BY <2>2, <3>2, <3>3, <3>4
  <2> QED BY <2>1, <2>2
<1>11. /\ variant' \in [Variants -> {"queued", "open"} \cup Settled]
       /\ text' \in [Variants -> Seq(Int)] /\ culprit' \in [Variants -> 0..n]
       /\ variant'[v] \in Settled
       /\ variant'[v] = "ok" => Bad(v) = {} /\ text'[v] = Positions(NumSegments)
       /\ variant'[v] = "failed" => Bad(v) # {} /\ culprit'[v] = Min(Bad(v))
       /\ \A u \in Variants : u # v =>
             variant'[u] = variant[u] /\ text'[u] = text[u] /\ culprit'[u] = culprit[u]
  <2>1. /\ variant \in [Variants -> {"queued", "open"} \cup Settled]
        /\ text \in [Variants -> Seq(Int)] /\ culprit \in [Variants -> 0..n]
    BY DEF FInv, TypeOK
  <2>2. Positions(NumSegments) \in Seq(Int)
    BY PositionsAreSequence, FanOutAssumption
  <2>3. Bad(v) # {} => Min(Bad(v)) \in 0..n
    BY <1>1, <1>7
  <2>4. "ok" \in Settled /\ "failed" \in Settled
    BY DEF Settled
  <2> HIDE DEF n
  <2>5. CASE /\ Bad(v) # {}
             /\ variant' = [variant EXCEPT ![v] = "failed"]
             /\ culprit' = [culprit EXCEPT ![v] = Min(Bad(v))] /\ text' = text
    BY <2>1, <2>3, <2>4, <2>5
  <2>6. CASE /\ Bad(v) = {}
             /\ variant' = [variant EXCEPT ![v] = "ok"]
             /\ text' = [text EXCEPT ![v] = Positions(NumSegments)] /\ culprit' = culprit
    BY <2>1, <2>2, <2>4, <2>6
  <2> QED BY <1>10, <2>5, <2>6
<1>12. TypeOK'
  BY <1>3, <1>11 DEF FInv, TypeOK
<1>13. ASSUME NEW t \in Tasks PROVE TaskInv(t)'
  BY <1>3 DEF FInv, TaskInv
<1>14. ASSUME NEW u \in Variants PROVE VariantInv(u)'
  <2>1. Bad(u)' = Bad(u)
    BY <1>3 DEF Bad
  <2>2. CASE u = v
    BY <1>3, <1>11, <2>1, <2>2 DEF VariantInv
  <2>3. CASE u # v
    <3>1. VariantInv(u) /\ variant'[u] = variant[u] /\ text'[u] = text[u] /\ culprit'[u] = culprit[u]
      BY <1>11, <2>3 DEF FInv
    <3> QED BY <1>3, <2>1, <3>1 DEF VariantInv
  <2> QED BY <2>2, <2>3
<1>15. StageInv' /\ Paid'
  <2>1. stage = "running"
    BY <1>3 DEF FInv, StageInv, Settled
  <2> QED BY <1>3, <2>1 DEF FInv, StageInv, Paid
<1> QED BY <1>12, <1>13, <1>14, <1>15 DEF FInv

\* The verdict of the stage.
LEMMA JoinVariantsKeeps ==
  ASSUME FInv, JoinVariants
  PROVE  FInv'
<1>1. PICK arrival \in Arrivals(NumVariants) : candidates' = Staged(InInputOrder(arrival))
  BY DEF JoinVariants
<1>2. /\ \A v \in Variants : variant[v] \in Settled
      /\ stage' = IF candidates' = <<>> THEN "translation_failed" ELSE "translated"
      /\ UNCHANGED <<variant, phase, work, out, attempt, calls, admitted, text, culprit, faults>>
  BY DEF JoinVariants, Settled
<1>3. InInputOrder(arrival) = Positions(NumVariants)
  BY FanOutAssumption, ResultsAreInInputOrder
<1>4. candidates' = Staged(Positions(NumVariants))
  BY <1>1, <1>3
<1>5. Lists(candidates', NumVariants)
  BY <1>4, StagedAreListed
<1>6. candidates' \in Seq(Variants)
  BY <1>5 DEF Lists, Variants
<1>7. TypeOK'
  BY <1>2, <1>6 DEF FInv, TypeOK
<1>8. ASSUME NEW t \in Tasks PROVE TaskInv(t)'
  BY <1>2 DEF FInv, TaskInv
<1>9. ASSUME NEW v \in Variants PROVE VariantInv(v)'
  <2>1. Bad(v)' = Bad(v)
    BY <1>2 DEF Bad
  <2> QED BY <1>2, <2>1 DEF FInv, VariantInv
<1>10. StageInv'
  <2>1. Lists(candidates, NumVariants)'
    BY <1>2, <1>5 DEF Lists
  <2> QED BY <1>2, <2>1 DEF StageInv
<1>11. Paid'
  BY <1>2 DEF FInv, Paid
<1> QED BY <1>7, <1>8, <1>9, <1>10, <1>11 DEF FInv

-----------------------------------------------------------------------------
(* The theorems.                                                           *)

LEMMA InitIsGood == Init => FInv
<1> SUFFICES ASSUME Init PROVE FInv
  OBVIOUS
<1>1. /\ variant = [v \in Variants |-> "queued"] /\ phase = [t \in Tasks |-> "queued"]
      /\ work = [t \in Tasks |-> <<>>] /\ out = [t \in Tasks |-> <<>>]
      /\ attempt = [t \in Tasks |-> 0] /\ calls = [t \in Tasks |-> 0]
      /\ admitted = [t \in Tasks |-> 0]
      /\ text = [v \in Variants |-> <<>>] /\ culprit = [v \in Variants |-> 0]
      /\ candidates = <<>> /\ stage = "running" /\ faults = 0
  BY DEF Init, Limiter!Init
<1>2. /\ MaxAttempts \in Nat /\ MaxFaults \in Nat /\ TotalTokens \in Nat
      /\ Len(Chunks) \in Nat
  BY FanOutAssumption, ChunksCoverTranscript
<1>3. TypeOK
  BY <1>1, <1>2 DEF TypeOK, Phases, Settled
<1>4. ASSUME NEW t \in Tasks PROVE TaskInv(t)
  <2>1. /\ phase[t] = "queued" /\ work[t] = <<>> /\ out[t] = <<>>
        /\ attempt[t] = 0 /\ calls[t] = 0 /\ admitted[t] = 0
    BY <1>1
  <2> QED BY <1>2, <2>1 DEF TaskInv, TaskOk, Started
<1>5. ASSUME NEW v \in Variants PROVE VariantInv(v)
  BY <1>1 DEF VariantInv, Settled
<1>6. StageInv
  BY <1>1 DEF StageInv
<1>7. Paid
  <2>1. \A q \in Tasks \X (1..TotalTokens) : ~(q[2] <= admitted[q[1]])
    BY <1>1, <1>2
  <2>2. Limiter!InUse(admitted) = {}
    BY <2>1 DEF Limiter!InUse
  <2> QED BY <1>2, <2>2, FS_EmptySet DEF Paid
<1> QED BY <1>3, <1>4, <1>5, <1>6, <1>7 DEF FInv

LEMMA StepKeepsFInv == FInv /\ [Next]_vars => FInv'
<1> SUFFICES ASSUME FInv, [Next]_vars PROVE FInv'
  OBVIOUS
<1>1. ASSUME NEW v \in Variants, OpenVariant(v) PROVE FInv'
  BY <1>1, OpenVariantKeeps
<1>2. ASSUME NEW v \in Variants, JoinChunks(v) PROVE FInv'
  BY <1>2, JoinChunksKeeps
<1>3. ASSUME NEW t \in Tasks, StartChunk(t) PROVE FInv'
  BY <1>3, StartChunkKeeps
<1>4. ASSUME NEW t \in Tasks, BeginCall(t) PROVE FInv'
  BY <1>4, BeginCallKeeps
<1>5. ASSUME NEW t \in Tasks, Translated(t) PROVE FInv'
  BY <1>5, TranslatedKeeps
<1>6. ASSUME NEW t \in Tasks, RetryableError(t) PROVE FInv'
  <2>1. /\ GoesWrong(t) /\ Limiter!Leave(t)
        /\ \/ /\ attempt[t] < MaxAttempts
              /\ phase' = [phase EXCEPT ![t] = "backoff"] /\ UNCHANGED <<work, attempt>>
           \/ SplitOrFail(t, TRUE)
    BY <1>6 DEF RetryableError
  <2> QED BY <2>1, ErrorKeeps
<1>7. ASSUME NEW t \in Tasks, InvalidPayload(t) PROVE FInv'
  <2>1. GoesWrong(t) /\ Limiter!Leave(t) /\ SplitOrFail(t, TRUE)
    BY <1>7 DEF InvalidPayload
  <2> QED BY <2>1, ErrorKeeps
<1>8. ASSUME NEW t \in Tasks, FatalError(t) PROVE FInv'
  <2>1. GoesWrong(t) /\ Limiter!Leave(t) /\ SplitOrFail(t, FALSE)
    BY <1>8 DEF FatalError
  <2> QED BY <2>1, ErrorKeeps
<1>9. ASSUME NEW t \in Tasks, BackoffOver(t) PROVE FInv'
  BY <1>9, BackoffOverKeeps
<1>10. CASE JoinVariants
  BY <1>10, JoinVariantsKeeps
<1>11. CASE UNCHANGED vars
  BY <1>11 DEF vars, FInv, TypeOK, TaskInv, VariantInv, Bad, StageInv, Lists, Paid
<1> QED
  BY <1>1, <1>2, <1>3, <1>4, <1>5, <1>6, <1>7, <1>8, <1>9, <1>10, <1>11 DEF Next, Finished

LEMMA Invariant == Spec => []FInv
BY InitIsGood, StepKeepsFInv, PTL DEF Spec

\* Every variable keeps its type: the stacks of the recursion hold pieces of chunks, no
\* task spends more attempts on a piece than the policy allows, a task holds the tokens of
\* one call or none, and the staged candidates are variants.
THEOREM TypeCorrect == Spec => []TypeOK
<1>1. FInv => TypeOK
  BY DEF FInv
<1> QED BY <1>1, Invariant, PTL

\* Whatever was retried, split and gathered in whichever order, the candidate that
\* translate_segments returns is every segment of the transcript, once and in order.
THEOREM CandidateIsWhole == Spec => []CandidateIsWholeTranscript
<1>1. FInv => CandidateIsWholeTranscript
  BY DEF FInv, VariantInv, CandidateIsWholeTranscript, Positions
<1> QED BY <1>1, Invariant, PTL

\* A variant fails exactly when one of its chunks did and reports the first of them in the
\* order of the transcript; the stage fails exactly when every variant did, and otherwise
\* stages the others in their own order.
THEOREM VerdictsFollowChunks == Spec => []Verdicts
<1>1. ASSUME FInv PROVE Verdicts
  <2>1. ASSUME NEW v \in Variants
        PROVE  LET bad == {i \in 1..Len(Chunks) : phase[<<v, i>>] = "failed"} IN
                 /\ variant[v] = "ok" => bad = {}
                 /\ variant[v] = "failed" => bad # {} /\ culprit[v] = Min(bad)
    BY <1>1 DEF FInv, VariantInv, Bad
  <2>2. ASSUME stage # "running"
        PROVE  /\ ToSet(candidates) = {v \in Variants : variant[v] = "ok"}
               /\ \A j, k \in DOMAIN candidates : j < k => candidates[j] < candidates[k]
               /\ (stage = "translation_failed") = (\A v \in Variants : variant[v] = "failed")
    <3>1. /\ \A v \in Variants : variant[v] \in Settled
          /\ Lists(candidates, NumVariants)
          /\ stage = "translation_failed" => candidates = <<>>
          /\ stage = "translated" => candidates # <<>>
          /\ stage \in {"translated", "translation_failed"} /\ candidates \in Seq(Variants)
      BY <1>1, <2>2 DEF FInv, StageInv, TypeOK
    <3>2. /\ ToSet(candidates) = {v \in Variants : variant[v] = "ok"}
          /\ \A j, k \in DOMAIN candidates : j < k => candidates[j] < candidates[k]
      BY <3>1 DEF Lists, Variants
    <3>3. (candidates = <<>>) = (ToSet(candidates) = {})
      <4>1. candidates \in Seq(Variants)
        BY <3>1
      <4>2. (candidates = <<>>) <=> (DOMAIN candidates = {})
        BY <4>1
      <4>3. (DOMAIN candidates = {}) <=> (ToSet(candidates) = {})
        BY DEF ToSet
      <4> QED BY <4>2, <4>3
    <3>4. (ToSet(candidates) = {}) = (\A v \in Variants : variant[v] = "failed")
      BY <3>1, <3>2 DEF Settled
    <3> QED BY <3>1, <3>2, <3>3, <3>4
  <2> QED BY <2>1, <2>2 DEF Verdicts
<1> QED BY <1>1, Invariant, PTL

\* A chunk costs the provider at most the attempts for itself and for each of its halves.
THEOREM CallsWithinBudget == Spec => []CallBudget
<1>1. ASSUME FInv PROVE CallBudget
  <2>1. 2 ^ (SplitLevels + 1) - 1 = 3
    BY DEF SplitLevels
  <2>2. ASSUME NEW t \in Tasks PROVE calls[t] <= MaxAttempts * 3
    <3>1. calls[t] <= 3 * MaxAttempts /\ MaxAttempts \in Nat
      BY <1>1, FanOutAssumption DEF FInv, TaskInv, TaskOk
    <3>2. calls[t] \in Nat
      BY <1>1 DEF FInv, TypeOK
    <3> QED BY <3>1, <3>2
  <2> QED BY <2>1, <2>2 DEF CallBudget
<1> QED BY <1>1, Invariant, PTL

\* The tokens of the run are held during a provider call and at no other time: not in the
\* backoff, not between two pieces of a chunk, not after the chunk is settled.
THEOREM TokensOnlyInCalls ==
  Spec => [](\A t \in Tasks : (admitted[t] # 0) <=> (phase[t] = "calling"))
<1>1. ASSUME FInv, NEW t \in Tasks PROVE (admitted[t] # 0) <=> (phase[t] = "calling")
  BY <1>1, FanOutAssumption DEF FInv, TaskInv, TaskOk
<1>2. FInv => \A t \in Tasks : (admitted[t] # 0) <=> (phase[t] = "calling")
  BY <1>1
<1> QED BY <1>2, Invariant, PTL

\* The tasks use the limiter as it promises to be used: every step of the stage leaves the
\* admissions alone, lets one call in that the free tokens pay for, or lets one out.
THEOREM StageUsesLimiter == Spec => Limiter!Spec
<1>1. Init => Limiter!Init
  BY DEF Init
<1>2. [Next]_vars => [Limiter!Next]_admitted
  <2> SUFFICES ASSUME [Next]_vars PROVE [Limiter!Next]_admitted
    OBVIOUS
  <2>1. ASSUME NEW v \in Variants, OpenVariant(v) \/ JoinChunks(v) PROVE admitted' = admitted
    BY <2>1 DEF OpenVariant, JoinChunks
  <2>2. ASSUME NEW t \in Tasks, StartChunk(t) \/ BackoffOver(t) PROVE admitted' = admitted
    BY <2>2 DEF StartChunk, BackoffOver
  <2>3. ASSUME NEW t \in Tasks, BeginCall(t) PROVE Limiter!Next
    <3>1. Limiter!Enter(t, ProviderCost) /\ ProviderCost \in 1..TotalTokens
      BY <2>3, FanOutAssumption DEF BeginCall
    <3> QED BY <3>1 DEF Limiter!Next
  <2>4. ASSUME NEW t \in Tasks,
               \/ Translated(t)
               \/ RetryableError(t)
               \/ InvalidPayload(t)
               \/ FatalError(t)
        PROVE  Limiter!Next
    <3>1. Limiter!Leave(t)
      BY <2>4 DEF Translated, RetryableError, InvalidPayload, FatalError
    <3> QED BY <3>1 DEF Limiter!Next
  <2>5. CASE JoinVariants \/ UNCHANGED vars
    BY <2>5 DEF JoinVariants, vars
  <2> QED BY <2>1, <2>2, <2>3, <2>4, <2>5 DEF Next, Finished
<1> QED BY <1>1, <1>2, PTL DEF Spec, Limiter!Spec

=============================================================================
