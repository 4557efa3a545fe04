---------------------------- MODULE ChunkingProofs ----------------------------
(***************************************************************************)
(* What the other proofs rest on, and the proofs about the cut of a        *)
(* transcript into chunks.                                                 *)
(*                                                                         *)
(* The model's helpers are recursive functions, folds and choices.  The    *)
(* first sections derive what they compute from the least element of a set *)
(* of naturals: induction on an interval and on the subsets of a finite    *)
(* set, stated for a set, the existence of a function defined by recursion *)
(* on them, sums, concatenations and enumerations.                         *)
(***************************************************************************)
EXTENDS TranslationChunking, Enumerations, FiniteSetTheorems, SequenceTheorems, WellFoundedInduction, TLAPS

-----------------------------------------------------------------------------
(* Induction and recursion on an interval of naturals.                     *)

\* A nonempty set of naturals has a least element.
LEMMA LeastNatural ==
  ASSUME NEW T \in SUBSET Nat, T # {}
  PROVE  \E x \in T : \A y \in T : x <= y
<1> DEFINE Less == {p \in Nat \X Nat : p[1] < p[2]}
<1>1. IsWellFoundedOn(Less, Nat)
  BY NatLessThanWellFounded DEF OpToRel
<1> HIDE DEF Less
<1>2. PICK x \in T : \A y \in T : <<y, x>> \notin Less
  BY <1>1, WFMin
<1>3. ASSUME NEW y \in T, y < x PROVE FALSE
  <2>1. <<y, x>> \in Nat \X Nat
    OBVIOUS
  <2>2. <<y, x>>[1] = y /\ <<y, x>>[2] = x
    OBVIOUS
  <2>3. <<y, x>> \in Less
    BY <1>3, <2>1, <2>2 DEF Less
  <2> QED BY <1>2, <2>3
<1> QED BY <1>3

\* A set with the first number of an interval, and with the next number of every one it
\* has, has the whole interval.
LEMMA IntervalInduction ==
  ASSUME NEW m \in Nat, NEW n \in Nat, NEW S, m \in S,
         \A i \in m..(n - 1) : i \in S => i + 1 \in S
  PROVE  \A i \in m..n : i \in S
<1> SUFFICES ASSUME {i \in m..n : i \notin S} # {} PROVE FALSE
  OBVIOUS
<1>1. {i \in m..n : i \notin S} \in SUBSET Nat
  OBVIOUS
<1>2. PICK x \in {i \in m..n : i \notin S} : \A y \in {i \in m..n : i \notin S} : x <= y
  BY <1>1, LeastNatural
<1>3. x # m /\ x - 1 \in m..(n - 1)
  BY <1>2
<1>4. x - 1 \notin S
  BY <1>2, <1>3
<1>5. x - 1 \in m..n
  BY <1>3
<1>6. x <= x - 1
  BY <1>2, <1>4, <1>5
<1> QED BY <1>2, <1>6

\* f[0] is the first value, and f[i] what the step makes of i and f[i - 1].
Unrolls(f, n, base, step) == f[0] = base /\ \A i \in 1..n : f[i] = step[<<i, f[i - 1]>>]

\* A first value and a step, both within V, define a function on an interval.
LEMMA IntervalRecursion ==
  ASSUME NEW n \in Nat, NEW V, NEW base \in V,
         NEW step \in [(1..n) \X V -> V]
  PROVE  \E f \in [0..n -> V] : Unrolls(f, n, base, step)
<1> DEFINE Solves(f, k) ==
             f[0] = base /\ \A i \in 1..k : f[i] = step[<<i, f[i - 1]>>]
           Solved == {k \in 0..n : \E f \in [0..k -> V] : Solves(f, k)}
<1>1. 0 \in Solved
  <2> DEFINE f == [i \in 0..0 |-> base]
  <2>1. f \in [0..0 -> V] /\ Solves(f, 0) /\ 0 \in 0..n
    OBVIOUS
  <2> HIDE DEF f, Solves
  <2> QED BY <2>1
<1>2. ASSUME NEW k \in 0..(n - 1), k \in Solved PROVE k + 1 \in Solved
  <2>1. PICK f \in [0..k -> V] : Solves(f, k)
    BY <1>2
  <2> DEFINE g == [i \in 0..(k + 1) |-> IF i = k + 1 THEN step[<<k + 1, f[k]>>] ELSE f[i]]
  <2>2. k + 1 \in 1..n /\ f[k] \in V
    OBVIOUS
  <2>3. step[<<k + 1, f[k]>>] \in V
    BY <2>2
  <2>4. g \in [0..(k + 1) -> V]
    BY <2>3
  <2>5. g[0] = base
    BY <2>1
  <2>6. ASSUME NEW i \in 1..(k + 1) PROVE g[i] = step[<<i, g[i - 1]>>]
    <3>1. CASE i = k + 1
      <4>1. i - 1 = k /\ i - 1 \in 0..(k + 1) /\ i \in 0..(k + 1)
        BY <3>1
      <4>2. g[i - 1] = f[k] /\ g[i] = step[<<k + 1, f[k]>>]
        BY <3>1, <4>1
      <4> QED BY <3>1, <4>2
    <3>2. CASE i # k + 1
      <4>1. i \in 1..k /\ i - 1 \in 0..k
        BY <3>2
      <4>2. g[i] = f[i] /\ g[i - 1] = f[i - 1]
        BY <4>1
      <4> QED BY <2>1, <4>1, <4>2
    <3> QED BY <3>1, <3>2
  <2>7. Solves(g, k + 1)
    BY <2>5, <2>6
  <2> HIDE DEF g, Solves
  <2>8. k + 1 \in 0..n
    OBVIOUS
  <2> QED BY <2>4, <2>7, <2>8
<1> HIDE DEF Solved
<1>3. \A k \in 0..n : k \in Solved
  BY <1>1, <1>2, IntervalInduction
<1>4. n \in 0..n
  OBVIOUS
<1>5. \E f \in [0..n -> V] : Solves(f, n)
  BY <1>3, <1>4 DEF Solved
<1> QED BY <1>5 DEF Unrolls

-----------------------------------------------------------------------------
(* The concatenation of a sequence of sequences.                           *)

\* f[i] is the concatenation of the first i sequences of s.
Joined(f, n, s) == f[1] = s[1] /\ \A i \in 2..n : f[i] = f[i - 1] \o s[i]

\* FlattenSeq appends one sequence after the other.
LEMMA Flattening ==
  ASSUME NEW n \in Nat, n > 0, NEW T, NEW s \in [1..n -> Seq(T)]
  PROVE  \E f \in [1..n -> Seq(T)] : Joined(f, n, s) /\ FlattenSeq(s) = f[n]
<1> DEFINE Joins(f) == [i \in 1..n |-> IF i = 1 THEN s[i] ELSE f[i - 1] \o s[i]]
           joined == CHOOSE f : f = Joins(f)
           V == Seq(T)
           step == [p \in (1..n) \X V |-> p[2] \o s[p[1]]]
<1>1. s \in Seq(Seq(T)) /\ Len(s) = n
  OBVIOUS
<1>2. FlattenSeq(s) = joined[n]
  BY <1>1 DEF FlattenSeq
<1>3. step \in [(1..n) \X V -> V]
  <2>1. ASSUME NEW p \in (1..n) \X V PROVE p[2] \o s[p[1]] \in V
    <3>1. p[2] \in Seq(T) /\ p[1] \in 1..n
      OBVIOUS
    <3>2. s[p[1]] \in Seq(T)
      BY <3>1
    <3> QED BY <3>1, <3>2
  <2> QED BY <2>1
<1>4. s[1] \in Seq(T) /\ <<>> \in V /\ 1 \in 1..n
  OBVIOUS
<1>5. \A i \in 1..n, x \in V : step[<<i, x>>] = x \o s[i]
  OBVIOUS
<1>6. PICK f \in [0..n -> V] : Unrolls(f, n, <<>>, step)
  <2> HIDE DEF step, V
  <2> QED BY <1>3, <1>4, IntervalRecursion
<1> HIDE DEF step
<1>7. [i \in 1..n |-> f[i]] = Joins([i \in 1..n |-> f[i]])
  <2>1. ASSUME NEW i \in 1..n PROVE f[i] = IF i = 1 THEN s[i] ELSE f[i - 1] \o s[i]
    <3>1. i - 1 \in 0..n /\ f[i - 1] \in Seq(T)
      OBVIOUS
    <3>2. f[i] = f[i - 1] \o s[i]
      BY <1>5, <1>6, <3>1 DEF Unrolls
    <3>3. CASE i = 1
      <4>1. i - 1 = 0 /\ f[i - 1] = <<>>
        BY <1>6, <3>3 DEF Unrolls
      <4>2. <<>> \o s[1] = s[1]
        BY <1>4
      <4> QED BY <3>2, <3>3, <4>1, <4>2
    <3> QED BY <3>2, <3>3
  <2> QED BY <2>1
<1>8. joined = Joins(joined)
  <2> HIDE DEF Joins
  <2> QED BY <1>7
<1> HIDE DEF joined
<1>9. /\ joined = [i \in 1..n |-> joined[i]]
      /\ joined[1] = s[1]
      /\ \A i \in 2..n : joined[i] = joined[i - 1] \o s[i]
  <2>1. \A i \in 1..n : joined[i] = IF i = 1 THEN s[i] ELSE joined[i - 1] \o s[i]
    BY <1>8
  <2>2. joined = [i \in 1..n |-> joined[i]]
    BY <1>8
  <2>3. joined[1] = s[1]
    BY <1>4, <2>1
  <2>4. ASSUME NEW i \in 2..n PROVE joined[i] = joined[i - 1] \o s[i]
    <3>1. i \in 1..n /\ i # 1
      OBVIOUS
    <3> QED BY <2>1, <3>1
  <2> QED BY <2>2, <2>3, <2>4
<1> HIDE DEF Joins
<1>10. \A i \in 1..n : joined[i] \in Seq(T)
  <2> DEFINE Typed == {i \in 1..n : joined[i] \in Seq(T)}
  <2>1. 1 \in Typed
    BY <1>4, <1>9
  <2>2. ASSUME NEW i \in 1..(n - 1), i \in Typed PROVE i + 1 \in Typed
    <3>1. i + 1 \in 2..n /\ i + 1 - 1 = i /\ i + 1 \in 1..n
      OBVIOUS
    <3> DEFINE k == i + 1
    <3>2. k \in 2..n /\ k - 1 = i
      BY <3>1
    <3> HIDE DEF k
    <3>5. joined[k] = joined[i] \o s[k]
      BY <1>9, <3>2
    <3>3. joined[i] \in Seq(T) /\ s[i + 1] \in Seq(T)
      BY <2>2, <3>1
    <3>4. joined[i] \o s[i + 1] \in Seq(T)
      BY <3>3
    <3> QED BY <3>1, <3>4, <3>5 DEF k
  <2> HIDE DEF Typed
  <2>3. \A i \in 1..n : i \in Typed
    BY <1>4, <2>1, <2>2, IntervalInduction
  <2> QED BY <2>3 DEF Typed
<1>11. joined \in [1..n -> Seq(T)]
  BY <1>9, <1>10
<1> QED BY <1>2, <1>9, <1>11 DEF Joined

\* Sequences one after the other, none of them lost.
LEMMA FlatteningKeepsAll ==
  ASSUME NEW n \in Nat, NEW T, NEW s \in [1..n -> Seq(T)]
  PROVE  /\ FlattenSeq(s) \in Seq(T)
         /\ n = 0 => FlattenSeq(s) = <<>>
         /\ (\E i \in 1..n : s[i] # <<>>) => FlattenSeq(s) # <<>>
<1>1. CASE n = 0
  <2>1. 1..n = {} /\ s = <<>> /\ Len(s) = 0
    BY <1>1
  <2>2. FlattenSeq(s) = s
    BY <2>1 DEF FlattenSeq
  <2>3. <<>> \in Seq(T)
    OBVIOUS
  <2> QED BY <1>1, <2>1, <2>2, <2>3
<1>2. CASE n # 0
  <2>1. n > 0 /\ 1 \in 1..n
    BY <1>2
  <2>2. PICK f \in [1..n -> Seq(T)] : Joined(f, n, s) /\ FlattenSeq(s) = f[n]
    BY <2>1, Flattening
  <2>3. FlattenSeq(s) \in Seq(T)
    BY <2>1, <2>2
  <2>4. ASSUME NEW i \in 1..n, s[i] # <<>> PROVE f[n] # <<>>
    <3> DEFINE H == {k \in 1..n : f[k] # <<>>}
    <3>1. f[i] # <<>>
      <4>1. CASE i = 1
        BY <2>2, <2>4, <4>1 DEF Joined
      <4>2. CASE i # 1
        <5>1. i \in 2..n /\ i - 1 \in 1..n
          BY <4>2
        <5>2. f[i] = f[i - 1] \o s[i] /\ f[i - 1] \in Seq(T) /\ s[i] \in Seq(T)
          BY <2>2, <5>1 DEF Joined
        <5>3. \A a, b \in Seq(T) : b # <<>> => a \o b # <<>>
          OBVIOUS
        <5> QED BY <2>4, <5>2, <5>3
      <4> QED BY <4>1, <4>2
    <3>5. i \in H
      BY <3>1
    <3>2. ASSUME NEW k \in i..(n - 1), k \in H PROVE k + 1 \in H
      <4>1. k + 1 \in 2..n /\ k + 1 \in 1..n /\ k \in 1..n
        BY <3>2
      <4> DEFINE m == k + 1
      <4>2. m \in 2..n /\ m \in 1..n /\ m - 1 = k
        BY <4>1
      <4> HIDE DEF m
      <4>3. f[m] = f[k] \o s[m] /\ f[k] \in Seq(T) /\ s[m] \in Seq(T) /\ f[k] # <<>>
        BY <2>2, <3>2, <4>1, <4>2 DEF Joined
      <4>4. f[m] # <<>>
        BY <4>3
      <4> QED BY <4>2, <4>4 DEF m
    <3> HIDE DEF H
    <3>3. i \in Nat /\ n \in Nat /\ n \in i..n
      BY <2>1
    <3>4. \A k \in i..n : k \in H
      BY <3>2, <3>3, <3>5, IntervalInduction
    <3> QED BY <3>3, <3>4 DEF H
  <2> QED BY <1>2, <2>2, <2>3, <2>4
<1> QED BY <1>1, <1>2

-----------------------------------------------------------------------------
(* Sizes and least elements.                                              *)

LEMMA IntervalSize ==
  ASSUME NEW n \in Nat
  PROVE  IsFiniteSet(1..n) /\ Cardinality(1..n) = n
<1>1. 1 \in Int /\ n \in Int
  OBVIOUS
<1>2. IsFiniteSet(1..n) /\ Cardinality(1..n) = IF 1 > n THEN 0 ELSE n - 1 + 1
  BY <1>1, FS_Interval
<1> QED BY <1>2

LEMMA LeastIsMin ==
  ASSUME NEW T \in SUBSET Nat, T # {}
  PROVE  Min(T) \in T
<1>1. \E x \in T : \A y \in T : x <= y
  BY LeastNatural
<1> QED BY <1>1 DEF Min

-----------------------------------------------------------------------------
(* Induction and recursion on the subsets of a finite set.                 *)

\* Without an element, a nonempty finite set is smaller by one.
LEMMA OneLess ==
  ASSUME NEW S, IsFiniteSet(S), NEW T \in SUBSET S, NEW x \in T
  PROVE  /\ T \ {x} \in SUBSET S
         /\ Cardinality(T) \in Nat /\ Cardinality(T \ {x}) \in Nat
         /\ Cardinality(T \ {x}) = Cardinality(T) - 1
         /\ Cardinality(T) \in 1..Cardinality(S) /\ Cardinality(S) \in Nat
<1>1. IsFiniteSet(T) /\ Cardinality(T) <= Cardinality(S)
  BY FS_Subset
<1>2. IsFiniteSet(T \ {x}) /\ Cardinality(T \ {x}) = Cardinality(T) - 1
  BY <1>1, FS_RemoveElement
<1>3. Cardinality(T) \in Nat /\ Cardinality(T \ {x}) \in Nat /\ Cardinality(S) \in Nat
  BY <1>1, <1>2, FS_CardinalityType
<1> QED BY <1>1, <1>2, <1>3

\* A set of sets with the empty set, and with every subset of S all of whose subsets with
\* one element less it has, has every subset of S.
LEMMA SubsetInduction ==
  ASSUME NEW S, IsFiniteSet(S), NEW H, {} \in H,
         \A T \in SUBSET S : (T # {} /\ \A x \in T : T \ {x} \in H) => T \in H
  PROVE  \A T \in SUBSET S : T \in H
<1> DEFINE Missing == {T \in SUBSET S : T \notin H}
           Sizes == {Cardinality(T) : T \in Missing}
<1> SUFFICES ASSUME Missing # {} PROVE FALSE
  OBVIOUS
<1>1. ASSUME NEW T \in Missing PROVE Cardinality(T) \in Nat
  BY FS_Subset, FS_CardinalityType
<1>2. Sizes \in SUBSET Nat /\ Sizes # {}
  BY <1>1
<1>3. PICK k \in Sizes : \A m \in Sizes : k <= m
  <2> HIDE DEF Sizes
  <2> QED BY <1>2, LeastNatural
<1>4. PICK T \in Missing : k = Cardinality(T)
  BY <1>3
<1>5. T # {}
  BY <1>4
<1>6. ASSUME NEW x \in T PROVE T \ {x} \in H
  <2>1. /\ T \ {x} \in SUBSET S /\ Cardinality(T) \in Nat /\ Cardinality(T \ {x}) \in Nat
        /\ Cardinality(T \ {x}) = Cardinality(T) - 1
    BY OneLess
  <2>2. SUFFICES ASSUME T \ {x} \in Missing PROVE FALSE
    BY <2>1
  <2>3. Cardinality(T \ {x}) \in Sizes
    BY <2>2
  <2>4. k <= Cardinality(T \ {x})
    BY <1>3, <2>3
  <2> QED BY <1>4, <2>1, <2>4
<1> QED BY <1>4, <1>5, <1>6

\* A choice of an element of every set.
Chooses(ch, S) == \A T \in SUBSET S : T # {} => ch[T] \in T

\* f is what a fold over the elements of S makes of its subsets, taking the chosen one last.
FoldsOver(f, S, ch, base, step) ==
  /\ f[{}] = base
  /\ \A T \in SUBSET S : T # {} => f[T] = step[<<ch[T], f[T \ {ch[T]}]>>]

\* A first value and a step, both within V, define a function on the subsets of a finite set.
LEMMA SubsetRecursion ==
  ASSUME NEW S, IsFiniteSet(S), NEW V, NEW base \in V, NEW ch, Chooses(ch, S),
         NEW step \in [S \X V -> V]
  PROVE  \E f \in [SUBSET S -> V] : FoldsOver(f, S, ch, base, step)
<1> DEFINE n == Cardinality(S)
           W == [SUBSET S -> V]
           Next(g) == [T \in SUBSET S |-> IF T = {} THEN base ELSE step[<<ch[T], g[T \ {ch[T]}]>>]]
           zero == [T \in SUBSET S |-> base]
           by == [p \in (1..n) \X W |-> Next(p[2])]
<1>1. n \in Nat
  BY FS_CardinalityType
<1>2. ASSUME NEW g \in W PROVE Next(g) \in W
  <2>1. ASSUME NEW T \in SUBSET S, T # {} PROVE step[<<ch[T], g[T \ {ch[T]}]>>] \in V
    <3>1. ch[T] \in S /\ T \ {ch[T]} \in SUBSET S
      BY <2>1 DEF Chooses
    <3>2. g[T \ {ch[T]}] \in V
      BY <3>1
    <3> QED BY <3>1, <3>2
  <2> QED BY <2>1
<1>3. zero \in W
  OBVIOUS
<1>4. by \in [(1..n) \X W -> W] /\ \A i \in 1..n, g \in W : by[<<i, g>>] = Next(g)
  <2> HIDE DEF Next, W
  <2> QED BY <1>2
<1> HIDE DEF n, W, Next, zero, by
<1>5. PICK tower \in [0..n -> W] : Unrolls(tower, n, zero, by)
  BY <1>1, <1>3, <1>4, IntervalRecursion
<1> DEFINE f == [T \in SUBSET S |-> tower[Cardinality(T)][T]]
<1>6. ASSUME NEW T \in SUBSET S PROVE Cardinality(T) \in 0..n /\ f[T] = tower[Cardinality(T)][T] /\ f[T] \in V
  <2>1. Cardinality(T) \in Nat /\ Cardinality(T) <= n
    BY FS_Subset, FS_CardinalityType DEF n
  <2>2. Cardinality(T) \in 0..n
    BY <1>1, <2>1
  <2> QED BY <2>2, <1>5 DEF W
<1>7. f[{}] = base
  <2>1. {} \in SUBSET S /\ Cardinality({}) = 0
    BY FS_EmptySet
  <2>2. tower[0] = zero /\ zero[{}] = base
    BY <1>5 DEF Unrolls, zero
  <2> QED BY <2>1, <2>2, <1>6
<1>8. ASSUME NEW T \in SUBSET S, T # {} PROVE f[T] = step[<<ch[T], f[T \ {ch[T]}]>>]
  <2> DEFINE rest == T \ {ch[T]}
             k == Cardinality(T)
  <2>1. ch[T] \in T
    BY <1>8 DEF Chooses
  <2>2. rest \in SUBSET S /\ Cardinality(rest) = k - 1 /\ k \in 1..n
    BY <2>1, OneLess DEF n
  <2>3. k - 1 \in 0..n /\ tower[k - 1] \in W
    BY <1>1, <1>5, <2>2
  <2>4. tower[k] = Next(tower[k - 1])
    <3>1. tower[k] = by[<<k, tower[k - 1]>>]
      BY <1>5, <2>2 DEF Unrolls
    <3> QED BY <3>1, <2>2, <2>3, <1>4
  <2>5. tower[k][T] = step[<<ch[T], tower[k - 1][rest]>>]
    BY <1>8, <2>4 DEF Next
  <2>6. f[T] = tower[k][T] /\ f[rest] = tower[k - 1][rest]
    BY <1>6, <2>2
  <2> HIDE DEF f, k
  <2> QED BY <2>5, <2>6
<1>9. f \in [SUBSET S -> V]
  BY <1>6
<1> HIDE DEF f
<1> QED BY <1>7, <1>8, <1>9 DEF FoldsOver

\* Such a function is within V, however it was found.
LEMMA FoldIsTyped ==
  ASSUME NEW S, IsFiniteSet(S), NEW V, NEW base \in V, NEW ch, Chooses(ch, S),
         NEW step, \A x \in S, v \in V : step[<<x, v>>] \in V,
         NEW f, FoldsOver(f, S, ch, base, step)
  PROVE  \A T \in SUBSET S : f[T] \in V
<1> DEFINE H == {T \in SUBSET S : f[T] \in V}
<1>1. {} \in H
  BY DEF FoldsOver
<1>2. ASSUME NEW T \in SUBSET S, T # {}, \A x \in T : T \ {x} \in H PROVE T \in H
  <2>1. ch[T] \in T /\ ch[T] \in S
    BY <1>2 DEF Chooses
  <2>2. T \ {ch[T]} \in H
    BY <1>2, <2>1
  <2>3. f[T \ {ch[T]}] \in V
    BY <2>2
  <2>4. f[T] = step[<<ch[T], f[T \ {ch[T]}]>>]
    BY <1>2 DEF FoldsOver
  <2>5. step[<<ch[T], f[T \ {ch[T]}]>>] \in V
    BY <2>1, <2>3
  <2> QED BY <2>4, <2>5
<1> HIDE DEF H
<1>3. \A T \in SUBSET S : T \in H
  BY <1>1, <1>2, SubsetInduction
<1> QED BY <1>3 DEF H

-----------------------------------------------------------------------------
(* Sums.                                                                   *)

\* total[T] is the sum of f over T, in whatever order it is taken.
Sums(total, f, S) ==
  /\ total \in [SUBSET S -> Int]
  /\ total[{}] = 0
  /\ \A T \in SUBSET S : \A x \in T : total[T] = f[x] + total[T \ {x}]

\* What SumFunction computes, element by element.
LEMMA SumUnrolls ==
  ASSUME NEW S, IsFiniteSet(S), NEW f \in [S -> Int]
  PROVE  \E total : Sums(total, f, S) /\ SumFunction(f) = total[S]
<1> DEFINE Body(g) == [T \in SUBSET S |-> IF T = {} THEN 0
                         ELSE LET x == CHOOSE x \in T : TRUE IN f[x] + g[T \ {x}]]
           total == CHOOSE g : g = Body(g)
           ch == [T \in SUBSET S |-> CHOOSE x \in T : TRUE]
           step == [p \in S \X Int |-> f[p[1]] + p[2]]
<1>1. SumFunction(f) = total[S]
  BY DEF SumFunction, SumFunctionOnSet, FoldFunctionOnSet, MapThenFoldSet
<1>2. Chooses(ch, S) /\ \A T \in SUBSET S : ch[T] = CHOOSE x \in T : TRUE
  BY DEF Chooses
<1>3. step \in [S \X Int -> Int] /\ \A x \in S, v \in Int : step[<<x, v>>] = f[x] + v
  OBVIOUS
<1> HIDE DEF ch, step
<1>4. PICK g \in [SUBSET S -> Int] : FoldsOver(g, S, ch, 0, step)
  <2> DEFINE V == Int
             zero == 0
  <2>1. zero \in V /\ step \in [S \X V -> V]
    BY <1>3
  <2> HIDE DEF V, zero
  <2>2. \E g \in [SUBSET S -> V] : FoldsOver(g, S, ch, zero, step)
    <3>1. Chooses(ch, S) /\ IsFiniteSet(S)
      BY <1>2
    <3> HIDE DEF Body, total
    <3> QED BY ONLY <2>1, <3>1, SubsetRecursion
  <2> QED BY <2>2 DEF V, zero
<1>5. g = Body(g)
  <2>1. ASSUME NEW T \in SUBSET S, T # {} PROVE g[T] = LET x == CHOOSE x \in T : TRUE IN f[x] + g[T \ {x}]
    <3>1. ch[T] \in S /\ T \ {ch[T]} \in SUBSET S
      BY <2>1, <1>2 DEF Chooses
    <3>2. g[T] = f[ch[T]] + g[T \ {ch[T]}]
      BY <1>3, <1>4, <2>1, <3>1 DEF FoldsOver
    <3> QED BY <1>2, <3>2
  <2>2. g[{}] = 0
    BY <1>4 DEF FoldsOver
  <2> QED BY <2>1, <2>2
<1>6. total = Body(total)
  <2> HIDE DEF Body
  <2> QED BY <1>5
<1> HIDE DEF total
<1>7. total[{}] = 0 /\ \A T \in SUBSET S : T # {} => total[T] = f[ch[T]] + total[T \ {ch[T]}]
  <2>1. total[{}] = 0
    BY <1>6
  <2>2. ASSUME NEW T \in SUBSET S, T # {} PROVE total[T] = f[ch[T]] + total[T \ {ch[T]}]
    BY <1>2, <1>6, <2>2
  <2> QED BY <2>1, <2>2
<1>8. total = [T \in SUBSET S |-> total[T]]
  BY <1>6
<1> HIDE DEF Body
<1>9. \A T \in SUBSET S : total[T] \in Int
  <2> DEFINE H == {T \in SUBSET S : total[T] \in Int}
  <2>1. {} \in H
    BY <1>7
  <2>2. ASSUME NEW T \in SUBSET S, T # {}, \A x \in T : T \ {x} \in H PROVE T \in H
    <3>1. ch[T] \in T /\ f[ch[T]] \in Int
      BY <2>2, <1>2 DEF Chooses
    <3>2. total[T \ {ch[T]}] \in Int
      BY <2>2, <3>1
    <3>3. total[T] = f[ch[T]] + total[T \ {ch[T]}]
      BY <1>7, <2>2
    <3> QED BY <3>1, <3>2, <3>3
  <2> HIDE DEF H
  <2>3. \A T \in SUBSET S : T \in H
    BY <2>1, <2>2, SubsetInduction
  <2> QED BY <2>3 DEF H
<1>10. \A T \in SUBSET S : \A x \in T : total[T] = f[x] + total[T \ {x}]
  <2> DEFINE H == {T \in SUBSET S : \A x \in T : total[T] = f[x] + total[T \ {x}]}
  <2>1. {} \in H
    OBVIOUS
  <2>2. ASSUME NEW T \in SUBSET S, T # {}, \A x \in T : T \ {x} \in H PROVE T \in H
    <3> SUFFICES ASSUME NEW x \in T PROVE total[T] = f[x] + total[T \ {x}]
      OBVIOUS
    <3> DEFINE y == ch[T]
    <3>1. y \in T /\ y \in S /\ x \in S
      BY <2>2, <1>2 DEF Chooses
    <3>2. total[T] = f[y] + total[T \ {y}]
      BY <1>7, <2>2
    <3>3. CASE x = y
      BY <3>2, <3>3
    <3>4. CASE x # y
      <4>1. total[T \ {y}] = f[x] + total[(T \ {y}) \ {x}]
        <5>1. T \ {y} \in H /\ x \in T \ {y}
          BY <2>2, <3>1, <3>4
        <5> HIDE DEF y
        <5> QED BY <5>1
      <4>2. total[T \ {x}] = f[y] + total[(T \ {x}) \ {y}]
        <5>1. T \ {x} \in H /\ y \in T \ {x}
          BY <2>2, <3>1, <3>4
        <5> HIDE DEF y
        <5> QED BY <5>1
      <4>3. (T \ {y}) \ {x} = (T \ {x}) \ {y}
        OBVIOUS
      <4>4. total[(T \ {x}) \ {y}] \in Int /\ f[x] \in Int /\ f[y] \in Int
        <5>1. (T \ {x}) \ {y} \in SUBSET S
          OBVIOUS
        <5> QED BY <5>1, <1>9, <3>1
      <4>5. \A a, b, c \in Int : a + (b + c) = b + (a + c)
        OBVIOUS
      <4> HIDE DEF y, H
      <4>6. total[T] = f[y] + (f[x] + total[(T \ {x}) \ {y}])
        BY <3>2, <4>1, <4>3
      <4> QED BY <4>2, <4>4, <4>5, <4>6
    <3> QED BY <3>3, <3>4
  <2> HIDE DEF H
  <2>3. \A T \in SUBSET S : T \in H
    BY <2>1, <2>2, SubsetInduction
  <2> QED BY <2>3 DEF H
<1>11. total \in [SUBSET S -> Int]
  BY <1>8, <1>9
<1> QED BY <1>1, <1>7, <1>10, <1>11 DEF Sums

LEMMA SumIsInteger ==
  ASSUME NEW S, IsFiniteSet(S), NEW f \in [S -> Int]
  PROVE  SumFunction(f) \in Int
<1>1. PICK total : Sums(total, f, S) /\ SumFunction(f) = total[S]
  BY SumUnrolls
<1> QED BY <1>1 DEF Sums

LEMMA OneMoreTime ==
  ASSUME NEW a \in Int, NEW n \in Int
  PROVE  a * (n + 1) = a * n + a /\ a * n \in Int
OBVIOUS

\* A sum whose terms are at most a in one part, and at most b in the rest.
LEMMA SumAtMost ==
  ASSUME NEW S, IsFiniteSet(S), NEW f \in [S -> Int], NEW P \in SUBSET S, NEW a \in Int, NEW b \in Int,
         \A x \in P : f[x] <= a, \A x \in S \ P : f[x] <= b
  PROVE  SumFunction(f) <= a * Cardinality(P) + b * Cardinality(S \ P)
<1>1. PICK total : Sums(total, f, S) /\ SumFunction(f) = total[S]
  BY SumUnrolls
<1> DEFINE Bound(T) == a * Cardinality(T \cap P) + b * Cardinality(T \ P)
           H == {T \in SUBSET S : total[T] <= Bound(T)}
<1>2. {} \in H
  <2>1. {} \cap P = {} /\ {} \ P = {} /\ Cardinality({}) = 0
    BY FS_EmptySet
  <2>2. Bound({}) = 0
    BY <2>1
  <2> QED BY <1>1, <2>2 DEF Sums
<1>3. ASSUME NEW T \in SUBSET S, T # {}, \A x \in T : T \ {x} \in H PROVE T \in H
  <2>1. PICK x \in T : TRUE
    BY <1>3
  <2> DEFINE U == T \ {x}
  <2>2. total[T] = f[x] + total[U] /\ total[U] \in Int /\ f[x] \in Int
    <3>1. U \in SUBSET S /\ x \in S
      OBVIOUS
    <3> QED BY <1>1, <3>1 DEF Sums
  <2>3. total[U] <= Bound(U)
    BY <1>3
  <2> DEFINE p == Cardinality(U \cap P)
             q == Cardinality(U \ P)
  <2>4. IsFiniteSet(U \cap P) /\ IsFiniteSet(U \ P) /\ p \in Nat /\ q \in Nat
    BY FS_Subset, FS_CardinalityType
  <2>5. CASE x \in P
    <3>1. T \cap P = (U \cap P) \cup {x} /\ x \notin U \cap P /\ T \ P = U \ P
      BY <2>5
    <3>2. Cardinality(T \cap P) = p + 1
      BY <3>1, <2>4, FS_AddElement
    <3>3. f[x] <= a
      BY <2>5
    <3>4. a * (p + 1) = a * p + a
      BY <2>4, OneMoreTime
    <3>5. a * p \in Int /\ b * q \in Int
      BY <2>4, OneMoreTime
    <3>6. Bound(T) = a * p + a + b * q /\ Bound(U) = a * p + b * q
      BY <3>1, <3>2, <3>4
    <3> HIDE DEF Bound, p, q, U
    <3> QED BY <2>2, <2>3, <3>3, <3>5, <3>6
  <2>6. CASE x \notin P
    <3>1. T \ P = (U \ P) \cup {x} /\ x \notin U \ P /\ T \cap P = U \cap P
      BY <2>6
    <3>2. Cardinality(T \ P) = q + 1
      BY <3>1, <2>4, FS_AddElement
    <3>3. f[x] <= b
      BY <2>6
    <3>4. b * (q + 1) = b * q + b
      BY <2>4, OneMoreTime
    <3>5. a * p \in Int /\ b * q \in Int
      BY <2>4, OneMoreTime
    <3>6. Bound(T) = a * p + (b * q + b) /\ Bound(U) = a * p + b * q
      BY <3>1, <3>2, <3>4
    <3> HIDE DEF Bound, p, q, U
    <3> QED BY <2>2, <2>3, <3>3, <3>5, <3>6
  <2> QED BY <2>5, <2>6
<1> HIDE DEF H
<1>4. \A T \in SUBSET S : T \in H
  BY <1>2, <1>3, SubsetInduction
<1>5. total[S] <= Bound(S)
  BY <1>4 DEF H
<1>6. S \cap P = P
  OBVIOUS
<1> QED BY <1>1, <1>5, <1>6

\* A sum whose terms are all a or more.
LEMMA SumAtLeast ==
  ASSUME NEW S, IsFiniteSet(S), NEW f \in [S -> Int], NEW a \in Int, \A x \in S : f[x] >= a
  PROVE  SumFunction(f) >= a * Cardinality(S)
<1>1. PICK total : Sums(total, f, S) /\ SumFunction(f) = total[S]
  BY SumUnrolls
<1> DEFINE H == {T \in SUBSET S : total[T] >= a * Cardinality(T)}
<1>2. {} \in H
  <2>1. Cardinality({}) = 0 /\ a * 0 = 0
    BY FS_EmptySet
  <2> QED BY <1>1, <2>1 DEF Sums
<1>3. ASSUME NEW T \in SUBSET S, T # {}, \A x \in T : T \ {x} \in H PROVE T \in H
  <2>1. PICK x \in T : TRUE
    BY <1>3
  <2> DEFINE U == T \ {x}
             n == Cardinality(U)
  <2>2. total[T] = f[x] + total[U] /\ total[U] \in Int /\ f[x] \in Int
    <3>1. U \in SUBSET S /\ x \in S
      OBVIOUS
    <3> QED BY <1>1, <3>1 DEF Sums
  <2>3. total[U] >= a * n /\ f[x] >= a
    BY <1>3
  <2>4. n \in Nat /\ Cardinality(T) = n + 1
    BY OneLess
  <2>5. a * (n + 1) = a * n + a /\ a * n \in Int
    <3> HIDE DEF n
    <3> QED BY <2>4, OneMoreTime
  <2>6. total[T] >= a * (n + 1)
    <3> HIDE DEF U, n
    <3> QED BY <2>2, <2>3, <2>5
  <2> QED BY <2>4, <2>6
<1> HIDE DEF H
<1>4. \A T \in SUBSET S : T \in H
  BY <1>2, <1>3, SubsetInduction
<1> QED BY <1>1, <1>4 DEF H

LEMMA SumIsNatural ==
  ASSUME NEW S, IsFiniteSet(S), NEW f \in [S -> Nat]
  PROVE  SumFunction(f) \in Nat
<1>1. f \in [S -> Int] /\ \A x \in S : f[x] >= 0
  OBVIOUS
<1>2. SumFunction(f) \in Int /\ SumFunction(f) >= 0 * Cardinality(S)
  BY <1>1, SumIsInteger, SumAtLeast
<1>3. Cardinality(S) \in Nat
  BY FS_CardinalityType
<1> QED BY <1>2, <1>3

LEMMA SumOfNone ==
  ASSUME NEW f \in [{} -> Int]
  PROVE  SumFunction(f) = 0
<1>1. IsFiniteSet({})
  BY FS_EmptySet
<1>2. PICK total : Sums(total, f, {}) /\ SumFunction(f) = total[{}]
  BY <1>1, SumUnrolls
<1> QED BY <1>2 DEF Sums

LEMMA SumOfTwo ==
  ASSUME NEW f \in [1..2 -> Int]
  PROVE  SumFunction(f) = f[1] + f[2]
<1>1. IsFiniteSet(1..2)
  BY IntervalSize
<1>2. PICK total : Sums(total, f, 1..2) /\ SumFunction(f) = total[1..2]
  BY <1>1, SumUnrolls
<1>3. 1..2 \in SUBSET (1..2) /\ {2} \in SUBSET (1..2) /\ (1..2) \ {1} = {2} /\ {2} \ {2} = {} /\ 1 \in 1..2
  OBVIOUS
<1>4. total[1..2] = f[1] + total[{2}] /\ total[{2}] = f[2] + total[{}] /\ total[{}] = 0
  BY <1>2, <1>3 DEF Sums
<1> QED BY <1>2, <1>4

-----------------------------------------------------------------------------
(* Enumerations.                                                           *)

\* R orders S: of two elements exactly one comes before the other.
StrictOrder(R, S) ==
  /\ \A x \in S : <<x, x>> \notin R
  /\ \A x, y, z \in S : (<<x, y>> \in R /\ <<y, z>> \in R) => <<x, z>> \in R
  /\ \A x, y \in S : x # y => (<<x, y>> \in R \/ <<y, x>> \in R)

\* e lists the elements of S, each of them once, in the order R.
ListsInOrder(e, S, R) ==
  /\ e \in [1..Cardinality(S) -> S]
  /\ \A x \in S : \E k \in 1..Cardinality(S) : e[k] = x
  /\ \A i, j \in 1..Cardinality(S) : i < j => <<e[i], e[j]>> \in R

LEMMA EnumerationLists ==
  ASSUME NEW S, IsFiniteSet(S), NEW R, StrictOrder(R, S)
  PROVE  Cardinality(S) \in Nat /\ ListsInOrder(Enumeration(S, R), S, R)
<1> DEFINE n == Cardinality(S)
           Below(x) == {y \in S : <<y, x>> \in R}
           rank == [x \in S |-> Cardinality(Below(x))]
           e == Enumeration(S, R)
<1>1. n \in Nat
  BY FS_CardinalityType
<1>2. ASSUME NEW x \in S PROVE IsFiniteSet(Below(x)) /\ Cardinality(Below(x)) \in Nat
  BY FS_Subset, FS_CardinalityType
<1>3. ASSUME NEW x \in S, NEW y \in S, <<x, y>> \in R PROVE rank[x] < rank[y]
  <2>1. Below(x) \in SUBSET Below(y)
    BY <1>3 DEF StrictOrder
  <2>2. x \in Below(y) /\ x \notin Below(x)
    BY <1>3 DEF StrictOrder
  <2>3. Cardinality(Below(x)) <= Cardinality(Below(y)) /\ Cardinality(Below(x)) # Cardinality(Below(y))
    <3>1. IsFiniteSet(Below(y)) /\ Below(x) # Below(y)
      BY <1>2, <2>2
    <3> HIDE DEF Below
    <3> QED BY <2>1, <3>1, FS_Subset
  <2> HIDE DEF Below
  <2> QED BY <1>2, <2>3
<1>4. ASSUME NEW x \in S PROVE rank[x] \in 0..(n - 1)
  <2>1. Below(x) \in SUBSET S /\ x \notin Below(x)
    BY DEF StrictOrder
  <2>2. Below(x) # S
    BY <2>1
  <2>3. Cardinality(Below(x)) <= n /\ Cardinality(Below(x)) # n
    <3> HIDE DEF Below
    <3> QED BY <2>1, <2>2, FS_Subset
  <2> HIDE DEF Below
  <2> QED BY <1>1, <1>2, <2>3
<1>5. rank \in Injection(S, 0..(n - 1))
  <2>1. rank \in [S -> 0..(n - 1)]
    BY <1>4
  <2>2. ASSUME NEW x \in S, NEW y \in S, rank[x] = rank[y] PROVE x = y
    <3>1. rank[x] \in Int /\ rank[y] \in Int
      BY <1>4
    <3>2. SUFFICES ASSUME x # y PROVE FALSE
      OBVIOUS
    <3>3. rank[x] < rank[y] \/ rank[y] < rank[x]
      <4> HIDE DEF rank
      <4> QED BY <1>3, <3>2 DEF StrictOrder
    <3> HIDE DEF rank
    <3> QED BY <2>2, <3>1, <3>3
  <2> HIDE DEF rank
  <2> QED BY <2>1, <2>2 DEF Injection, IsInjective
<1>6. IsFiniteSet(0..(n - 1)) /\ Cardinality(0..(n - 1)) = n
  <2>1. 0 \in Int /\ n - 1 \in Int
    BY <1>1
  <2>2. IsFiniteSet(0..(n - 1)) /\ Cardinality(0..(n - 1)) = IF 0 > n - 1 THEN 0 ELSE (n - 1) - 0 + 1
    <3> HIDE DEF n
    <3> QED BY <2>1, FS_Interval
  <2> HIDE DEF n
  <2> QED BY <1>1, <2>2
<1>7. rank \in Surjection(S, 0..(n - 1))
  <2> HIDE DEF rank
  <2> QED BY <1>5, <1>6, FS_Injection
<1>8. ASSUME NEW k \in 1..n PROVE \E x \in S : rank[x] = k - 1
  <2>1. k - 1 \in 0..(n - 1)
    BY <1>1
  <2> HIDE DEF rank, n
  <2> QED BY <1>7, <2>1 DEF Surjection
<1>9. ASSUME NEW k \in 1..n PROVE e[k] \in S /\ rank[e[k]] = k - 1
  <2>1. e[k] = CHOOSE x \in S : Cardinality({y \in S : <<y, x>> \in R}) = k - 1
    BY DEF Enumeration
  <2>2. \E x \in S : Cardinality({y \in S : <<y, x>> \in R}) = k - 1
    BY <1>8
  <2>3. e[k] \in S /\ Cardinality({y \in S : <<y, e[k]>> \in R}) = k - 1
    <3> HIDE DEF e
    <3> QED BY <2>1, <2>2
  <2> QED BY <2>3
<1>10. e \in [1..n -> S]
  <2>1. e = [k \in 1..n |-> CHOOSE x \in S : Cardinality({y \in S : <<y, x>> \in R}) = k - 1]
    BY DEF Enumeration
  <2>2. \A k \in 1..n : (CHOOSE x \in S : Cardinality({y \in S : <<y, x>> \in R}) = k - 1) = e[k]
    BY <2>1
  <2> DEFINE at(k) == CHOOSE x \in S : Cardinality({y \in S : <<y, x>> \in R}) = k - 1
  <2>3. e = [k \in 1..n |-> at(k)] /\ \A k \in 1..n : at(k) = e[k]
    BY <2>1, <2>2
  <2> HIDE DEF e, rank, at
  <2> QED BY <1>9, <2>3
<1>11. ASSUME NEW x \in S PROVE \E k \in 1..n : e[k] = x
  <2> DEFINE k == rank[x] + 1
  <2>1. rank[x] \in 0..(n - 1)
    BY <1>4
  <2>2. k \in 1..n /\ k - 1 = rank[x]
    <3> HIDE DEF rank, n
    <3> QED BY <1>1, <2>1
  <2> HIDE DEF k
  <2>3. e[k] \in S /\ rank[e[k]] = rank[x]
    <3>1. e[k] \in S /\ rank[e[k]] = k - 1
      BY <1>9, <2>2
    <3> HIDE DEF rank, e
    <3> QED BY <2>2, <3>1
  <2>4. e[k] = x
    <3> HIDE DEF rank, e
    <3> QED BY <1>5, <2>3 DEF Injection, IsInjective
  <2> QED BY <2>2, <2>4
<1>12. ASSUME NEW i \in 1..n, NEW j \in 1..n, i < j PROVE <<e[i], e[j]>> \in R
  <2>1. e[i] \in S /\ e[j] \in S /\ rank[e[i]] = i - 1 /\ rank[e[j]] = j - 1
    BY <1>9
  <2> HIDE DEF rank, e
  <2>2. e[i] # e[j] /\ ~(rank[e[j]] < rank[e[i]])
    BY <1>12, <2>1
  <2> QED BY <1>3, <2>1, <2>2 DEF StrictOrder
<1>13. e = Enumeration(S, R) /\ n = Cardinality(S)
  OBVIOUS
<1> HIDE DEF e, n, rank
<1> QED BY <1>1, <1>10, <1>11, <1>12, <1>13 DEF ListsInOrder

\* Of the elements of a nonempty finite set one comes before all the others.
LEMMA FirstExists ==
  ASSUME NEW S, IsFiniteSet(S), S # {}, NEW R, StrictOrder(R, S)
  PROVE  \E x \in S : \A y \in S \ {x} : <<x, y>> \in R
<1> DEFINE e == Enumeration(S, R)
           n == Cardinality(S)
<1>1. n \in Nat /\ ListsInOrder(e, S, R)
  BY EnumerationLists
<1>2. n # 0
  BY FS_EmptySet
<1> HIDE DEF e, n
<1>3. /\ 1 \in 1..n /\ e[1] \in S
      /\ \A x \in S : \E k \in 1..n : e[k] = x
      /\ \A i, j \in 1..n : i < j => <<e[i], e[j]>> \in R
  BY <1>1, <1>2 DEF ListsInOrder, n
<1>4. ASSUME NEW y \in S \ {e[1]} PROVE <<e[1], y>> \in R
  <2>1. PICK k \in 1..n : e[k] = y
    BY <1>3
  <2>2. 1 < k
    BY <2>1
  <2> QED BY <1>3, <2>1, <2>2
<1> QED BY <1>3, <1>4

LEMMA NumbersAreOrdered ==
  ASSUME NEW S \in SUBSET Int
  PROVE  StrictOrder({p \in S \X S : p[1] < p[2]}, S)
<1> DEFINE R == {p \in S \X S : p[1] < p[2]}
<1>1. ASSUME NEW x \in S, NEW y \in S PROVE <<x, y>> \in R <=> x < y
  OBVIOUS
<1> HIDE DEF R
<1> QED BY <1>1 DEF StrictOrder

\* Some numbers in their order.
LEMMA InOrderLists ==
  ASSUME NEW S \in SUBSET Int, IsFiniteSet(S)
  PROVE  /\ Cardinality(S) \in Nat
         /\ InOrder(S) \in [1..Cardinality(S) -> S]
         /\ \A x \in S : \E k \in 1..Cardinality(S) : InOrder(S)[k] = x
         /\ \A i, j \in 1..Cardinality(S) : i < j => InOrder(S)[i] < InOrder(S)[j]
<1> DEFINE R == {p \in S \X S : p[1] < p[2]}
<1>1. StrictOrder(R, S)
  BY NumbersAreOrdered
<1>2. InOrder(S) = Enumeration(S, R)
  BY DEF InOrder
<1>3. \A x, y : <<x, y>> \in R => x < y
  OBVIOUS
<1> HIDE DEF R
<1>4. Cardinality(S) \in Nat /\ ListsInOrder(InOrder(S), S, R)
  BY <1>1, <1>2, EnumerationLists
<1> QED BY <1>3, <1>4 DEF ListsInOrder

LEMMA GreatestIsMax ==
  ASSUME NEW S \in SUBSET Int, IsFiniteSet(S), S # {}
  PROVE  Max(S) \in S /\ \A y \in S : Max(S) >= y
<1> DEFINE e == InOrder(S)
           n == Cardinality(S)
<1>1. /\ n \in Nat /\ e \in [1..n -> S]
      /\ \A x \in S : \E k \in 1..n : e[k] = x
      /\ \A i, j \in 1..n : i < j => e[i] < e[j]
  BY InOrderLists
<1>2. n # 0
  BY FS_EmptySet
<1> HIDE DEF e, n
<1>3. n \in 1..n /\ e[n] \in S
  BY <1>1, <1>2
<1>4. ASSUME NEW y \in S PROVE e[n] >= y
  <2>1. PICK k \in 1..n : e[k] = y
    BY <1>1
  <2>2. k = n \/ k < n
    BY <1>1
  <2>3. e[n] \in Int /\ y \in Int
    BY <1>3
  <2> QED BY <1>1, <1>3, <2>1, <2>2, <2>3
<1>5. \E x \in S : \A y \in S : x >= y
  BY <1>3, <1>4
<1> QED BY <1>5 DEF Max

LEMMA SmallestIsMin ==
  ASSUME NEW S \in SUBSET Int, IsFiniteSet(S), S # {}
  PROVE  Min(S) \in S /\ \A y \in S : Min(S) <= y
<1> DEFINE R == {p \in S \X S : p[1] < p[2]}
<1>1. StrictOrder(R, S) /\ \A x, y : <<x, y>> \in R => x < y
  BY NumbersAreOrdered
<1> HIDE DEF R
<1>2. PICK x \in S : \A y \in S \ {x} : <<x, y>> \in R
  BY <1>1, FirstExists
<1>3. \A y \in S : x <= y
  <2> SUFFICES ASSUME NEW y \in S PROVE x <= y
    OBVIOUS
  <2>1. x = y \/ x < y
    BY <1>1, <1>2
  <2> QED BY <2>1
<1>4. \E z \in S : \A y \in S : z <= y
  BY <1>3
<1> QED BY <1>4 DEF Min

LEMMA PairMaxMin ==
  ASSUME NEW a \in Int, NEW b \in Int
  PROVE  /\ Max({a, b}) = IF a >= b THEN a ELSE b
         /\ Min({a, b}) = IF a <= b THEN a ELSE b
<1>1. \A x \in {a, b} : (\A y \in {a, b} : x >= y) => x = IF a >= b THEN a ELSE b
  OBVIOUS
<1>2. \E x \in {a, b} : \A y \in {a, b} : x >= y
  OBVIOUS
<1>3. \A x \in {a, b} : (\A y \in {a, b} : x <= y) => x = IF a <= b THEN a ELSE b
  OBVIOUS
<1>4. \E x \in {a, b} : \A y \in {a, b} : x <= y
  OBVIOUS
<1>5. Max({a, b}) \in {a, b} /\ \A y \in {a, b} : Max({a, b}) >= y
  BY <1>2 DEF Max
<1>6. Min({a, b}) \in {a, b} /\ \A y \in {a, b} : Min({a, b}) <= y
  BY <1>4 DEF Min
<1> QED BY <1>1, <1>3, <1>5, <1>6

\* What a finite set is made of by a function is finite, and no larger.
LEMMA ImageIsFinite ==
  ASSUME NEW S, IsFiniteSet(S), NEW f, DOMAIN f = S
  PROVE  IsFiniteSet({f[x] : x \in S})
<1> DEFINE T == {f[x] : x \in S}
           g == [x \in S |-> f[x]]
<1>1. g \in Surjection(S, T)
  BY DEF Surjection
<1> HIDE DEF T, g
<1>2. IsFiniteSet(T)
  BY <1>1, FS_Surjection
<1> QED BY <1>2 DEF T

\* The union of finitely many finite sets.
LEMMA UnionIsFinite ==
  ASSUME NEW S, IsFiniteSet(S), NEW f, \A x \in S : IsFiniteSet(f[x])
  PROVE  IsFiniteSet(UNION {f[x] : x \in S})
<1> DEFINE All(T) == UNION {f[x] : x \in T}
           H == {T \in SUBSET S : IsFiniteSet(All(T))}
<1>1. {} \in H
  <2>1. All({}) = {}
    OBVIOUS
  <2>2. IsFiniteSet(All({}))
    BY <2>1, FS_EmptySet
  <2> QED BY <2>2
<1>2. ASSUME NEW T \in SUBSET S, T # {}, \A x \in T : T \ {x} \in H PROVE T \in H
  <2>1. PICK x \in T : TRUE
    BY <1>2
  <2>2. All(T) = f[x] \cup All(T \ {x})
    BY <2>1
  <2>3. IsFiniteSet(f[x]) /\ IsFiniteSet(All(T \ {x}))
    BY <1>2
  <2>4. IsFiniteSet(f[x] \cup All(T \ {x}))
    <3> HIDE DEF All
    <3> QED BY <2>3, FS_Union
  <2> QED BY <2>2, <2>4
<1> HIDE DEF H
<1>3. \A T \in SUBSET S : T \in H
  BY <1>1, <1>2, SubsetInduction
<1>4. IsFiniteSet(All(S))
  BY <1>3 DEF H
<1> QED BY <1>4

-----------------------------------------------------------------------------
(* The cut of a transcript (TranslationChunking).                          *)

ChunkType == [lo : Nat, hi : Nat, levels : 0..SplitLevels]

\* The chunks of segments 1..s follow one another, none exceeds a limit unless it is a
\* single segment, and none could have taken the first segment of the next one.
WellCut(groups, s, maxSegments, big) ==
  /\ groups \in Seq(ChunkType) /\ Len(groups) > 0
  /\ groups[1].lo = 1 /\ groups[Len(groups)].hi = s
  /\ \A i \in 1..Len(groups) :
       /\ groups[i].lo <= groups[i].hi /\ groups[i].levels = SplitLevels
       /\ Size(groups[i]) <= maxSegments
       /\ groups[i].lo < groups[i].hi => <<groups[i].lo, groups[i].hi>> \notin big
  /\ \A i \in 2..Len(groups) :
       /\ groups[i].lo = groups[i - 1].hi + 1
       /\ \/ Size(groups[i - 1]) = maxSegments
          \/ <<groups[i - 1].lo, groups[i].lo>> \in big

LEMMA ChunkIsTyped ==
  ASSUME NEW lo \in Nat, NEW hi \in Nat, NEW levels \in 0..SplitLevels
  PROVE  /\ Chunk(lo, hi, levels) \in ChunkType
         /\ Chunk(lo, hi, levels).lo = lo /\ Chunk(lo, hi, levels).hi = hi
         /\ Chunk(lo, hi, levels).levels = levels
BY DEF Chunk, ChunkType

\* A segment that does not fit starts a chunk of its own.
LEMMA PlacedApart ==
  ASSUME NEW groups \in Seq(ChunkType), NEW s \in Nat, NEW after,
         after = Append(groups, Chunk(s, s, SplitLevels))
  PROVE  /\ after \in Seq(ChunkType) /\ Len(after) = Len(groups) + 1
         /\ \A i \in 1..Len(groups) : after[i] = groups[i]
         /\ after[Len(groups) + 1].lo = s /\ after[Len(groups) + 1].hi = s
         /\ after[Len(groups) + 1].levels = SplitLevels
<1>1. Chunk(s, s, SplitLevels) \in ChunkType
  BY ChunkIsTyped DEF SplitLevels
<1> DEFINE new == Chunk(s, s, SplitLevels)
<1> HIDE DEF new
<1>2. /\ new \in ChunkType /\ after = Append(groups, new)
      /\ new.lo = s /\ new.hi = s /\ new.levels = SplitLevels
  BY <1>1, ChunkIsTyped DEF new, SplitLevels
<1> QED BY <1>2

\* A segment that fits moves the end of the last chunk.
LEMMA PlacedWithin ==
  ASSUME NEW groups \in Seq(ChunkType), groups # <<>>, NEW s \in Nat, NEW after,
         after = [groups EXCEPT ![Len(groups)].hi = s]
  PROVE  /\ after \in Seq(ChunkType) /\ Len(after) = Len(groups)
         /\ \A i \in 1..(Len(groups) - 1) : after[i] = groups[i]
         /\ after[Len(groups)].lo = groups[Len(groups)].lo
         /\ after[Len(groups)].hi = s
         /\ after[Len(groups)].levels = groups[Len(groups)].levels
<1> DEFINE n == Len(groups)
           last == [groups[n] EXCEPT !.hi = s]
<1>1. n \in Nat /\ n \in 1..Len(groups) /\ groups[n] \in ChunkType
  OBVIOUS
<1>2. /\ last \in ChunkType /\ last.hi = s
      /\ last.lo = groups[n].lo /\ last.levels = groups[n].levels
  BY <1>1 DEF ChunkType
<1>3. after = [groups EXCEPT ![n] = last]
  OBVIOUS
<1> HIDE DEF last
<1>4. /\ after \in Seq(ChunkType) /\ Len(after) = Len(groups)
      /\ \A i \in 1..(Len(groups) - 1) : after[i] = groups[i]
      /\ after[n] = last
  BY <1>1, <1>2, <1>3
<1> QED BY <1>2, <1>4

LEMMA FirstPlaced ==
  ASSUME NEW max \in Nat \ {0}, NEW big
  PROVE  WellCut(Place(<<>>, 1, max, big), 1, max, big)
<1>1. Place(<<>>, 1, max, big) = Append(<<>>, Chunk(1, 1, SplitLevels))
  BY DEF Place
<1> DEFINE new == Chunk(1, 1, SplitLevels)
           after == Append(<<>>, new)
<1>2. new \in ChunkType /\ new.lo = 1 /\ new.hi = 1 /\ new.levels = SplitLevels
  BY ChunkIsTyped DEF SplitLevels
<1> HIDE DEF new
<1>3. after \in Seq(ChunkType) /\ Len(after) = 1 /\ after[1] = new
  BY <1>2
<1> HIDE DEF after
<1>4. WellCut(after, 1, max, big)
  BY <1>2, <1>3 DEF WellCut, Size
<1> QED BY <1>1, <1>4 DEF after, new

\* One step of the cut: segment s joins the chunks of the segments before it.
LEMMA PlaceKeepsCut ==
  ASSUME NEW max \in Nat \ {0}, NEW big, NEW groups, NEW s \in Nat \ {0},
         WellCut(groups, s, max, big)
  PROVE  WellCut(Place(groups, s + 1, max, big), s + 1, max, big)
<1> DEFINE n == Len(groups)
           t == s + 1
           after == Place(groups, t, max, big)
           Full == t + 1 - groups[n].lo > max \/ <<groups[n].lo, t>> \in big
<1>1. /\ groups \in Seq(ChunkType) /\ n \in Nat \ {0} /\ groups # <<>>
      /\ \A i \in 1..n : groups[i] \in ChunkType
      /\ t \in Nat /\ Last(groups) = groups[n]
  BY DEF WellCut, Last
<1>2. /\ groups[n].hi = s /\ groups[n].lo <= s /\ groups[n].lo \in Nat
      /\ Size(groups[n]) <= max /\ groups[n].levels = SplitLevels
  <2>1. n \in 1..Len(groups) /\ groups[n] \in ChunkType
    BY <1>1
  <2>2. groups[n].hi = s
    BY DEF WellCut
  <2> QED BY <2>1, <2>2 DEF WellCut, ChunkType
<1>3. CASE Full
  <2>1. after = Append(groups, Chunk(t, t, SplitLevels))
    BY <1>1, <1>3 DEF Place
  <2>2. Size(groups[n]) = max \/ <<groups[n].lo, t>> \in big
    BY <1>2, <1>3 DEF Size
  <2> HIDE DEF after, t, Full
  <2>3. /\ after \in Seq(ChunkType) /\ Len(after) = n + 1
        /\ \A i \in 1..n : after[i] = groups[i]
        /\ after[n + 1].lo = t /\ after[n + 1].hi = t /\ after[n + 1].levels = SplitLevels
    BY <1>1, <2>1, PlacedApart
  <2>4. ASSUME NEW i \in 1..(n + 1)
        PROVE  /\ after[i].lo <= after[i].hi /\ after[i].levels = SplitLevels
               /\ Size(after[i]) <= max
               /\ after[i].lo < after[i].hi => <<after[i].lo, after[i].hi>> \notin big
    <3>1. CASE i = n + 1
      BY <1>1, <2>3, <3>1 DEF Size
    <3>2. CASE i # n + 1
      <4>1. i \in 1..n
        BY <1>1, <3>2
      <4> QED BY <2>3, <4>1 DEF WellCut
    <3> QED BY <3>1, <3>2
  <2>5. ASSUME NEW i \in 2..(n + 1)
        PROVE  /\ after[i].lo = after[i - 1].hi + 1
               /\ Size(after[i - 1]) = max \/ <<after[i - 1].lo, after[i].lo>> \in big
    <3>1. CASE i = n + 1
      <4>1. i - 1 = n /\ n \in 1..n
        BY <1>1, <3>1
      <4>2. after[i - 1] = groups[n] /\ after[i].lo = t
        BY <2>3, <3>1, <4>1
      <4> QED BY <1>2, <2>2, <4>2 DEF t
    <3>2. CASE i # n + 1
      <4>1. i \in 2..n /\ i \in 1..n /\ i - 1 \in 1..n
        BY <1>1, <3>2
      <4>2. after[i] = groups[i] /\ after[i - 1] = groups[i - 1]
        BY <2>3, <4>1
      <4> QED BY <4>1, <4>2 DEF WellCut
    <3> QED BY <3>1, <3>2
  <2>6. after[1].lo = 1
    BY <1>1, <2>3 DEF WellCut
  <2> QED BY <1>1, <2>3, <2>4, <2>5, <2>6 DEF WellCut, after, t
<1>4. CASE ~Full
  <2>1. after = [groups EXCEPT ![Len(groups)].hi = t]
    BY <1>1, <1>4 DEF Place
  <2> HIDE DEF after, t, Full
  <2>2. /\ after \in Seq(ChunkType) /\ Len(after) = n
        /\ \A i \in 1..(n - 1) : after[i] = groups[i]
        /\ after[n].lo = groups[n].lo /\ after[n].hi = t
        /\ after[n].levels = groups[n].levels
    BY <1>1, <2>1, PlacedWithin
  <2>3. Size(after[n]) <= max /\ <<groups[n].lo, t>> \notin big
    BY <1>1, <1>2, <1>4, <2>2 DEF Size, Full
  <2>4. groups[n].levels = SplitLevels /\ groups[n].lo <= t
    BY <1>2 DEF t
  <2>5. ASSUME NEW i \in 1..n
        PROVE  /\ after[i].lo <= after[i].hi /\ after[i].levels = SplitLevels
               /\ Size(after[i]) <= max
               /\ after[i].lo < after[i].hi => <<after[i].lo, after[i].hi>> \notin big
    <3>1. CASE i = n
      BY <2>2, <2>3, <2>4, <3>1
    <3>2. CASE i # n
      <4>1. i \in 1..(n - 1)
        BY <1>1, <3>2
      <4> QED BY <2>2, <4>1 DEF WellCut
    <3> QED BY <3>1, <3>2
  <2>6. ASSUME NEW i \in 2..n
        PROVE  /\ after[i].lo = after[i - 1].hi + 1
               /\ Size(after[i - 1]) = max \/ <<after[i - 1].lo, after[i].lo>> \in big
    <3>1. i - 1 \in 1..(n - 1) /\ i \in 1..n
      BY <1>1
    <3>2. after[i - 1] = groups[i - 1] /\ after[i].lo = groups[i].lo
      <4>1. CASE i = n
        BY <2>2, <3>1, <4>1
      <4>2. CASE i # n
        <5>1. i \in 1..(n - 1)
          BY <1>1, <3>1, <4>2
        <5> QED BY <2>2, <3>1, <5>1
      <4> QED BY <4>1, <4>2
    <3> QED BY <3>2 DEF WellCut
  <2>7. after[1].lo = 1
    <3>1. CASE n = 1
      BY <2>2, <3>1 DEF WellCut
    <3>2. CASE n # 1
      <4> HIDE DEF n
      <4>1. 1 \in 1..(n - 1)
        BY <1>1, <3>2
      <4> QED BY <2>2, <4>1 DEF WellCut
    <3> QED BY <3>1, <3>2
  <2> QED BY <1>1, <2>2, <2>5, <2>6, <2>7 DEF WellCut, after, t
<1> QED BY <1>3, <1>4

LEMMA PlaceIsTyped ==
  ASSUME NEW groups \in Seq(ChunkType), NEW s \in Nat, NEW max, NEW big
  PROVE  Place(groups, s, max, big) \in Seq(ChunkType)
<1> DEFINE after == Place(groups, s, max, big)
<1>1. \/ after = Append(groups, Chunk(s, s, SplitLevels))
      \/ groups # <<>> /\ after = [groups EXCEPT ![Len(groups)].hi = s]
  BY DEF Place
<1> HIDE DEF after
<1>2. ASSUME after = Append(groups, Chunk(s, s, SplitLevels))
      PROVE  after \in Seq(ChunkType)
  BY <1>2, PlacedApart
<1>3. ASSUME groups # <<>>, after = [groups EXCEPT ![Len(groups)].hi = s]
      PROVE  after \in Seq(ChunkType)
  BY <1>3, PlacedWithin
<1>4. after \in Seq(ChunkType)
  BY <1>1, <1>2, <1>3
<1> QED BY <1>4 DEF after

\* The chunks of a transcript follow one another from the first segment to the last, each
\* within both limits unless it is a single segment, and each as long as they allow
\* (openai_translation.py _chunk_transcript).
THEOREM TranscriptIsWellCut ==
  ASSUME NEW n \in Nat, n > 0, NEW max \in Nat \ {0}, NEW big
  PROVE  WellCut(ChunkTranscript(n, max, big), n, max, big)
<1> DEFINE Cuts(f) == [s \in 0..n |-> IF s = 0 THEN <<>> ELSE Place(f[s - 1], s, max, big)]
           cut == CHOOSE f : f = Cuts(f)
           V == Seq(ChunkType)
           step == [p \in (1..n) \X V |-> Place(p[2], p[1], max, big)]
<1>1. ChunkTranscript(n, max, big) = cut[n]
  BY DEF ChunkTranscript
<1>2. step \in [(1..n) \X V -> V] /\ <<>> \in V
  <2>1. ASSUME NEW p \in (1..n) \X V PROVE Place(p[2], p[1], max, big) \in V
    <3>1. p[2] \in Seq(ChunkType) /\ p[1] \in Nat
      OBVIOUS
    <3> QED BY <3>1, PlaceIsTyped
  <2> QED BY <2>1
<1>3. \A i \in 1..n, x \in V : step[<<i, x>>] = Place(x, i, max, big)
  OBVIOUS
<1> HIDE DEF step
<1>4. PICK f \in [0..n -> V] : Unrolls(f, n, <<>>, step)
  <2> HIDE DEF V
  <2> QED BY <1>2, IntervalRecursion
<1>5. f = Cuts(f)
  <2>1. ASSUME NEW i \in 0..n
        PROVE  f[i] = IF i = 0 THEN <<>> ELSE Place(f[i - 1], i, max, big)
    <3>1. CASE i = 0
      BY <1>4, <3>1 DEF Unrolls
    <3>2. CASE i # 0
      <4>1. i \in 1..n /\ i - 1 \in 0..n
        BY <3>2
      <4>2. f[i - 1] \in V
        BY <4>1
      <4>3. f[i] = step[<<i, f[i - 1]>>]
        BY <1>4, <4>1 DEF Unrolls
      <4> QED BY <1>3, <3>2, <4>1, <4>2, <4>3
    <3> QED BY <3>1, <3>2
  <2> QED BY <2>1
<1>6. cut = Cuts(cut)
  <2> HIDE DEF Cuts
  <2> QED BY <1>5
<1> HIDE DEF cut
<1>7. cut[0] = <<>> /\ \A i \in 1..n : cut[i] = Place(cut[i - 1], i, max, big)
  <2>1. \A i \in 0..n : cut[i] = IF i = 0 THEN <<>> ELSE Place(cut[i - 1], i, max, big)
    BY <1>6
  <2>2. cut[0] = <<>>
    <3>1. 0 \in 0..n
      OBVIOUS
    <3> QED BY <2>1, <3>1
  <2>3. ASSUME NEW i \in 1..n PROVE cut[i] = Place(cut[i - 1], i, max, big)
    <3>1. i \in 0..n /\ i # 0
      OBVIOUS
    <3> QED BY <2>1, <3>1
  <2> QED BY <2>2, <2>3
<1> HIDE DEF Cuts
<1> DEFINE Good == {i \in 1..n : WellCut(cut[i], i, max, big)}
<1>8. 1 \in Good
  <2>1. 1 \in 1..n /\ 1 - 1 = 0
    OBVIOUS
  <2>2. cut[1] = Place(<<>>, 1, max, big)
    BY <1>7, <2>1
  <2> QED BY <2>1, <2>2, FirstPlaced
<1>9. ASSUME NEW i \in 1..(n - 1), i \in Good PROVE i + 1 \in Good
  <2>1. i + 1 \in 1..n /\ i \in Nat \ {0}
    OBVIOUS
  <2> DEFINE k == i + 1
  <2>2. k \in 1..n /\ k - 1 = i
    BY <2>1
  <2> HIDE DEF k
  <2>3. cut[k] = Place(cut[i], k, max, big)
    BY <1>7, <2>2
  <2>4. WellCut(cut[i], i, max, big)
    BY <1>9
  <2>5. WellCut(cut[k], k, max, big)
    BY <2>1, <2>3, <2>4, PlaceKeepsCut DEF k
  <2> QED BY <2>2, <2>5 DEF k
<1> HIDE DEF Good
<1>10. \A i \in 1..n : i \in Good
  BY <1>8, <1>9, IntervalInduction
<1>11. n \in 1..n
  OBVIOUS
<1> QED BY <1>1, <1>10, <1>11 DEF Good

-----------------------------------------------------------------------------
(* What chunks cover.                                                      *)

\* The positions 1..n, in order.
Positions(n) == [k \in 1..n |-> k]

LEMMA CoveredIsSequence ==
  ASSUME NEW c \in ChunkType, c.lo <= c.hi + 1
  PROVE  /\ Covered(c) \in Seq(Int) /\ Len(Covered(c)) = c.hi + 1 - c.lo
         /\ \A k \in 1..(c.hi + 1 - c.lo) : Covered(c)[k] = c.lo + k - 1
<1>1. c.lo \in Nat /\ c.hi \in Nat /\ Size(c) = c.hi + 1 - c.lo /\ Size(c) \in Nat
  BY DEF ChunkType, Size
<1>2. Covered(c) = [k \in 1..Size(c) |-> c.lo + k - 1]
  BY DEF Covered
<1>3. \A k \in 1..Size(c) : c.lo + k - 1 \in Int
  BY <1>1
<1> HIDE DEF Size
<1> QED BY <1>1, <1>2, <1>3

\* What two adjacent chunks cover is what the chunk from the start of one to the end of the
\* other covers.
LEMMA AdjacentChunks ==
  ASSUME NEW a \in ChunkType, NEW b \in ChunkType, NEW c \in ChunkType,
         c.lo = a.lo, b.lo = a.hi + 1, c.hi = b.hi, a.lo <= a.hi + 1, b.lo <= b.hi + 1
  PROVE  Covered(a) \o Covered(b) = Covered(c)
<1> DEFINE left == Covered(a)
           right == Covered(b)
           whole == Covered(c)
           x == a.hi + 1 - a.lo
           y == b.hi + 1 - b.lo
<1>1. /\ a.lo \in Nat /\ a.hi \in Nat /\ b.lo \in Nat /\ b.hi \in Nat
      /\ x \in Nat /\ y \in Nat /\ c.lo <= c.hi + 1 /\ c.hi + 1 - c.lo = x + y
  BY DEF ChunkType
<1>2. left \in Seq(Int) /\ Len(left) = x /\ \A k \in 1..x : left[k] = a.lo + k - 1
  BY CoveredIsSequence
<1>3. right \in Seq(Int) /\ Len(right) = y /\ \A k \in 1..y : right[k] = b.lo + k - 1
  BY CoveredIsSequence
<1>4. /\ whole \in Seq(Int) /\ Len(whole) = x + y
      /\ \A k \in 1..(x + y) : whole[k] = a.lo + k - 1
  <2>1. /\ whole \in Seq(Int) /\ Len(whole) = c.hi + 1 - c.lo
        /\ \A k \in 1..(c.hi + 1 - c.lo) : whole[k] = c.lo + k - 1
    BY <1>1, CoveredIsSequence
  <2> HIDE DEF whole, x, y
  <2> QED BY <1>1, <2>1
<1> HIDE DEF left, right, whole
<1>5. /\ left \o right \in Seq(Int) /\ Len(left \o right) = x + y
      /\ \A k \in 1..(x + y) : (left \o right)[k] = IF k <= x THEN left[k] ELSE right[k - x]
  <2> HIDE DEF x, y
  <2>1. /\ left \o right \in Seq(Int) /\ Len(left \o right) = Len(left) + Len(right)
        /\ \A k \in 1..(Len(left) + Len(right)) :
              (left \o right)[k] = IF k <= Len(left) THEN left[k] ELSE right[k - Len(left)]
    BY <1>2, <1>3, ConcatProperties
  <2> QED BY <1>1, <1>2, <1>3, <2>1
<1>6. b.lo = a.lo + x
  BY <1>1
<1> HIDE DEF x, y
<1>7. ASSUME NEW k \in 1..(x + y) PROVE (left \o right)[k] = whole[k]
  <2>1. CASE k <= x
    <3>1. k \in 1..x
      BY <1>1, <2>1
    <3> QED BY <1>2, <1>4, <1>5, <2>1, <3>1
  <2>2. CASE ~(k <= x)
    <3>1. k - x \in 1..y
      BY <1>1, <2>2
    <3>2. right[k - x] = b.lo + (k - x) - 1
      BY <1>3, <3>1
    <3>3. (left \o right)[k] = right[k - x]
      BY <1>5, <2>2
    <3>4. b.lo + (k - x) - 1 = a.lo + k - 1
      BY <1>1, <1>6
    <3> QED BY <1>4, <3>2, <3>3, <3>4
  <2> QED BY <2>1, <2>2
<1>8. left \o right = whole
  BY <1>4, <1>5, <1>7, SeqEqual
<1> QED BY <1>8 DEF left, right, whole

\* The positions up to a chunk followed by those of the chunk are the positions up to its
\* end.
LEMMA PositionsContinue ==
  ASSUME NEW a \in Nat, NEW c \in ChunkType, c.lo = a + 1, a <= c.hi
  PROVE  Positions(a) \o Covered(c) = Positions(c.hi)
<1> DEFINE UpTo(n) == Chunk(1, n, 0)
<1>1. ASSUME NEW n \in Nat
      PROVE  /\ UpTo(n) \in ChunkType /\ UpTo(n).lo = 1 /\ UpTo(n).hi = n
             /\ Positions(n) = Covered(UpTo(n))
  <2>1. UpTo(n) \in ChunkType /\ UpTo(n).lo = 1 /\ UpTo(n).hi = n
    BY ChunkIsTyped DEF SplitLevels
  <2> HIDE DEF UpTo
  <2>2. Size(UpTo(n)) = n /\ \A k \in 1..n : 1 + k - 1 = k
    BY <2>1 DEF Size
  <2>3. Positions(n) = Covered(UpTo(n))
    BY <2>1, <2>2 DEF Positions, Covered
  <2> QED BY <2>1, <2>3
<1>2. c.hi \in Nat
  BY DEF ChunkType
<1> HIDE DEF UpTo
<1>3. Covered(UpTo(a)) \o Covered(c) = Covered(UpTo(c.hi))
  <2>1. /\ UpTo(a) \in ChunkType /\ UpTo(a).lo = 1 /\ UpTo(a).hi = a
        /\ UpTo(c.hi) \in ChunkType /\ UpTo(c.hi).lo = 1 /\ UpTo(c.hi).hi = c.hi
    BY <1>1, <1>2
  <2>2. 1 <= a + 1 /\ c.lo <= c.hi + 1
    BY <1>2
  <2> QED BY <2>1, <2>2, AdjacentChunks
<1> QED BY <1>1, <1>2, <1>3

\* Chunks that follow one another cover what lies between their ends.
LEMMA ChunksThatFollow ==
  ASSUME NEW c \in Seq(ChunkType), Len(c) > 0, c[1].lo = 1,
         \A i \in 1..Len(c) : c[i].lo <= c[i].hi + 1,
         \A i \in 2..Len(c) : c[i].lo = c[i - 1].hi + 1
  PROVE  FlattenSeq([i \in 1..Len(c) |-> Covered(c[i])]) = Positions(c[Len(c)].hi)
<1> DEFINE n == Len(c)
           parts == [i \in 1..n |-> Covered(c[i])]
<1>1. n \in Nat /\ n > 0 /\ \A i \in 1..n : c[i] \in ChunkType /\ c[i].hi \in Nat
  <2>1. \A i \in 1..n : c[i] \in ChunkType
    OBVIOUS
  <2>2. \A x \in ChunkType : x.hi \in Nat
    BY DEF ChunkType
  <2> QED BY <2>1, <2>2
<1>2. parts \in [1..n -> Seq(Int)]
  <2>1. ASSUME NEW i \in 1..n PROVE Covered(c[i]) \in Seq(Int)
    <3>1. c[i] \in ChunkType /\ c[i].lo <= c[i].hi + 1
      BY <1>1
    <3> QED BY <3>1, CoveredIsSequence
  <2> QED BY <2>1
<1>3. \A i \in 1..n : parts[i] = Covered(c[i])
  OBVIOUS
<1> HIDE DEF parts
<1>4. PICK f \in [1..n -> Seq(Int)] : Joined(f, n, parts) /\ FlattenSeq(parts) = f[n]
  <2> HIDE DEF n
  <2> QED BY <1>1, <1>2, Flattening
<1> DEFINE Good == {i \in 1..n : f[i] = Positions(c[i].hi)}
<1>5. 1 \in Good
  <2>1. 1 \in 1..n
    BY <1>1
  <2>2. 0 \in Nat /\ c[1] \in ChunkType /\ c[1].lo = 0 + 1 /\ 0 <= c[1].hi
    BY <1>1, <2>1
  <2>3. Positions(0) \o Covered(c[1]) = Positions(c[1].hi)
    BY <2>2, PositionsContinue
  <2>4. Covered(c[1]) \in Seq(Int)
    BY <1>2, <1>3, <2>1
  <2>5. Positions(0) = <<>>
    BY DEF Positions
  <2>6. Positions(0) \o Covered(c[1]) = Covered(c[1])
    BY <2>4, <2>5
  <2> QED BY <1>3, <1>4, <2>1, <2>3, <2>6 DEF Joined
<1>6. ASSUME NEW i \in 1..(n - 1), i \in Good PROVE i + 1 \in Good
  <2> DEFINE k == i + 1
  <2>1. k \in 2..n /\ k \in 1..n /\ k - 1 = i /\ i \in 1..n
    BY <1>1
  <2> HIDE DEF k, n
  <2>2. f[k] = f[i] \o parts[k] /\ c[k].lo = c[i].hi + 1
    BY <1>4, <2>1 DEF n, Joined
  <2>3. f[i] = Positions(c[i].hi)
    BY <1>6
  <2>4. c[i].hi \in Nat /\ c[k] \in ChunkType /\ c[k].hi \in Nat /\ c[k].lo <= c[k].hi + 1
    BY <1>1, <2>1 DEF n
  <2>5. c[i].hi <= c[k].hi
    BY <2>2, <2>4
  <2>6. Positions(c[i].hi) \o Covered(c[k]) = Positions(c[k].hi)
    BY <2>2, <2>4, <2>5, PositionsContinue
  <2>7. k \in Good
    BY <1>3, <2>1, <2>2, <2>3, <2>6
  <2> QED BY <2>7 DEF k
<1> HIDE DEF Good
<1>7. \A i \in 1..n : i \in Good
  <2>1. 1 \in Nat
    OBVIOUS
  <2> HIDE DEF n
  <2> QED BY <1>1, <1>5, <1>6, <2>1, IntervalInduction
<1>8. f[n] = Positions(c[n].hi)
  BY <1>1, <1>7 DEF Good
<1> QED BY <1>4, <1>8 DEF parts

\* A chunk that is split is replaced by two chunks that cover the same segments, none of
\* them empty, and that cannot be split again (openai_translation.py _split_chunk).
LEMMA SplitCoversChunk ==
  ASSUME NEW c \in ChunkType, CanSplit(c)
  PROVE  \E a, b \in ChunkType :
            /\ Split(c) = <<a, b>>
            /\ a.lo = c.lo /\ a.lo <= a.hi
            /\ b.lo = a.hi + 1 /\ b.lo <= b.hi /\ b.hi = c.hi
            /\ ~CanSplit(a) /\ ~CanSplit(b)
            /\ Covered(a) \o Covered(b) = Covered(c)
<1> DEFINE left == IF Size(c) \div 2 < 1 THEN 1 ELSE Size(c) \div 2
           a == Chunk(c.lo, c.lo + left - 1, c.levels - 1)
           b == Chunk(c.lo + left, c.hi, c.levels - 1)
<1>1. /\ c.lo \in Nat /\ c.hi \in Nat /\ c.levels = 1
      /\ Size(c) \in Nat /\ Size(c) > 1 /\ c.hi = c.lo + Size(c) - 1
  BY DEF ChunkType, CanSplit, Size, SplitLevels
<1>2. left \in Nat /\ 1 <= left /\ left < Size(c)
  BY <1>1
<1>3. Split(c) = <<a, b>>
  BY DEF Split
<1> HIDE DEF left
<1>4. /\ a \in ChunkType /\ a.lo = c.lo /\ a.hi = c.lo + left - 1 /\ a.levels = 0
      /\ b \in ChunkType /\ b.lo = c.lo + left /\ b.hi = c.hi /\ b.levels = 0
  <2>1. c.lo + left - 1 \in Nat /\ c.lo + left \in Nat /\ c.levels - 1 = 0 /\ 0 \in 0..SplitLevels
    BY <1>1, <1>2 DEF SplitLevels
  <2> QED BY <1>1, <2>1, ChunkIsTyped
<1> HIDE DEF a, b
<1>5. a.lo <= a.hi /\ b.lo <= b.hi /\ b.lo = a.hi + 1
  BY <1>1, <1>2, <1>4
<1>6. ~CanSplit(a) /\ ~CanSplit(b)
  BY <1>4 DEF CanSplit
<1>7. Covered(a) \o Covered(b) = Covered(c)
  <2>1. a.lo <= a.hi + 1 /\ b.lo <= b.hi + 1
    BY <1>1, <1>2, <1>4
  <2> QED BY <1>4, <1>5, <2>1, AdjacentChunks
<1> QED BY <1>3, <1>4, <1>5, <1>6, <1>7

LEMMA PositionsAreSequence ==
  ASSUME NEW n \in Nat
  PROVE  /\ Positions(n) \in Seq(Int) /\ Len(Positions(n)) = n
         /\ DOMAIN Positions(n) = 1..n /\ \A k \in 1..n : Positions(n)[k] = k
BY DEF Positions
===============================================================================
