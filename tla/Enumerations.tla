----------------------------- MODULE Enumerations -----------------------------
(***************************************************************************)
(* A finite set as a sequence, as sorted() of a collection without equal   *)
(* elements gives it: the k-th element is the one that k - 1 precede.      *)
(***************************************************************************)
EXTENDS Integers, Sequences, FiniteSets

\* Before is a set of pairs: those of an element and one that comes after it.
Enumeration(S, Before) ==
    [k \in 1..Cardinality(S) |-> CHOOSE x \in S : Cardinality({y \in S : <<y, x>> \in Before}) = k - 1]

\* Some numbers in their order.
InOrder(S) == Enumeration(S, {p \in S \X S : p[1] < p[2]})
=============================================================================
