-------------------------- MODULE WeightedAdmission --------------------------
(***************************************************************************)
(* What GlobalConcurrencyLimiter promises its callers: a call of cost n is *)
(* inside the guarded block only while the costs of all the calls inside   *)
(* add up to at most TotalTokens.  Admission and departure are atomic      *)
(* here; the code takes and returns its tokens one at a time.              *)
(***************************************************************************)
EXTENDS Integers, FiniteSets

CONSTANTS Workers,      \* the threads that call acquire()
          TotalTokens   \* capacity of the limiter

VARIABLE admitted       \* admitted[w]: tokens of the call w is inside, 0 if none

\* The tokens in use, each named by its user and an index: a set whose
\* cardinality is the sum of the admitted costs.
InUse(f) == {p \in Workers \X (1..TotalTokens) : p[2] <= f[p[1]]}

Init == admitted = [w \in Workers |-> 0]

\* A call of cost n gets in when the tokens still free pay for it.
Enter(w, n) ==
  /\ admitted[w] = 0
  /\ admitted' = [admitted EXCEPT ![w] = n]
  /\ Cardinality(InUse(admitted')) <= TotalTokens

Leave(w) ==
  /\ admitted[w] > 0
  /\ admitted' = [admitted EXCEPT ![w] = 0]

Next == \E w \in Workers : (\E n \in 1..TotalTokens : Enter(w, n)) \/ Leave(w)

Spec == Init /\ [][Next]_admitted
=============================================================================
