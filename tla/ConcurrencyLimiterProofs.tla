---------------------- MODULE ConcurrencyLimiterProofs ----------------------
(***************************************************************************)
(* Proofs about the limiter for every number of threads, every capacity    *)
(* and every positive costs.  The sum of the tokens held is expressed as   *)
(* the cardinality of HeldPermits, which turns "one more token" into "one  *)
(* more element" and needs no induction.                                   *)
(***************************************************************************)
EXTENDS ConcurrencyLimiter, TLAPS, FiniteSetTheorems

\* The inductive invariant.
IInv ==
  /\ TypeOK
  /\ HeldByPhase
  /\ TokensConserved
  /\ GaugeExact
  /\ ProviderCeiling

\* The permits in use form a finite set, so they can be counted.
LEMMA PermitsFinite ==
  /\ IsFiniteSet(HeldPermits)
  /\ Cardinality(HeldPermits) \in Nat
<1>1. IsFiniteSet(1..TotalTokens)
  BY FS_Interval, LimiterAssumption
<1>2. IsFiniteSet(Workers \X (1..TotalTokens))
  BY <1>1, FS_Product, LimiterAssumption
<1>3. HeldPermits \in SUBSET (Workers \X (1..TotalTokens))
  BY DEF HeldPermits
<1>4. IsFiniteSet(HeldPermits)
  BY <1>2, <1>3, FS_Subset
<1>5. QED
  BY <1>4, FS_CardinalityType

\* One more token held by one thread is one more permit in use.
LEMMA PermitGained ==
  ASSUME TypeOK, NEW w \in Workers, held[w] < TotalTokens,
         held' = [held EXCEPT ![w] = @ + 1]
  PROVE  Cardinality(HeldPermits') = Cardinality(HeldPermits) + 1
<1> DEFINE p == <<w, held[w] + 1>>
<1>1. held[w] \in Nat /\ TotalTokens \in Nat
  BY LimiterAssumption DEF TypeOK
<1>2. \A v \in Workers : held'[v] = IF v = w THEN held[w] + 1 ELSE held[v]
  BY DEF TypeOK
<1>3. p \in Workers \X (1..TotalTokens) /\ p \notin HeldPermits
  BY <1>1 DEF HeldPermits
<1>4. HeldPermits' = HeldPermits \cup {p}
  <2>1. ASSUME NEW q \in Workers \X (1..TotalTokens)
        PROVE  q[2] <= held'[q[1]] <=> q[2] <= held[q[1]] \/ q = p
    <3>1. CASE q[1] = w
      <4>1. held'[q[1]] = held[w] + 1
        BY <1>2, <3>1
      <4>2. q[2] \in Int /\ q = <<q[1], q[2]>>
        OBVIOUS
      <4> QED BY <1>1, <3>1, <4>1, <4>2
    <3>2. CASE q[1] # w
      BY <1>2, <3>2
    <3> QED BY <3>1, <3>2
  <2> QED BY <2>1, <1>3 DEF HeldPermits
<1>5. QED
  BY <1>3, <1>4, PermitsFinite, FS_AddElement

\* One token given back by one thread is one permit less in use.
LEMMA PermitReturned ==
  ASSUME TypeOK, NEW w \in Workers, held[w] > 0,
         held' = [held EXCEPT ![w] = @ - 1]
  PROVE  Cardinality(HeldPermits') = Cardinality(HeldPermits) - 1
<1> DEFINE p == <<w, held[w]>>
<1>1. held[w] \in 1..TotalTokens /\ TotalTokens \in Nat
  BY LimiterAssumption DEF TypeOK
<1>2. \A v \in Workers : held'[v] = IF v = w THEN held[w] - 1 ELSE held[v]
  BY DEF TypeOK
<1>3. p \in HeldPermits
  BY <1>1 DEF HeldPermits
<1>4. HeldPermits' = HeldPermits \ {p}
  <2>1. ASSUME NEW q \in Workers \X (1..TotalTokens)
        PROVE  q[2] <= held'[q[1]] <=> q[2] <= held[q[1]] /\ q # p
    <3>1. CASE q[1] = w
      <4>1. held'[q[1]] = held[w] - 1
        BY <1>2, <3>1
      <4>2. q[2] \in Int /\ q = <<q[1], q[2]>>
        OBVIOUS
      <4> QED BY <1>1, <3>1, <4>1, <4>2
    <3>2. CASE q[1] # w
      BY <1>2, <3>2
    <3> QED BY <3>1, <3>2
  <2> QED BY <2>1, <1>3 DEF HeldPermits
<1>5. QED
  BY <1>3, <1>4, PermitsFinite, FS_RemoveElement

\* Each provider call inside the body pays Cost["provider_io"] tokens of its own.
CallsPaid ==
  /\ IsFiniteSet(InProviderCall)
  /\ Cardinality(InProviderCall) \in Nat
  /\ Cardinality(InProviderCall) * Cost["provider_io"] <= TotalTokens

LEMMA CallsPayTokens == TypeOK /\ HeldByPhase /\ TokensConserved => CallsPaid
<1> SUFFICES ASSUME TypeOK, HeldByPhase, TokensConserved
             PROVE  CallsPaid
  OBVIOUS
<1> DEFINE C == Cost["provider_io"]
<1>1. C \in Nat \ {0} /\ TotalTokens \in Nat
  BY LimiterAssumption DEF TaskClass
<1>2. InProviderCall \in SUBSET Workers
  BY DEF InProviderCall
<1>3. IsFiniteSet(InProviderCall) /\ Cardinality(InProviderCall) \in Nat
  BY <1>2, LimiterAssumption, FS_Subset, FS_CardinalityType
<1>4. IsFiniteSet(1..C) /\ Cardinality(1..C) = C
  BY <1>1, FS_Interval
<1>5. Cardinality(InProviderCall \X (1..C)) = Cardinality(InProviderCall) * C
  BY <1>3, <1>4, FS_Product
<1>6. (InProviderCall \X (1..C)) \in SUBSET HeldPermits
  <2>1. ASSUME NEW v \in InProviderCall, NEW i \in 1..C
        PROVE  <<v, i>> \in HeldPermits
    <3>1. v \in Workers /\ held[v] = C /\ C <= TotalTokens
      BY DEF InProviderCall, HeldByPhase
    <3> QED BY <1>1, <3>1 DEF HeldPermits
  <2> QED BY <2>1
<1>7. Cardinality(InProviderCall \X (1..C)) <= Cardinality(HeldPermits)
  BY <1>6, PermitsFinite, FS_Subset
<1>8. Cardinality(HeldPermits) <= TotalTokens
  BY <1>1, PermitsFinite DEF TokensConserved, TypeOK
<1>9. Cardinality(InProviderCall) * C \in Nat
  BY <1>1, <1>3
<1> QED BY <1>1, <1>3, <1>5, <1>7, <1>8, <1>9, PermitsFinite DEF CallsPaid
-----------------------------------------------------------------------------
\* Initially nothing is held and nobody is inside.
LEMMA InitInv == Init => IInv
<1> SUFFICES ASSUME Init PROVE IInv
  OBVIOUS
<1>1. TotalTokens \in Nat \ {0}
  BY LimiterAssumption
<1>2. TypeOK
  BY <1>1 DEF Init, TypeOK, Phase, TaskClass
<1>3. HeldByPhase
  BY DEF Init, HeldByPhase
<1>4. TokensConserved
  <2>1. HeldPermits = {}
    BY <1>1 DEF Init, HeldPermits
  <2> QED BY <1>1, <2>1, FS_EmptySet DEF Init, TokensConserved
<1>5. GaugeExact
  <2>1. InProviderCall = {}
    BY DEF Init, InProviderCall
  <2> QED BY <2>1, FS_EmptySet DEF Init, GaugeExact
<1>6. ProviderCeiling
  BY <1>1, LimiterAssumption DEF Init, ProviderCeiling, TaskClass
<1> QED BY <1>2, <1>3, <1>4, <1>5, <1>6 DEF IInv

\* A step that moves no token keeps the books balanced.
LEMMA TokensUntouched ==
  TokensConserved /\ UNCHANGED <<sem, held>> => TokensConserved'
BY DEF TokensConserved, HeldPermits

\* A step that changes nobody's presence in the body keeps the gauge exact.
LEMMA GaugeUntouched ==
  GaugeExact /\ InProviderCall' = InProviderCall /\ UNCHANGED providerCalls => GaugeExact'
BY DEF GaugeExact

\* acquire() is called, and accepted or refused.
LEMMA RequestInv ==
  ASSUME IInv, NEW w \in Workers, NEW c \in TaskClass, Request(w, c)
  PROVE  IInv'
<1> USE DEF IInv
<1>1. TypeOK'
  <2>1. requests' \in [Workers -> Nat]
    BY DEF Request, TypeOK
  <2>2. /\ pc' \in [Workers -> Phase]
        /\ cls' \in [Workers -> TaskClass]
        /\ blocked' \in [Workers -> BOOLEAN]
    <3>1. CASE UNCHANGED <<pc, cls, blocked>>
      BY <3>1 DEF TypeOK
    <3>2. CASE /\ pc' = [pc EXCEPT ![w] = "acquiring"]
               /\ cls' = [cls EXCEPT ![w] = c]
               /\ blocked' = [blocked EXCEPT ![w] = FALSE]
      BY <3>2 DEF TypeOK, Phase
    <3> QED BY <3>1, <3>2 DEF Request
  <2> QED BY <2>1, <2>2 DEF Request, TypeOK
<1>2. HeldByPhase'
  BY LimiterAssumption DEF Request, HeldByPhase, TypeOK
<1>3. TokensConserved'
  BY TokensUntouched DEF Request
<1>4. GaugeExact'
  <2>1. InProviderCall' = InProviderCall
    BY DEF Request, InProviderCall, TypeOK
  <2> QED BY <2>1, GaugeUntouched DEF Request
<1>5. ProviderCeiling'
  BY DEF Request, ProviderCeiling
<1> QED BY <1>1, <1>2, <1>3, <1>4, <1>5

\* One token is taken, by either attempt.
LEMMA GainInv ==
  ASSUME IInv, NEW w \in Workers, pc[w] \in {"acquiring", "waiting"}, GainToken(w)
  PROVE  IInv'
<1> USE DEF IInv
<1>1. /\ held[w] \in Nat /\ sem \in Nat /\ TotalTokens \in Nat
      /\ Cost[cls[w]] \in Nat /\ held[w] < Cost[cls[w]] /\ Cost[cls[w]] <= TotalTokens
  BY LimiterAssumption DEF TypeOK, HeldByPhase
<1>2. TypeOK'
  BY <1>1 DEF GainToken, TypeOK, Phase
<1>3. HeldByPhase'
  BY <1>1 DEF GainToken, HeldByPhase, TypeOK
<1>4. TokensConserved'
  <2>1. Cardinality(HeldPermits') = Cardinality(HeldPermits) + 1
    <3>1. held[w] < TotalTokens /\ TypeOK
      BY <1>1
    <3>2. held' = [held EXCEPT ![w] = @ + 1]
      BY DEF GainToken
    <3> QED BY ONLY <3>1, <3>2, PermitGained, w \in Workers
  <2> QED BY <1>1, <2>1, PermitsFinite DEF GainToken, TokensConserved
<1>5. GaugeExact'
  <2>1. InProviderCall' = InProviderCall
    BY DEF GainToken, InProviderCall, TypeOK
  <2> QED BY <2>1, GaugeUntouched DEF GainToken
<1>6. ProviderCeiling'
  BY DEF GainToken, ProviderCeiling
<1> QED BY <1>2, <1>3, <1>4, <1>5, <1>6

\* No token is free: the thread waits, keeping what it has.
LEMMA BlockInv ==
  ASSUME IInv, NEW w \in Workers, BlockOnToken(w)
  PROVE  IInv'
<1> USE DEF IInv
<1>1. TypeOK'
  BY DEF BlockOnToken, TypeOK, Phase
<1>2. HeldByPhase'
  BY DEF BlockOnToken, HeldByPhase, TypeOK
<1>3. TokensConserved'
  BY TokensUntouched DEF BlockOnToken
<1>4. GaugeExact'
  <2>1. InProviderCall' = InProviderCall
    BY DEF BlockOnToken, InProviderCall, TypeOK
  <2> QED BY <2>1, GaugeUntouched DEF BlockOnToken
<1>5. ProviderCeiling'
  BY DEF BlockOnToken, ProviderCeiling
<1> QED BY <1>1, <1>2, <1>3, <1>4, <1>5

\* The body is entered: the gauge goes up by the caller, and the new maximum
\* is still paid for, since every caller inside holds its tokens.
LEMMA EnterInv ==
  ASSUME IInv, NEW w \in Workers, Enter(w)
  PROVE  IInv'
<1> USE DEF IInv
<1>0. providerCalls \in Nat /\ IsFiniteSet(InProviderCall)
  BY CallsPayTokens DEF GaugeExact, CallsPaid
<1>1. TypeOK'
  BY <1>0 DEF Enter, TypeOK, Phase
<1>2. HeldByPhase'
  BY DEF Enter, HeldByPhase, TypeOK
<1>3. TokensConserved'
  BY TokensUntouched DEF Enter
<1>4. GaugeExact'
  <2>1. CASE cls[w] = "provider_io"
    <3>1. InProviderCall' = InProviderCall \cup {w} /\ w \notin InProviderCall
      BY <2>1 DEF Enter, InProviderCall, TypeOK
    <3> QED BY <1>0, <2>1, <3>1, FS_AddElement DEF Enter, GaugeExact
  <2>2. CASE cls[w] # "provider_io"
    <3>1. InProviderCall' = InProviderCall
      BY <2>2 DEF Enter, InProviderCall, TypeOK
    <3> QED BY <2>2, <3>1, GaugeUntouched DEF Enter
  <2> QED BY <2>1, <2>2
<1>5. ProviderCeiling'
  <2>0. (TypeOK /\ HeldByPhase /\ TokensConserved => CallsPaid)'
    BY CallsPayTokens, PTL
  <2>1. Cardinality(InProviderCall') * Cost["provider_io"] <= TotalTokens
    BY <1>1, <1>2, <1>3, <2>0 DEF CallsPaid
  <2>2. providerCalls' * Cost["provider_io"] <= TotalTokens
    BY <1>4, <2>1 DEF GaugeExact
  <2>3. maxObserved' = maxObserved \/ maxObserved' = providerCalls'
    BY DEF Enter
  <2> QED BY <2>2, <2>3 DEF ProviderCeiling
<1> QED BY <1>1, <1>2, <1>3, <1>4, <1>5

\* The body is left, by return or by exception.
LEMMA ExitInv ==
  ASSUME IInv, NEW w \in Workers, Exit(w)
  PROVE  IInv'
<1> USE DEF IInv
<1>0. IsFiniteSet(InProviderCall)
  BY CallsPayTokens DEF CallsPaid
<1>1. TypeOK'
  BY DEF Exit, TypeOK, Phase
<1>2. HeldByPhase'
  BY LimiterAssumption DEF Exit, HeldByPhase, TypeOK
<1>3. TokensConserved'
  BY TokensUntouched DEF Exit
<1>4. GaugeExact'
  <2>1. CASE cls[w] = "provider_io"
    <3>1. InProviderCall' = InProviderCall \ {w} /\ w \in InProviderCall
      BY <2>1 DEF Exit, InProviderCall, TypeOK
    <3> QED BY <1>0, <2>1, <3>1, FS_RemoveElement DEF Exit, GaugeExact
  <2>2. CASE cls[w] # "provider_io"
    <3>1. InProviderCall' = InProviderCall
      BY <2>2 DEF Exit, InProviderCall, TypeOK
    <3>2. UNCHANGED providerCalls
      BY <2>2 DEF Exit, TypeOK
    <3> QED BY <3>1, <3>2, GaugeUntouched
  <2> QED BY <2>1, <2>2
<1>5. ProviderCeiling'
  BY DEF Exit, ProviderCeiling
<1> QED BY <1>1, <1>2, <1>3, <1>4, <1>5

\* One token is given back.
LEMMA ReleaseInv ==
  ASSUME IInv, NEW w \in Workers, ReleaseToken(w)
  PROVE  IInv'
<1> USE DEF IInv
<1>1. /\ held[w] \in 1..TotalTokens /\ sem \in Nat /\ TotalTokens \in Nat
      /\ Cost[cls[w]] \in Nat /\ held[w] <= Cost[cls[w]]
  BY LimiterAssumption DEF ReleaseToken, TypeOK, HeldByPhase
<1>2. Cardinality(HeldPermits') = Cardinality(HeldPermits) - 1
  <2>1. held[w] > 0 /\ TypeOK
    BY <1>1
  <2>2. held' = [held EXCEPT ![w] = @ - 1]
    BY DEF ReleaseToken
  <2> QED BY ONLY <2>1, <2>2, PermitReturned, w \in Workers
<1>3. TokensConserved'
  BY <1>1, <1>2, PermitsFinite DEF ReleaseToken, TokensConserved
<1>4. TypeOK'
  <2>1. (IsFiniteSet(HeldPermits) /\ Cardinality(HeldPermits) \in Nat)'
    BY PermitsFinite, PTL
  <2>2. sem' \in 0..TotalTokens
    BY <1>1, <1>3, <2>1 DEF ReleaseToken, TokensConserved
  <2> QED BY <1>1, <2>2 DEF ReleaseToken, TypeOK, Phase
<1>5. HeldByPhase'
  BY <1>1 DEF ReleaseToken, HeldByPhase, TypeOK
<1>6. GaugeExact'
  <2>1. InProviderCall' = InProviderCall
    BY DEF ReleaseToken, InProviderCall, TypeOK
  <2> QED BY <2>1, GaugeUntouched DEF ReleaseToken
<1>7. ProviderCeiling'
  BY DEF ReleaseToken, ProviderCeiling
<1> QED BY <1>3, <1>4, <1>5, <1>6, <1>7

\* Every step of the limiter preserves the inductive invariant.
LEMMA NextInv == IInv /\ [Next]_limiterVars => IInv'
<1> SUFFICES ASSUME IInv, [Next]_limiterVars PROVE IInv'
  OBVIOUS
<1>1. ASSUME NEW w \in Workers, NEW c \in TaskClass, Request(w, c) PROVE IInv'
  BY <1>1, RequestInv
<1>2. ASSUME NEW w \in Workers, TryToken(w) PROVE IInv'
  BY <1>2, GainInv DEF TryToken
<1>3. ASSUME NEW w \in Workers, BlockOnToken(w) PROVE IInv'
  BY <1>3, BlockInv
<1>4. ASSUME NEW w \in Workers, WakeWithToken(w) PROVE IInv'
  BY <1>4, GainInv DEF WakeWithToken
<1>5. ASSUME NEW w \in Workers, Enter(w) PROVE IInv'
  BY <1>5, EnterInv
<1>6. ASSUME NEW w \in Workers, Exit(w) PROVE IInv'
  BY <1>6, ExitInv
<1>7. ASSUME NEW w \in Workers, ReleaseToken(w) PROVE IInv'
  BY <1>7, ReleaseInv
<1>8. CASE UNCHANGED limiterVars
  BY <1>8 DEF limiterVars, IInv, TypeOK, HeldByPhase, TokensConserved, HeldPermits,
              GaugeExact, InProviderCall, ProviderCeiling
<1> QED
  BY <1>1, <1>2, <1>3, <1>4, <1>5, <1>6, <1>7, <1>8 DEF Next, Proceed, Finished

LEMMA InvariantHolds == Spec => []IInv
BY InitInv, NextInv, PTL DEF Spec
-----------------------------------------------------------------------------
\* The variables keep their types; in particular the semaphore's value never
\* exceeds its bound, so BoundedSemaphore.release never raises.
THEOREM TypeCorrect == Spec => []TypeOK
<1>1. IInv => TypeOK
  BY DEF IInv
<1> QED BY <1>1, InvariantHolds, PTL

\* No interleaving loses or makes up a token.
THEOREM Conservation == Spec => []TokensConserved
<1>1. IInv => TokensConserved
  BY DEF IInv
<1> QED BY <1>1, InvariantHolds, PTL

\* A call enters the body with its whole price in hand, and carries nothing out
\* of the with statement.
THEOREM PaidInFull == Spec => []HeldByPhase
<1>1. IInv => HeldByPhase
  BY DEF IInv
<1> QED BY <1>1, InvariantHolds, PTL

\* The provider gauge counts exactly the threads inside a provider call.
THEOREM GaugeIsExact == Spec => []GaugeExact
<1>1. IInv => GaugeExact
  BY DEF IInv
<1> QED BY <1>1, InvariantHolds, PTL

\* The token budget is a hard ceiling on concurrent provider calls.
THEOREM HardCeiling == Spec => []ProviderCeiling
<1>1. IInv => ProviderCeiling
  BY DEF IInv
<1> QED BY <1>1, InvariantHolds, PTL
-----------------------------------------------------------------------------
\* When the threads, each one token short of the dearest call, cannot use up
\* the capacity between them, saturation always clears: some token is free, or
\* some thread has all it needs.  The condition is on the configuration only
\* (threads, costs, capacity), and the runs show that it cannot be dropped.
MaxCost == IF Cost["provider_io"] >= Cost["local_compute"]
           THEN Cost["provider_io"] ELSE Cost["local_compute"]

AmpleCapacity == Cardinality(Workers) * (MaxCost - 1) < TotalTokens

LEMMA SomeTokenFree ==
  AmpleCapacity /\ TypeOK /\ HeldByPhase /\ TokensConserved => NoCircularWait
<1> SUFFICES ASSUME AmpleCapacity, TypeOK, HeldByPhase, TokensConserved,
                    \A w \in Workers : pc[w] \notin {"holding", "running", "releasing"}
             PROVE  sem > 0
  BY DEF NoCircularWait, TypeOK
<1> DEFINE short == 1..(MaxCost - 1)
<1>1. MaxCost \in Nat \ {0} /\ \A c \in TaskClass : Cost[c] \in Nat /\ Cost[c] <= MaxCost
  BY LimiterAssumption DEF MaxCost, TaskClass
<1>2. IsFiniteSet(short) /\ Cardinality(short) = MaxCost - 1
  BY <1>1, FS_Interval
<1>3. /\ IsFiniteSet(Workers \X short)
      /\ Cardinality(Workers \X short) = Cardinality(Workers) * (MaxCost - 1)
  BY <1>2, FS_Product, LimiterAssumption
<1>4. HeldPermits \in SUBSET (Workers \X short)
  <2>1. ASSUME NEW v \in Workers, NEW i \in 1..TotalTokens, i <= held[v]
        PROVE  i \in short
    <3>1. held[v] \in Nat /\ held[v] <= MaxCost - 1
      BY <1>1 DEF TypeOK, HeldByPhase, Phase
    <3> QED BY <1>1, <2>1, <3>1
  <2> QED BY <2>1 DEF HeldPermits
<1>5. Cardinality(HeldPermits) <= Cardinality(Workers \X short)
  BY <1>3, <1>4, FS_Subset
<1>6. Cardinality(HeldPermits) < TotalTokens
  <2>1. Cardinality(Workers \X short) < TotalTokens
    BY <1>3 DEF AmpleCapacity
  <2>2. Cardinality(Workers \X short) \in Nat
    BY <1>3, FS_CardinalityType
  <2> QED BY <1>5, <2>1, <2>2, PermitsFinite, LimiterAssumption
<1> QED BY <1>6, PermitsFinite, LimiterAssumption DEF TokensConserved, TypeOK

THEOREM NoDeadlockUnderAmpleCapacity ==
  ASSUME AmpleCapacity
  PROVE  Spec => []NoCircularWait
<1>1. IInv => NoCircularWait
  BY SomeTokenFree DEF IInv
<1> QED BY <1>1, InvariantHolds, PTL
-----------------------------------------------------------------------------
\* The tokens of the calls inside the body are among the tokens held.
AdmittedFits == Cardinality(Abstract!InUse(Admitted)) <= TotalTokens

LEMMA AdmittedWithinHeld == TypeOK /\ HeldByPhase /\ TokensConserved => AdmittedFits
<1> SUFFICES ASSUME TypeOK, HeldByPhase, TokensConserved
             PROVE  AdmittedFits
  OBVIOUS
<1>1. Abstract!InUse(Admitted) \in SUBSET HeldPermits
  <2>1. ASSUME NEW p \in Workers \X (1..TotalTokens), p[2] <= Admitted[p[1]]
        PROVE  p[2] <= held[p[1]]
    BY <2>1 DEF Admitted, HeldByPhase
  <2> QED BY <2>1 DEF Abstract!InUse, HeldPermits
<1>2. Cardinality(Abstract!InUse(Admitted)) <= Cardinality(HeldPermits)
  BY <1>1, PermitsFinite, FS_Subset
<1>3. Cardinality(Abstract!InUse(Admitted)) \in Nat
  BY <1>1, PermitsFinite, FS_Subset, FS_CardinalityType
<1>4. Cardinality(HeldPermits) <= TotalTokens
  BY PermitsFinite, LimiterAssumption DEF TokensConserved, TypeOK
<1> QED BY <1>2, <1>3, <1>4, PermitsFinite, LimiterAssumption DEF AdmittedFits

\* A step that leaves everybody where the body is concerned is a stutter.
LEMMA AdmittedSame ==
  ASSUME NEW w \in Workers, TypeOK, pc[w] # "running",
         \E x : x # "running" /\ pc' = [pc EXCEPT ![w] = x],
         \A v \in Workers : v # w => cls'[v] = cls[v]
  PROVE  Admitted' = Admitted
BY DEF Admitted, TypeOK

LEMMA AbstractStep ==
  IInv /\ IInv' /\ [Next]_limiterVars => [Abstract!Next]_Admitted
<1> SUFFICES ASSUME IInv, IInv', Next PROVE Abstract!Next \/ Admitted' = Admitted
  BY DEF limiterVars, Admitted
<1>0. TypeOK /\ HeldByPhase /\ (TypeOK /\ HeldByPhase /\ TokensConserved)'
  BY DEF IInv
<1>1. ASSUME NEW w \in Workers, NEW c \in TaskClass, Request(w, c)
      PROVE  Admitted' = Admitted
  <2>1. CASE UNCHANGED <<pc, cls>>
    BY <2>1 DEF Admitted
  <2>2. CASE pc' = [pc EXCEPT ![w] = "acquiring"] /\ cls' = [cls EXCEPT ![w] = c]
    <3>1. pc[w] # "running"
      BY <1>1 DEF Request
    <3>2. \A v \in Workers : v # w => cls'[v] = cls[v]
      BY <1>0, <2>2 DEF TypeOK
    <3> QED BY <1>0, <2>2, <3>1, <3>2, AdmittedSame
  <2> QED BY <1>1, <2>1, <2>2 DEF Request
<1>2. ASSUME NEW w \in Workers, TryToken(w) \/ WakeWithToken(w)
      PROVE  Admitted' = Admitted
  BY <1>0, <1>2, AdmittedSame DEF TryToken, WakeWithToken, GainToken
<1>3. ASSUME NEW w \in Workers, BlockOnToken(w)
      PROVE  Admitted' = Admitted
  BY <1>0, <1>3, AdmittedSame DEF BlockOnToken
<1>4. ASSUME NEW w \in Workers, Enter(w)
      PROVE  Abstract!Next
  <2>1. Cost[cls[w]] \in 1..TotalTokens
    BY <1>0, <1>4, LimiterAssumption DEF Enter, TypeOK, HeldByPhase
  <2>2. Admitted[w] = 0
    BY <1>4 DEF Admitted, Enter
  <2>3. Admitted' = [Admitted EXCEPT ![w] = Cost[cls[w]]]
    BY <1>0, <1>4 DEF Admitted, Enter, TypeOK
  <2>4. (TypeOK /\ HeldByPhase /\ TokensConserved => AdmittedFits)'
    BY AdmittedWithinHeld, PTL
  <2>5. Cardinality(Abstract!InUse(Admitted')) <= TotalTokens
    BY <1>0, <2>4 DEF AdmittedFits, Abstract!InUse
  <2>6. Abstract!Enter(w, Cost[cls[w]])
    <3>1. Abstract!Cardinality(Abstract!InUse(Admitted'))
            = Cardinality(Abstract!InUse(Admitted'))
      BY DEF Abstract!Cardinality, Cardinality
    <3> QED BY <2>1, <2>2, <2>3, <2>5, <3>1 DEF Abstract!Enter
  <2> QED BY <2>1, <2>6 DEF Abstract!Next
<1>5. ASSUME NEW w \in Workers, Exit(w)
      PROVE  Abstract!Next
  <2>1. Admitted[w] > 0
    BY <1>0, <1>5, LimiterAssumption DEF Admitted, Exit, TypeOK
  <2>2. Admitted' = [Admitted EXCEPT ![w] = 0]
    BY <1>0, <1>5 DEF Admitted, Exit, TypeOK
  <2>3. Abstract!Leave(w)
    BY <2>1, <2>2 DEF Abstract!Leave
  <2> QED BY <2>3 DEF Abstract!Next
<1>6. ASSUME NEW w \in Workers, ReleaseToken(w)
      PROVE  Admitted' = Admitted
  BY <1>0, <1>6, AdmittedSame DEF ReleaseToken
<1>7. ASSUME Finished
      PROVE  Admitted' = Admitted
  BY <1>7 DEF Finished, limiterVars, Admitted
<1> QED
  BY <1>1, <1>2, <1>3, <1>4, <1>5, <1>6, <1>7 DEF Next, Proceed

\* Taking and returning tokens one at a time implements admission in one step:
\* whatever a caller may rely on with WeightedAdmission it has with the code.
THEOREM LimiterImplementsAdmission == Spec => ImplementsAdmission
<1>1. Init => Abstract!Init
  BY DEF Init, Abstract!Init, Admitted
<1>2. IInv /\ IInv' /\ [Next]_limiterVars => [Abstract!Next]_Admitted
  BY AbstractStep
<1> QED BY <1>1, <1>2, InvariantHolds, PTL DEF Spec, ImplementsAdmission, Abstract!Spec
=============================================================================
