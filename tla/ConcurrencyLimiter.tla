------------------------- MODULE ConcurrencyLimiter -------------------------
(***************************************************************************)
(* GlobalConcurrencyLimiter (parallelism.py): the one limiter of a run,    *)
(* shared by every worker thread of every fan-out stage.  acquire(tokens)  *)
(* takes its tokens from a BoundedSemaphore one at a time, keeping the     *)
(* ones it has while it waits for the next, so each semaphore operation is *)
(* a step of its own here.  The counters behind the second lock change in  *)
(* one step each.                                                          *)
(***************************************************************************)
EXTENDS Integers, FiniteSets

CONSTANTS Workers,      \* the threads that call acquire()
          TotalTokens,  \* global_max_parallel_tokens
          Cost,         \* RuntimeParallelismPolicy.token_cost, by task class
          MaxRequests   \* bound: acquisitions one thread attempts

TaskClass == {"provider_io", "local_compute"}

ASSUME LimiterAssumption ==
  /\ IsFiniteSet(Workers)
  /\ TotalTokens \in Nat \ {0}
  /\ Cost \in [TaskClass -> Nat \ {0}]
  /\ MaxRequests \in Nat

VARIABLES
  sem,           \* value of the semaphore: tokens nobody holds
  pc,            \* where each thread is in acquire()
  cls,           \* task class of the thread's current (or last) call
  held,          \* tokens the thread holds
  blocked,       \* the local flag of acquire(): this call found no token once
  blockedCount,  \* _blocked_count
  providerCalls, \* _current_provider_calls
  maxObserved,   \* _max_concurrent_provider_calls_observed
  requests       \* acquisitions attempted so far, by thread

limiterVars == <<sem, pc, cls, held, blocked, blockedCount, providerCalls,
                 maxObserved, requests>>

Phase == {"idle", "acquiring", "waiting", "holding", "running", "releasing"}

TypeOK ==
  /\ sem \in 0..TotalTokens
  /\ pc \in [Workers -> Phase]
  /\ cls \in [Workers -> TaskClass]
  /\ held \in [Workers -> 0..TotalTokens]
  /\ blocked \in [Workers -> BOOLEAN]
  /\ blockedCount \in Nat
  /\ providerCalls \in Int
  /\ maxObserved \in Nat
  /\ requests \in [Workers -> Nat]

Init ==
  /\ sem = TotalTokens
  /\ pc = [w \in Workers |-> "idle"]
  /\ cls = [w \in Workers |-> "local_compute"]
  /\ held = [w \in Workers |-> 0]
  /\ blocked = [w \in Workers |-> FALSE]
  /\ blockedCount = 0
  /\ providerCalls = 0
  /\ maxObserved = 0
  /\ requests = [w \in Workers |-> 0]
-----------------------------------------------------------------------------
\* acquire() raises ValueError for a call that costs more than the capacity,
\* and such a call never touches the semaphore.
Request(w, c) ==
  /\ pc[w] = "idle"
  /\ requests' = [requests EXCEPT ![w] = @ + 1]
  /\ IF Cost[c] > TotalTokens
     THEN UNCHANGED <<pc, cls, blocked>>
     ELSE /\ pc' = [pc EXCEPT ![w] = "acquiring"]
          /\ cls' = [cls EXCEPT ![w] = c]
          /\ blocked' = [blocked EXCEPT ![w] = FALSE]
  /\ UNCHANGED <<sem, held, blockedCount, providerCalls, maxObserved>>

\* Plausible bug: the loop stops one token early (range(tokens - 1)).
GainTokenShort(w) ==
  /\ sem > 0
  /\ sem' = sem - 1
  /\ held' = [held EXCEPT ![w] = @ + 1]
  /\ pc' = [pc EXCEPT ![w] =
              IF held[w] + 1 >= Cost[cls[w]] - 1 THEN "holding" ELSE "acquiring"]
  /\ UNCHANGED <<cls, blocked, blockedCount, providerCalls, maxObserved, requests>>

\* One more token for w; the loop ends when the call has all of them.
GainToken(w) ==
  /\ sem > 0
  /\ sem' = sem - 1
  /\ held' = [held EXCEPT ![w] = @ + 1]
  /\ pc' = [pc EXCEPT ![w] =
              IF held[w] + 1 = Cost[cls[w]] THEN "holding" ELSE "acquiring"]
  /\ UNCHANGED <<cls, blocked, blockedCount, providerCalls, maxObserved, requests>>

\* The non-blocking attempt succeeds.
TryToken(w) == pc[w] = "acquiring" /\ GainToken(w)

\* The non-blocking attempt fails: blocked = True, then the blocking acquire.
BlockOnToken(w) ==
  /\ pc[w] = "acquiring"
  /\ sem = 0
  /\ blocked' = [blocked EXCEPT ![w] = TRUE]
  /\ pc' = [pc EXCEPT ![w] = "waiting"]
  /\ UNCHANGED <<sem, cls, held, blockedCount, providerCalls, maxObserved, requests>>

\* The blocking acquire returns.  Nothing orders it before a newcomer's
\* non-blocking attempt on the same token.
WakeWithToken(w) == pc[w] = "waiting" /\ GainToken(w)

\* All the tokens are held: the counters, then the body of the with statement.
Enter(w) ==
  /\ pc[w] = "holding"
  /\ pc' = [pc EXCEPT ![w] = "running"]
  /\ blockedCount' = blockedCount + (IF blocked[w] THEN 1 ELSE 0)
  /\ IF cls[w] = "provider_io"
     THEN /\ providerCalls' = providerCalls + 1
          /\ maxObserved' = IF providerCalls + 1 > maxObserved
                            THEN providerCalls + 1 ELSE maxObserved
     ELSE UNCHANGED <<providerCalls, maxObserved>>
  /\ UNCHANGED <<sem, cls, held, blocked, requests>>

\* The body returned or raised: the finally block takes the gauge down first.
Exit(w) ==
  /\ pc[w] = "running"
  /\ pc' = [pc EXCEPT ![w] = "releasing"]
  /\ providerCalls' = providerCalls - (IF cls[w] = "provider_io" THEN 1 ELSE 0)
  /\ UNCHANGED <<sem, cls, held, blocked, blockedCount, maxObserved, requests>>

\* Plausible bug: a single release() for a call that took several tokens.
ReleaseOnce(w) ==
  /\ pc[w] = "releasing"
  /\ sem' = sem + 1
  /\ held' = [held EXCEPT ![w] = 0]
  /\ pc' = [pc EXCEPT ![w] = "idle"]
  /\ UNCHANGED <<cls, blocked, blockedCount, providerCalls, maxObserved, requests>>

\* Plausible bug: one release() too many (range(tokens + 1)).
ReleaseExtra(w) ==
  /\ pc[w] = "releasing"
  /\ sem' = sem + (IF held[w] = 1 THEN 2 ELSE 1)
  /\ held' = [held EXCEPT ![w] = @ - 1]
  /\ pc' = [pc EXCEPT ![w] = IF held[w] = 1 THEN "idle" ELSE "releasing"]
  /\ UNCHANGED <<cls, blocked, blockedCount, providerCalls, maxObserved, requests>>

\* Plausible bug: the finally block takes the gauge down and releases nothing.
ReleaseNothing(w) ==
  /\ pc[w] = "releasing"
  /\ held' = [held EXCEPT ![w] = 0]
  /\ pc' = [pc EXCEPT ![w] = "idle"]
  /\ UNCHANGED <<sem, cls, blocked, blockedCount, providerCalls, maxObserved, requests>>

\* ... and gives the tokens back one by one.
ReleaseToken(w) ==
  /\ pc[w] = "releasing"
  /\ sem' = sem + 1
  /\ held' = [held EXCEPT ![w] = @ - 1]
  /\ pc' = [pc EXCEPT ![w] = IF held[w] = 1 THEN "idle" ELSE "releasing"]
  /\ UNCHANGED <<cls, blocked, blockedCount, providerCalls, maxObserved, requests>>

\* What w does once it has called acquire(), in program order.
Proceed(w) ==
  \/ TryToken(w)
  \/ BlockOnToken(w)
  \/ WakeWithToken(w)
  \/ Enter(w)
  \/ Exit(w)
  \/ ReleaseToken(w)

\* Every thread has made all its calls.
Finished ==
  /\ \A w \in Workers : pc[w] = "idle" /\ requests[w] = MaxRequests
  /\ UNCHANGED limiterVars

Next ==
  \/ \E w \in Workers, c \in TaskClass : requests[w] < MaxRequests /\ Request(w, c)
  \/ \E w \in Workers : Proceed(w)
  \/ Finished

Spec == Init /\ [][Next]_limiterVars

\* The operating system runs every thread that can run; a thread need not call.
FairSpec == Spec /\ \A w \in Workers : WF_limiterVars(Proceed(w))
-----------------------------------------------------------------------------
\* The tokens in use, each named by its holder and an index.
HeldPermits == {p \in Workers \X (1..TotalTokens) : p[2] <= held[p[1]]}

\* No token is lost or made up by any interleaving of acquisitions and
\* releases: the semaphore's value and the tokens held always add up to the
\* capacity, so a finished release always restores what was taken and
\* BoundedSemaphore.release never raises.
TokensConserved == sem + Cardinality(HeldPermits) = TotalTokens

\* A thread never carries tokens outside a call, and never enters the body with
\* fewer than its class costs: what it holds always fits where it is.
HeldByPhase ==
  \A w \in Workers :
    /\ pc[w] = "idle" => held[w] = 0
    /\ pc[w] # "idle" => Cost[cls[w]] <= TotalTokens
    /\ pc[w] \in {"acquiring", "waiting"} => held[w] < Cost[cls[w]]
    /\ pc[w] \in {"holding", "running"} => held[w] = Cost[cls[w]]
    /\ pc[w] = "releasing" => held[w] \in 1..Cost[cls[w]]

InProviderCall == {w \in Workers : pc[w] = "running" /\ cls[w] = "provider_io"}

\* The published gauge is exact between any two steps: it counts the threads
\* that are inside a provider call, through success, error and waiting.
GaugeExact == providerCalls = Cardinality(InProviderCall)

\* TA_GLOBAL_PARALLEL_TOKENS is a hard ceiling: not even the largest number
\* of concurrent provider calls ever recorded exceeds what the tokens pay for.
ProviderCeiling == maxObserved * Cost["provider_io"] <= TotalTokens

\* Hold-and-wait never closes into a circle: while some thread still wants a
\* token, a token is free or some thread has all it needs and will give back.
NoCircularWait ==
  (\E w \in Workers : pc[w] \in {"acquiring", "waiting"})
    => \/ sem > 0
       \/ \E w \in Workers : pc[w] \in {"holding", "running", "releasing"}

\* "Saturation uses queue-and-wait backpressure.  Work is delayed until tokens
\* free up": a call that got into acquire() is eventually admitted.
WorkEventuallyAdmitted ==
  \A w \in Workers : (pc[w] = "acquiring") ~> (pc[w] = "running")
-----------------------------------------------------------------------------
\* The limiter implements weighted admission: a call counts from the moment it
\* enters the body to the moment it leaves it.
Admitted == [w \in Workers |-> IF pc[w] = "running" THEN Cost[cls[w]] ELSE 0]

Abstract == INSTANCE WeightedAdmission WITH admitted <- Admitted

\* Token by token acquisition is admission in one step, as a caller sees it.
ImplementsAdmission == Abstract!Spec
=============================================================================
