-------------------------- MODULE TranslationFanOut --------------------------
(***************************************************************************)
(* One translation stage: nodes/translate.py fans out the prompt variants, *)
(* each variant's adapter call fans out its chunks (ordered_parallel_map   *)
(* of parallelism.py, twice), and each chunk is a loop of provider calls   *)
(* with retries, backoff and one level of splitting.  All the calls share  *)
(* the run's limiter, taken here by what it promises (WeightedAdmission;   *)
(* ConcurrencyLimiter shows that the code implements it).                  *)
(*                                                                         *)
(* A pool thread takes the next task of its pool's queue and keeps it to   *)
(* the end, so a started task stands for its thread.                       *)
(***************************************************************************)
EXTENDS Integers, Sequences, FiniteSets, SequencesExt, FiniteSetsExt, TranslationChunking

CONSTANTS NumVariants,    \* prompt variants of the stage
          NumSegments,    \* segments of the final transcript
          MaxSegments,    \* max_chunk_segments
          TooLarge,       \* intervals whose prompt exceeds max_chunk_characters
          VariantWorkers, \* translation_candidate_max_workers, 0 when unset
          ChunkWorkers,   \* translation_chunk_max_workers, 0 when unset
          MaxAttempts,    \* RetryPolicy.max_attempts
          TotalTokens,    \* capacity of the limiter
          ProviderCost,   \* provider_io_token_cost
          MaxFaults       \* bound: provider calls that go wrong in one stage

Chunks == ChunkTranscript(NumSegments, MaxSegments, TooLarge)

Variants == 1..NumVariants

\* A task is one chunk of one variant.
Tasks == Variants \X (1..Len(Chunks))

ASSUME FanOutAssumption ==
  /\ NumVariants \in Nat \ {0}
  /\ NumSegments \in Nat
  /\ MaxSegments \in Nat \ {0}
  /\ VariantWorkers \in Nat /\ ChunkWorkers \in Nat
  /\ MaxAttempts \in Nat \ {0}
  /\ TotalTokens \in Nat /\ ProviderCost \in 1..TotalTokens
  /\ MaxFaults \in Nat

VARIABLES
  variant,    \* variant[v]: the outer task: "queued", "open", "ok", "failed"
  phase,      \* phase[t]: the chunk task: as above, or "ready", "calling", "backoff"
  work,       \* work[t]: chunks still to translate, the recursion's stack
  out,        \* out[t]: segments translated so far, in order
  attempt,    \* attempt[t]: attempts spent on the chunk on top
  calls,      \* calls[t]: provider calls the task has made
  admitted,   \* admitted[t]: limiter tokens the task holds
  text,       \* text[v]: segments of the variant's candidate
  culprit,    \* culprit[v]: chunk whose error the failed variant reports
  candidates, \* the candidates the stage stages, in order
  stage,      \* "running", "translated" or "translation_failed"
  faults      \* provider calls that went wrong so far

vars == <<variant, phase, work, out, attempt, calls, admitted, text, culprit,
          candidates, stage, faults>>

Limiter == INSTANCE WeightedAdmission WITH Workers <- Tasks

Started == {"ready", "calling", "backoff"}

Init ==
  /\ variant = [v \in Variants |-> "queued"]
  /\ phase = [t \in Tasks |-> "queued"]
  /\ work = [t \in Tasks |-> <<>>]
  /\ out = [t \in Tasks |-> <<>>]
  /\ attempt = [t \in Tasks |-> 0]
  /\ calls = [t \in Tasks |-> 0]
  /\ Limiter!Init
  /\ text = [v \in Variants |-> <<>>]
  /\ culprit = [v \in Variants |-> 0]
  /\ candidates = <<>>
  /\ stage = "running"
  /\ faults = 0
-----------------------------------------------------------------------------
\* resolve_stage_workers: an unset cap is the token budget.
StageWorkers(configured, taskCount) ==
  Max({1, Min({IF configured = 0 THEN TotalTokens ELSE configured, taskCount})})

\* An idle thread of the outer pool takes the next variant.
OpenVariant(v) ==
  /\ variant[v] = "queued"
  /\ \A u \in 1..(v - 1) : variant[u] # "queued"
  /\ Cardinality({u \in Variants : variant[u] = "open"})
       < StageWorkers(VariantWorkers, NumVariants)
  /\ variant' = [variant EXCEPT ![v] = "open"]
  /\ UNCHANGED <<phase, work, out, attempt, calls, admitted, text, culprit,
                 candidates, stage, faults>>

\* Plausible bug: once a chunk has failed the queued ones are dropped, and their
\* futures are never completed.
StartChunkUnlessFailed(t) ==
  /\ variant[t[1]] = "open"
  /\ phase[t] = "queued"
  /\ \A i \in 1..Len(Chunks) : phase[<<t[1], i>>] # "failed"
  /\ phase' = [phase EXCEPT ![t] = "ready"]
  /\ work' = [work EXCEPT ![t] = <<Chunks[t[2]]>>]
  /\ UNCHANGED <<variant, out, attempt, calls, admitted, text, culprit,
                 candidates, stage, faults>>

\* An idle thread of the variant's own pool takes the next chunk.
StartChunk(t) ==
  /\ variant[t[1]] = "open"
  /\ phase[t] = "queued"
  /\ \A i \in 1..(t[2] - 1) : phase[<<t[1], i>>] # "queued"
  /\ Cardinality({i \in 1..Len(Chunks) : phase[<<t[1], i>>] \in Started})
       < StageWorkers(ChunkWorkers, Len(Chunks))
  /\ phase' = [phase EXCEPT ![t] = "ready"]
  /\ work' = [work EXCEPT ![t] = <<Chunks[t[2]]>>]
  /\ UNCHANGED <<variant, out, attempt, calls, admitted, text, culprit,
                 candidates, stage, faults>>

\* One attempt of perform_with_retries: the limiter lets the call in.
BeginCall(t) ==
  /\ phase[t] = "ready"
  /\ Limiter!Enter(t, ProviderCost)
  /\ phase' = [phase EXCEPT ![t] = "calling"]
  /\ attempt' = [attempt EXCEPT ![t] = @ + 1]
  /\ calls' = [calls EXCEPT ![t] = @ + 1]
  /\ UNCHANGED <<variant, work, out, text, culprit, candidates, stage, faults>>

\* The call returns what the chunk needs: on to the next chunk of the stack.
Translated(t) ==
  /\ phase[t] = "calling"
  /\ Limiter!Leave(t)
  /\ out' = [out EXCEPT ![t] = @ \o Covered(Head(work[t]))]
  /\ work' = [work EXCEPT ![t] = Tail(@)]
  /\ phase' = [phase EXCEPT ![t] = IF Tail(work[t]) = <<>> THEN "ok" ELSE "ready"]
  /\ attempt' = [attempt EXCEPT ![t] = 0]
  /\ UNCHANGED <<variant, calls, text, culprit, candidates, stage, faults>>

\* The error leaves perform_with_retries (or the payload does not validate): the
\* chunk is replaced by its halves, each with attempts of its own, or the error
\* passes through every level of the recursion and the task has failed.
SplitOrFail(t, splittable) ==
  IF splittable /\ CanSplit(Head(work[t]))
  THEN /\ work' = [work EXCEPT ![t] = Split(Head(@)) \o Tail(@)]
       /\ attempt' = [attempt EXCEPT ![t] = 0]
       /\ phase' = [phase EXCEPT ![t] = "ready"]
  ELSE /\ phase' = [phase EXCEPT ![t] = "failed"]
       /\ UNCHANGED <<work, attempt>>

GoesWrong(t) ==
  /\ phase[t] = "calling"
  /\ faults < MaxFaults
  /\ faults' = faults + 1
  /\ UNCHANGED <<variant, out, calls, text, culprit, candidates, stage>>

\* Plausible bug: one attempt more than max_attempts.
RetryableErrorOnceMore(t) ==
  /\ GoesWrong(t)
  /\ Limiter!Leave(t)
  /\ \/ /\ attempt[t] <= MaxAttempts
        /\ phase' = [phase EXCEPT ![t] = "backoff"]
        /\ UNCHANGED <<work, attempt>>
     \/ /\ attempt[t] > MaxAttempts
        /\ SplitOrFail(t, TRUE)

\* Plausible bug: the limiter is held around the retry loop, backoff included.
RetryableErrorHolding(t) ==
  /\ GoesWrong(t)
  /\ \/ /\ attempt[t] < MaxAttempts
        /\ phase' = [phase EXCEPT ![t] = "backoff"]
        /\ UNCHANGED <<work, attempt, admitted>>
     \/ /\ attempt[t] >= MaxAttempts
        /\ Limiter!Leave(t)
        /\ SplitOrFail(t, TRUE)

\* A timeout, a lost connection, a retryable status: back off, or give up.
RetryableError(t) ==
  /\ GoesWrong(t)
  /\ Limiter!Leave(t)
  /\ \/ /\ attempt[t] < MaxAttempts
        /\ phase' = [phase EXCEPT ![t] = "backoff"]
        /\ UNCHANGED <<work, attempt>>
     \/ /\ attempt[t] >= MaxAttempts
        /\ SplitOrFail(t, TRUE)

\* The call succeeds with a payload that lacks or misplaces segments: no retry.
InvalidPayload(t) == GoesWrong(t) /\ Limiter!Leave(t) /\ SplitOrFail(t, TRUE)

\* Any other error: neither a retry nor a split helps.
FatalError(t) == GoesWrong(t) /\ Limiter!Leave(t) /\ SplitOrFail(t, FALSE)

\* The sleep between two attempts is over.
BackoffOver(t) ==
  /\ phase[t] = "backoff"
  /\ phase' = [phase EXCEPT ![t] = "ready"]
  /\ UNCHANGED <<variant, work, out, attempt, calls, admitted, text, culprit,
                 candidates, stage, faults>>

\* Futures complete in any order: the result list as as_completed fills it.
Arrivals(n) == SetToSeqs(1..n)

\* Plausible bug: the results stay in the order they arrived.
InArrivalOrder(arrival) == arrival

\* sorted(results, key=input_index): each goes to the place that its index has
\* among the indices.
InInputOrder(arrival) ==
  [k \in DOMAIN arrival |->
     CHOOSE x \in ToSet(arrival) : Cardinality({y \in ToSet(arrival) : y <= x}) = k]

\* The variant's thread has gathered all its chunks.  The first error in input
\* order is raised; without one the chunks are concatenated.
JoinChunks(v) ==
  /\ variant[v] = "open"
  /\ \A i \in 1..Len(Chunks) : phase[<<v, i>>] \in {"ok", "failed"}
  /\ \E arrival \in Arrivals(Len(Chunks)) :
       LET order == InInputOrder(arrival)
           errors == {k \in DOMAIN order : phase[<<v, order[k]>>] = "failed"}
       IN \/ /\ errors # {}
             /\ variant' = [variant EXCEPT ![v] = "failed"]
             /\ culprit' = [culprit EXCEPT ![v] = order[Min(errors)]]
             /\ UNCHANGED text
          \/ /\ errors = {}
             /\ variant' = [variant EXCEPT ![v] = "ok"]
             /\ text' = [text EXCEPT ![v] = FlattenSeq([k \in DOMAIN order |-> out[<<v, order[k]>>]])]
             /\ UNCHANGED culprit
  /\ UNCHANGED <<phase, work, out, attempt, calls, admitted, candidates, stage, faults>>

\* The variants that translated the transcript, in the order of the results.
Staged(order) ==
  LET kept[k \in 0..Len(order)] ==
        IF k = 0 THEN <<>>
        ELSE IF variant[order[k]] = "ok" THEN Append(kept[k - 1], order[k])
        ELSE kept[k - 1]
  IN  kept[Len(order)]

\* The node has gathered all the variants: a failed one is a routing fact, and
\* the stage fails only when nothing was staged.
JoinVariants ==
  /\ stage = "running"
  /\ \A v \in Variants : variant[v] \in {"ok", "failed"}
  /\ \E arrival \in Arrivals(NumVariants) :
       candidates' = Staged(InInputOrder(arrival))
  /\ stage' = IF candidates' = <<>> THEN "translation_failed" ELSE "translated"
  /\ UNCHANGED <<variant, phase, work, out, attempt, calls, admitted, text, culprit, faults>>

Finished == stage # "running" /\ UNCHANGED vars

Next ==
  \/ \E v \in Variants : OpenVariant(v) \/ JoinChunks(v)
  \/ \E t \in Tasks :
       \/ StartChunk(t)
       \/ BeginCall(t)
       \/ Translated(t)
       \/ RetryableError(t)
       \/ InvalidPayload(t)
       \/ FatalError(t)
       \/ BackoffOver(t)
  \/ JoinVariants
  \/ Finished

Spec == Init /\ [][Next]_vars

\* Every call to a provider ends (the HTTP client has a timeout), every sleep
\* ends, and the threads are scheduled.
FairSpec == Spec /\ WF_vars(Next)
-----------------------------------------------------------------------------
\* A candidate is the whole transcript once, in order, however its chunks were
\* interleaved, retried, split and gathered.
CandidateIsWholeTranscript ==
  \A v \in Variants : variant[v] = "ok" => text[v] = [k \in 1..NumSegments |-> k]

\* A variant fails exactly when one of its chunks did, and it reports the first
\* of them in transcript order, not the first in time; chunks of another variant
\* have no say.  The stage fails only when every variant did, and otherwise stages
\* the surviving candidates in the order of the variants.
Verdicts ==
  /\ \A v \in Variants :
       LET bad == {i \in 1..Len(Chunks) : phase[<<v, i>>] = "failed"} IN
         /\ variant[v] = "ok" => bad = {}
         /\ variant[v] = "failed" => bad # {} /\ culprit[v] = Min(bad)
  /\ stage # "running" =>
       /\ ToSet(candidates) = {v \in Variants : variant[v] = "ok"}
       /\ \A j, k \in DOMAIN candidates : j < k => candidates[j] < candidates[k]
       /\ (stage = "translation_failed") = (\A v \in Variants : variant[v] = "failed")

\* Retries and splitting multiply, but within a fixed budget: the attempts for
\* the chunk and for each of its two halves.
CallBudget == \A t \in Tasks : calls[t] <= MaxAttempts * (2 ^ (SplitLevels + 1) - 1)

\* The stage is always decided: no failure, split or exhausted retry leaves a
\* future that nobody completes, and no task that backs off keeps the tokens that
\* the others wait for.
StageDecided == <>(stage # "running")
=============================================================================
