-------------------------- MODULE TranscriptionStage --------------------------
(***************************************************************************)
(* The transcription stage of runs of one medium: nodes/transcription.py   *)
(* calls every configured service in a thread of its own and gathers what  *)
(* they return.  A service is asked step by step (adapters/assemblyai.py,  *)
(* speechmatics.py, deepgram.py): upload, create a job, poll, fetch, each  *)
(* step with the retries of adapters/common.py.  A request may fail before *)
(* or after the service has acted on it.  The AssemblyAI uploads of all    *)
(* runs of the medium share one cache entry in the blob store.             *)
(***************************************************************************)
EXTENDS Integers, Sequences, FiniteSets, SequencesExt

CONSTANTS Runs,         \* runs of one media_key, a process each
          AudioOf,      \* audio of each run; the same medium may be extracted anew
          Settings,     \* services configured for each run, in their order: the
                        \* combinations of settings considered
          MaxAttempts,  \* RetryPolicy.max_attempts
          MaxPolls,     \* RetryPolicy.max_polls
          None,         \* model value: nothing cached, no upload
          MaxFaults     \* bound: requests that go wrong

Services == {"assemblyai", "speechmatics", "deepgram"}
Audio == {AudioOf[r] : r \in Runs}

\* A call: one adapter's transcribe_with_payload in one run.
Calls == Runs \X Services

ASSUME StageAssumption ==
  /\ \A a \in Settings, r \in Runs : a[r] \in Seq(Services) \ {<<>>} /\ IsInjective(a[r])
  /\ MaxAttempts \in Nat \ {0} /\ MaxPolls \in Nat \ {0} /\ MaxFaults \in Nat
  /\ None \notin Audio

VARIABLES
  adapters, \* adapters[r]: the services the run was configured with
  call,    \* call[c]: where the call is, attempts of the operation it is in,
           \* polls without a final status, its upload, its job, requests sent
  cache,   \* the cached upload: hash of its audio and the audio the url leads to
  jobs,    \* jobs[c]: jobs the service has created for the call, in order
  stage,   \* stage[r]: "open", "staged" or "failed"
  staged,  \* staged[r]: staged candidates, by service and the call they are of
  facts,   \* facts[r]: routing facts, success or failure per adapter in order
  faults

vars == <<adapters, call, cache, jobs, stage, staged, facts, faults>>

Requests == {"upload", "create", "poll", "fetch", "listen"}
Ended == {"done", "failed"}

\* The first operation of a call.  The pool has a thread for every service, and
\* every thread may be slow to start.
First(c) ==
  IF c[2] \notin Range(adapters[c[1]]) THEN "off"
  ELSE CASE c[2] = "assemblyai" -> "cache"
         [] c[2] = "speechmatics" -> "create"
         [] c[2] = "deepgram" -> "listen"

Init ==
  /\ adapters \in Settings
  /\ call = [c \in Calls |-> [pc |-> First(c), attempt |-> 1, polls |-> 0, upload |-> None,
                              job |-> 0, sent |-> 0]]
  /\ cache = [hash |-> None, upload |-> None]
  /\ jobs = [c \in Calls |-> <<>>]
  /\ stage = [r \in Runs |-> "open"]
  /\ staged = [r \in Runs |-> {}]
  /\ facts = [r \in Runs |-> <<>>]
  /\ faults = 0
-----------------------------------------------------------------------------
At(c, step) == call[c].pc = step
AudioFor(c) == AudioOf[c[1]]

\* The next operation of a call starts with a fresh count of attempts.
Advance(c, step) == [call[c] EXCEPT !.pc = step, !.attempt = 1]
Sending(state) == [state EXCEPT !.sent = @ + 1]

\* Plausible bug: whatever is cached for the medium is used.
ReadCacheAnyAudio(c) ==
  /\ At(c, "cache")
  /\ call' = [call EXCEPT ![c] =
       IF cache.upload # None THEN [Advance(c, "create") EXCEPT !.upload = cache.upload]
                              ELSE Advance(c, "upload")]
  /\ UNCHANGED <<adapters, cache, jobs, stage, staged, facts, faults>>

\* A cached upload is used if it is of this very audio.
ReadCache(c) ==
  /\ At(c, "cache")
  /\ call' = [call EXCEPT ![c] =
       IF cache.hash = AudioFor(c) THEN [Advance(c, "create") EXCEPT !.upload = cache.upload]
                                   ELSE Advance(c, "upload")]
  /\ UNCHANGED <<adapters, cache, jobs, stage, staged, facts, faults>>

Upload(c) ==
  /\ At(c, "upload")
  /\ call' = [call EXCEPT ![c] = Sending([Advance(c, "store") EXCEPT !.upload = AudioFor(c)])]
  /\ UNCHANGED <<adapters, cache, jobs, stage, staged, facts, faults>>

StoreCache(c) ==
  /\ At(c, "store")
  /\ cache' = [hash |-> AudioFor(c), upload |-> call[c].upload]
  /\ call' = [call EXCEPT ![c] = Advance(c, "create")]
  /\ UNCHANGED <<adapters, jobs, stage, staged, facts, faults>>

\* The audio a new job is about: what was uploaded, or what the request carries.
Submitted(c) == IF c[2] = "assemblyai" THEN call[c].upload ELSE AudioFor(c)

NewJob(c) == Append(jobs[c], [audio |-> Submitted(c), state |-> "queued"])

Create(c) ==
  /\ At(c, "create")
  /\ jobs' = [jobs EXCEPT ![c] = NewJob(c)]
  /\ call' = [call EXCEPT ![c] = Sending([Advance(c, "poll") EXCEPT !.job = Len(NewJob(c))])]
  /\ UNCHANGED <<adapters, cache, stage, staged, facts, faults>>
-----------------------------------------------------------------------------
\* Plausible bug: whatever goes wrong, the call starts over.
RetriedAll(c) ==
  IF call[c].attempt < MaxAttempts
  THEN [call[c] EXCEPT !.pc = IF c[2] = "deepgram" THEN "listen" ELSE "create",
                       !.attempt = IF call[c].pc = "poll" THEN 1 ELSE @ + 1, !.polls = 0]
  ELSE [call[c] EXCEPT !.pc = "failed"]

\* perform_with_retries after a retryable error.  The retried operation is one
\* request, but for Speechmatics all the polling: it starts over.
Retried(c) ==
  IF call[c].attempt < MaxAttempts
  THEN [call[c] EXCEPT !.attempt = @ + 1, !.polls = IF c[2] = "speechmatics" THEN 0 ELSE @]
  ELSE [call[c] EXCEPT !.pc = "failed"]

\* No usable answer to a request: a network error, a timeout, one of the status
\* codes worth a retry.  The service may have created the job all the same.
RetryableError(c) ==
  /\ call[c].pc \in Requests
  /\ faults < MaxFaults
  /\ faults' = faults + 1
  /\ call' = [call EXCEPT ![c] = Sending(Retried(c))]
  /\ \/ jobs' = jobs
     \/ At(c, "create") /\ jobs' = [jobs EXCEPT ![c] = NewJob(c)]
  /\ UNCHANGED <<adapters, cache, stage, staged, facts>>

\* A refusal, a malformed answer, or an exception that is no AdapterError.
FatalError(c) ==
  /\ call[c].pc \in Requests
  /\ faults < MaxFaults
  /\ faults' = faults + 1
  /\ call' = [call EXCEPT ![c] = Sending([@ EXCEPT !.pc = "failed"])]
  /\ UNCHANGED <<adapters, cache, jobs, stage, staged, facts>>

\* Plausible bug: an answer without a final status does not count.
PollPendingUncounted(c) ==
  /\ At(c, "poll")
  /\ jobs[c][call[c].job].state = "queued"
  /\ call' = [call EXCEPT ![c] = [@ EXCEPT !.attempt = 1]]
  /\ UNCHANGED <<adapters, cache, jobs, stage, staged, facts, faults>>

\* The job is not ready; after max_polls answers of that kind the polling times
\* out, which is an error worth a retry where polling is retried.
PollPending(c) ==
  LET counted == [call[c] EXCEPT !.polls = @ + 1] IN
  /\ At(c, "poll")
  /\ jobs[c][call[c].job].state = "queued"
  /\ call' = [call EXCEPT ![c] = Sending(
       CASE counted.polls < MaxPolls /\ c[2] = "assemblyai" -> [counted EXCEPT !.attempt = 1]
         [] counted.polls < MaxPolls /\ c[2] = "speechmatics" -> counted
         [] counted.polls = MaxPolls /\ c[2] = "speechmatics" -> Retried(c)
         [] OTHER -> [counted EXCEPT !.pc = "failed"])]
  /\ UNCHANGED <<adapters, cache, jobs, stage, staged, facts, faults>>

\* Plausible bug: every status but an error counts as the end of the job.
PollAnswerLenient(c) ==
  /\ At(c, "poll")
  /\ jobs[c][call[c].job].state # "error"
  /\ \E next \in IF c[2] = "assemblyai" THEN Ended ELSE {"fetch"} :
       call' = [call EXCEPT ![c] = Sending(Advance(c, next))]
  /\ UNCHANGED <<adapters, cache, jobs, stage, staged, facts, faults>>

\* The job is over.  AssemblyAI's answer is the transcript, which has segments
\* with times or is of no use.
PollAnswer(c) ==
  /\ At(c, "poll")
  /\ jobs[c][call[c].job].state = "completed"
  /\ \E next \in IF c[2] = "assemblyai" THEN Ended ELSE {"fetch"} :
       call' = [call EXCEPT ![c] = Sending(Advance(c, next))]
  /\ UNCHANGED <<adapters, cache, jobs, stage, staged, facts, faults>>

PollError(c) ==
  /\ At(c, "poll")
  /\ jobs[c][call[c].job].state = "error"
  /\ call' = [call EXCEPT ![c] = Sending(Advance(c, "failed"))]
  /\ UNCHANGED <<adapters, cache, jobs, stage, staged, facts, faults>>

\* The transcript itself: of the finished job, or of the audio sent along.
Fetch(c) ==
  /\ At(c, "fetch") \/ At(c, "listen")
  /\ \E next \in Ended : call' = [call EXCEPT ![c] = Sending(Advance(c, next))]
  /\ UNCHANGED <<adapters, cache, jobs, stage, staged, facts, faults>>
-----------------------------------------------------------------------------
\* One result per adapter, numbered as the adapters are.
Results(r) == [i \in DOMAIN adapters[r] |-> [index |-> i, call |-> <<r, adapters[r][i]>>]]

\* Plausible bug: the results are taken as the futures complete.
GatherInArrivalOrder(arrived) == arrived

\* gather_in_input_order sorts them by their number: each goes to the place that
\* its number has among the numbers.
GatherInInputOrder(arrived) ==
  [i \in DOMAIN arrived |->
     CHOOSE x \in Range(arrived) :
       Cardinality({y \in Range(arrived) : y.index <= x.index}) = i]

\* Adapter and result are zipped; each success is staged under the adapter's
\* name, and the stage fails if there is none.
Gather(r) ==
  /\ stage[r] = "open"
  /\ \A i \in DOMAIN adapters[r] : call[<<r, adapters[r][i]>>].pc \in Ended
  /\ \E arrived \in SetToSeqs(Range(Results(r))) :
       LET gathered == GatherInInputOrder(arrived)
           Succeeded(i) == call[gathered[i].call].pc = "done"
           Kept == {i \in DOMAIN gathered : Succeeded(i)}
       IN
       /\ facts' = [facts EXCEPT ![r] =
            [i \in DOMAIN gathered |-> [service |-> adapters[r][i], ok |-> Succeeded(i)]]]
       /\ staged' = [staged EXCEPT ![r] = {<<adapters[r][i], gathered[i].call[2]>> : i \in Kept}]
       /\ stage' = [stage EXCEPT ![r] = IF Kept = {} THEN "failed" ELSE "staged"]
  /\ UNCHANGED <<adapters, call, cache, jobs, faults>>

\* The service works on a job, for as long as it likes.
JobEnds(c) ==
  /\ \E i \in DOMAIN jobs[c], state \in {"completed", "error"} :
       /\ jobs[c][i].state = "queued"
       /\ jobs' = [jobs EXCEPT ![c][i].state = state]
  /\ UNCHANGED <<adapters, call, cache, stage, staged, facts, faults>>

Step(c) ==
  \/ ReadCache(c)
  \/ Upload(c)
  \/ StoreCache(c)
  \/ Create(c)
  \/ RetryableError(c)
  \/ FatalError(c)
  \/ PollPending(c)
  \/ PollAnswer(c)
  \/ PollError(c)
  \/ Fetch(c)

Next ==
  \/ \E c \in Calls : Step(c) \/ JobEnds(c)
  \/ \E r \in Runs : Gather(r)

Spec == Init /\ [][Next]_vars

\* Every request ends in an answer, an error or a timeout, and threads go on; a
\* job need never end.
Fairness ==
  /\ \A c \in Calls : WF_vars(Step(c))
  /\ \A r \in Runs : WF_vars(Gather(r))

FairSpec == Spec /\ Fairness
-----------------------------------------------------------------------------
\* A job is about the audio of the run it was created for, whatever other runs
\* of the medium have uploaded and cached in the meantime.
OwnAudio == \A c \in Calls : \A i \in DOMAIN jobs[c] : jobs[c][i].audio = AudioFor(c)

\* A candidate is the transcript of the last job created for the call, which the
\* service has finished: never of one whose creation was lost and repeated.
CandidateOfFinishedJob ==
  \A c \in Calls : At(c, "done") /\ c[2] # "deepgram" =>
    /\ call[c].job = Len(jobs[c]) /\ call[c].job # 0
    /\ jobs[c][call[c].job].state = "completed"

\* The retries of the steps add up, and those of polling multiply, to no more
\* than this many requests; and no more jobs are paid for than there are attempts.
RequestBudget ==
  \A c \in Calls :
    /\ call[c].sent <= CASE c[2] = "deepgram" -> MaxAttempts
                         [] OTHER -> 2 * MaxAttempts + MaxPolls * MaxAttempts
    /\ Len(jobs[c]) <= MaxAttempts

\* The stage fails only if every service does, and otherwise stages the
\* transcripts of exactly those that succeeded, each under its own name, with a
\* fact for every adapter in the configured order.
StageVerdict ==
  \A r \in Runs : stage[r] # "open" =>
    LET good == {s \in Services : <<r, s>> \in Calls /\ call[<<r, s>>].pc = "done"} IN
    /\ stage[r] = "failed" <=> good = {}
    /\ staged[r] = {<<s, s>> : s \in good}
    /\ facts[r] = [i \in DOMAIN adapters[r] |->
                     [service |-> adapters[r][i], ok |-> adapters[r][i] \in good]]

\* Every stage comes to its verdict, even if a job is never finished.
StageEnds == \A r \in Runs : <>(stage[r] # "open")
=============================================================================
