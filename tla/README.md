# Verification of translation-agent

TLA+ models of the concurrency, failure handling and record keeping of
`translation-agent`, the TLC configurations that check them on small instances,
and TLAPS proofs of what matters most.  Paths such as `api.py` are relative to
`src/src/translation_agent/`.  `PROJECT.json` is the index: components, runs,
mutants, the source lines each definition stands for, hazards and theorems.

## The system

A job is one media file to transcribe and translate.  A *run* takes a job
through a LangGraph workflow in one process: several transcription services are
called in parallel, their candidates are fused into one transcript, several
prompt variants are translated in parallel, a panel reviews and adjudicates, and
the result is published.  A run that went wrong is *resumed* by a new run with a
new job; a run that waits for a human is finished by a *review resolution*, in a
process of its own.  Runs, resumes and resolutions share an SQLite database and
a blob store, and nothing else: there is no lock, lease or queue between them.

| Component | Code | State it keeps | Operations | What makes it correct |
|---|---|---|---|---|
| Concurrency limiter | `parallelism.py` 51-187 | a bounded semaphore, a gauge, a maximum and a blocked count, in memory | `acquire(task_class)` | tokens neither lost nor made up; the ceiling holds; a call that waits gets in |
| Ordered parallel map | `parallelism.py` 262-332 | a thread pool and futures | map, gather, sort | results and errors follow the input order, whatever the completion order |
| Translation chunking | `adapters/openai_translation.py` 866-1016 | none (pure) | cut a transcript, split a chunk | every segment once, in order, within the limits |
| Translation fan-out | `nodes/translate.py`, `adapters/openai_translation.py`, `adapters/common.py` | per chunk: attempts, split levels, segments so far | call, retry with backoff, split, join | a candidate is the whole transcript; retries are bounded; one failure does not fail its neighbours |
| Workflow run and resumes | `api.py`, `graph/`, `nodes/`, `publish/outputs.py` | `runs`, `historical links`, `transcript_candidates` rows; job blobs; GraphState in memory | run, resume translation, resume transcription, each node, publish | status, publication, link and decision tell the same story; resumes find what they need |
| Human review resolution | `review_flow.py` | resolution rows and blobs, approval blobs, statistics, proposals | draft, resolve | decided once; every effect follows from the one decision |
| Asset resolution | `storage/operational.py` 3080-3385, `nodes/ingest.py` | `asset_records`, `asset_context_records`, `asset_relations` | resolve twice per run, keep the context, relate a series | one medium per identifier; the media of a series find each other |
| Operational stores | `storage/` | the SQLite tables and the blob tree | selects, upserts | what its rows promise is checked where they are used |
| Transcription stage and adapters | `nodes/transcription.py`, `adapters/assemblyai.py`, `speechmatics.py`, `deepgram.py`, `common.py` | the upload cache (a blob per medium); jobs at the services | upload, create, poll, fetch, gather | the right audio, the finished job, bounded requests; one failure does not fail the stage |
| Media extraction | `adapters/ffmpeg.py` | audio blobs | run ffmpeg | - |
| Transcript synthesis | `transcript_synthesis.py`, `nodes/transcript_synthesis.py` | none | spans, selection, review, filling, assembly | everything spoken is said once, in order; the base stands |
| Reviewers | `review/prompts.py`, `nodes/review.py` | none | score, rank and report evidence | a flaw costs its candidate |
| Adjudication and review policy | `nodes/adjudicate.py`, `review/policy.py`, `review/parser.py` | none | weigh, measure disagreement, choose, escalate | a refuted candidate does not win; what is disputed goes to a human |
| Memory | `memory/staging.py`, `consolidation.py`, `nodes/memory_pipeline.py` | batches, memories, decisions | stage, drain, consolidate | what is called consolidated is stored; a run that ends leaves nothing pending of its own |
| Recall | `memory/recall.py`, `storage/` | a search index | rank | - |
| Prompts | `memory/prompt_resolution.py`, `prompt_evolution.py` | proposals, rows and files | resolve, propose, promote, roll back | evidence before promotion; the retired stays retired |
| Reference evaluation | `nodes/reference_evaluation.py` | evaluations, links, proposals | evaluate, judge, regenerate | a canary is judged by its own arm; one active proposal a medium |
| Run status | `run_status.py` | an accumulator over trace events | observe, render | - |
| Subtitles and segments | `subtitles.py`, `normalization.py` | none | cut and time text | cues keep the text and do not overlap |
| Runtime and configuration | `graph/runtime.py`, `config.py`, `errors.py`, `language_codes.py` | none | wiring, validation | - |
| Models; CLI, TUI, tracing, replay | `models/`, `cli.py`, `tui/`, `observability/`, `replay.py` | none | data contracts, presentation | - |

What is hard here: threads that hold part of what they need (the limiter);
completions out of order, retries that multiply and one failure among many (the
fan-out); processes that share tables without a lock, a copy that changes the
owner of a row, a process that dies between two writes, facts that a resume does
not inherit (runs, resumes, resolutions); a status, a link, a publication and a
decision derived from the same flags in different places; proposals and memories
that one run writes and another one reads, changes and writes back; and, in the
pure parts, rounding, caps and thresholds that meet at their edges.

## Modules

| Module | What it models |
|---|---|
| `WeightedAdmission` | abstract: a call of cost n is inside only while all costs inside add up to at most the capacity |
| `ConcurrencyLimiter` | the limiter, one action per semaphore operation; implements `WeightedAdmission` |
| `MCConcurrencyLimiter` | the default costs |
| `ConcurrencyLimiterProofs` | the limiter's theorems |
| `TranslationChunking` | the pure chunking operators |
| `TranscriptCut` | one transcript that is cut, and what its chunks are like |
| `TranslationFanOut` | a translation stage: two levels of parallel map, over `WeightedAdmission` and `TranslationChunking` |
| `ChunkingProofs` | how a transcript is cut, for any transcript; induction, recursion, sums and enumerations, for the other proofs |
| `TranslationFanOutProofs` | the fan-out's theorems, over `ChunkingProofs` |
| `TranscriptionStage` | the calls of the transcription services and the gathering of their results |
| `MCTranscriptionStage` | which services and which audio the runs have |
| `TranscriptionStageProofs` | the stage's theorems |
| `WorkflowRun` | runs and resumes over the shared stores |
| `MCWorkflowRun` | the symmetry of run ids |
| `WorkflowRunProofs` | the theorems about runs and resumes |
| `ReviewDecision` | abstract: the review of a job is decided once, a run's outcome is that decision |
| `ReviewResolution` | a review resolution, write by write; implements `ReviewDecision` |
| `MCReviewResolution` | which runs share a job |
| `ReviewResolutionProofs` | the resolution's theorems |
| `JobRuns` | runs, jobs, projects and media, which `PromptLifecycle` and `MemoryPipeline` share |
| `PromptLifecycle` | the life of a prompt proposal, across runs, evaluations and reviews |
| `MemoryPipeline` | memory batches from staging to the table of memories |
| `AssetRegistry` | how runs find out that they are about one medium |
| `MCLearning` | instances of `PromptLifecycle`, `MemoryPipeline` and `AssetRegistry`, which run one at a time |
| `LearningProofs` | the theorems about media, about batches and memories, and about proposals |
| `Enumerations` | a finite set in its order, as `sorted` gives it |
| `TranscriptSynthesis` | one transcript out of several, node by node |
| `ReviewPolicy` | how reviews become a decision, as operators |
| `Reviewers` | the reviews themselves, over `ReviewPolicy` |
| `Adjudication` | a stage of review and its decision, over `Reviewers` |
| `TimedText` | the cutting and timing of text, as operators |
| `TimedSegments` | the segments of a translation or of a transcript that are timed, over `TimedText` |
| `MCAlgorithms` | instances of chunking, synthesis, adjudication and timing |
| `AlgorithmProofs` | the theorems about chunking, synthesis, adjudication and timing, over `ChunkingProofs` |

**ConcurrencyLimiter.**  `sem` is the semaphore's value, `held[w]` the tokens of
thread `w`, `pc[w]` the place in `acquire`.  `TryToken`, `BlockOnToken` and
`WakeWithToken` are the non-blocking attempt, its failure and the blocking
acquire; a waiting thread has no precedence over a newcomer.  `Enter` and `Exit`
update the gauge under the other lock, in one step each.  `ReleaseToken` gives
the tokens back one at a time.  A thread may call with either task class, or
never.

**TranslationFanOut.**  The outer pool runs the variants, each variant has a pool
for its chunks, and all the provider calls of a run share the limiter, which is
represented by its abstract specification.  A task's `work` is the stack of the
recursion in `_translate_chunk_with_fallback`; `attempt` counts the tries for
the chunk on top.  The three ways a call goes wrong differ in whether they are
retried (`RetryableError`) and whether they lead to a split (all but
`FatalError`).  The order of arrival of futures is any permutation, at the join.

**TranscriptionStage.**  A call is one adapter in one run; `call[c].pc` is its
next request, `attempt` the tries of the operation that `perform_with_retries`
repeats, `polls` the answers without a final status.  What is repeated differs:
a single request for AssemblyAI, the whole polling for Speechmatics.  `jobs[c]`
is the service's side: a create request whose answer is lost may have created a
job, which nobody will ask about.  A job ends when it likes, or never.  `cache`
is the one blob per medium that holds AssemblyAI's last upload; uploading and
storing are two steps, and another run may store in between.  Which services a
run has is a setting, chosen in the initial state.  The limiter is left out: it
delays calls, and here a call may be delayed anywhere.  Disk errors are left out.
`TranscriptionStage` refines what `WorkflowRun` treats as one step with a
nondeterministic set of surviving services (`StageVerdict` is what connects them).

**WorkflowRun.**  A run is a process: one action per graph node, from the
launch (`RunJob`, `ResumeTranslation`, `ResumeTranscription`) to the last status
write.  What a node decides from the media or from a model's answer is a
nondeterministic choice over its outcomes: which services answer, whether the
transcript is complete or blocked, whether a variant survives, whether a human
is needed.  The node that materializes the transcript is two actions, because
another run may read what lies between its writes: `MaterializeTranscript` writes
the artifact over that of an earlier run of the job, `SaveTranscriptDecision` the
decision row.  A process that goes in between is `torn`.  Rows of `transcript_candidates` are keyed by candidate id, and a
copied candidate keeps its id: `CopyCandidate` changes the row's owner, as the
upsert in `storage/operational.py` does.  `Raises` is an exception inside the
`try` of the API call, `Dies` a process that ends anywhere, or an exception
outside it.  A process that dies loses its GraphState and keeps the stores.

**ReviewResolution.**  A call of `resolve_translation_review` is a process;
`caller[p].pc` is the write it performs next, one action per write, in the order
of the code, and `Dies` ends the call between any two of them.  `record` is the
resolution blob and `files` and `manifest` are other blobs of the *job*; `row`,
`batch`, `linked` and `status` belong to the *run*.  Two runs may have one job,
as a rerun does.  `stats` are the rows of transcript providers and of combos
(provider, model, prompt): a provider's row is read and saved before the next
one is read, the combos' rows are read together and then saved one by one, as in
the two update functions.  The combo of most reviewed spans and the provider of
their transcript stand for the spans.  Which combos are under review is fixed;
the synthetic candidate a dead call leaves behind would add one.  There is one
candidate per combo; candidates that share a combo are counted in one row.
`Racing` says whether two calls may work on one job at a time.  Nothing in the
code prevents it: `Racing = FALSE` states what an operator has to guarantee, and
the theorems depend on it.  Calls about different jobs always overlap.

**PromptLifecycle.**  `db[i]` is the row of proposal `i` and `blob[i]` its copy
among the files of the medium; they are written one after the other, by an actor
that read them before.  `todo[r]` holds the saves a run has still to make; a save
with a copy writes the file, and is then the save of the row alone, so that a run
of another process, a death or a failed write can come between any two writes.  A run selects its prompt (and makes the first proposed one a canary),
publishes, evaluates a reference, regenerates, drains its memories (and
proposes), and may wait for a review, which links the run and learns from all
the resolutions on record.  Scores are abstracted to the counts that the
thresholds compare; `links` and `resolutions` are the records they count.  The
resolution's own writes are `ReviewResolution`'s; here they are one record.

**MemoryPipeline.**  A batch is named by its stage and its job, a memory by its
batch and slot, and a dedupe key leads from one run's memory to another's.
`staged` is `state.memory_batch_ids`, which is lost with the process.  The drain
copies those of them that are not consolidated, then looks for each key and
stores each memory (`Look`, `PutNext`, `PutFails`), and then saves each batch from its copy.
The id of a job is not unique over projects: `task.names` says which jobs share one.

**AssetRegistry.**  `step[r]` is a phase, the creation of the run or its ingest,
and the next statement of `_resolve_asset_record`; `found[r]` is the record as it
was read.  A context is abstracted to the series it names; the order between
storing one's own and looking for the others is kept.

**TranscriptSynthesis.**  `node` is the next of the five graph nodes.  A text is a
sequence of words, or noise, which is text without a word.  With live reasoning
the selector, the reviewer and the adjudicator may each answer anything of
`LiveAnswers` for each span, or fail: the code's defences are what is checked.

**ReviewPolicy, Reviewers, Adjudication.**  Scores, weights and confidences are in
ten-thousandths, and products and quotients are truncated to them; the code has
floats and rounds to two or four places.  A text is a sequence of words, of which
some are entities, numbers or terms of the glossary.  `round.clean` stands for as
many further spans that all candidates translate alike, which is how long
transcripts meet the caps.  A translation has at most two candidates, as there are
two prompt variants.  `Bucket` is odd, so that no time is rounded from a half.
Evidence quotes nothing.  The prose in which a review passes on its findings is
parsed back into the same findings, and is left out.

**TimedText and TimedSegments.**  A text is a sequence of five kinds of characters.  The functions
that `normalization.py` and `subtitles.py` have in two versions are one operator
with a style.  Each loop of the code is a recursive function; those that halve texts run
as many rounds as the text has characters, which is as often as it can be cut, and their
rounds change nothing once the code's loop has ended.  `Time` times the segments of a translation or of a transcript once.  The operators were also compared with the code on random inputs while they
were written.

`MCLearning` and `MCAlgorithms` put components that share no state into one run:
`part`, chosen in the initial state, is the one that runs, and the others rest in
one of their initial states.

## Runs

| Run | Instance | What it shows |
|---|---|---|
| `limiter` | 3 threads, capacity 4, costs 2 and 1, 2 calls each | tokens conserved, ceiling kept, no circular wait, every call admitted, weighted admission implemented |
| `limiter_hold_and_wait` | 2 threads, capacity 2 | violation: two calls that hold one token each wait for ever |
| `fanout` | 2 variants of 2 chunks, 2 attempts, 5 tokens, up to 5 faults | whole candidates, right verdicts, bounded calls, stage decided |
| `transcription` | 2 runs, 2 settings, 2 attempts, 2 polls, 2 faults | jobs of the right audio, candidates of finished jobs, bounded requests, exact verdicts, every stage ends |
| `workflow_sequential` | 3 runs one at a time, 2 providers, 1 fault anywhere | outcome and publication agree, a run with an outcome has a transcript and its decision, no surviving candidate is left out |
| `workflow_concurrent` | 3 runs, 2 processes at a time, 1 provider | outcomes and publications still agree; every run ends |
| `workflow_recoverable` | 2 runs | violation: a resume takes the candidate rows away from its source |
| `workflow_completed` | 2 runs, 2 providers | violation: a resume of a degraded run completes as if nothing were missing |
| `review` | 2 calls, 3 runs of 2 jobs, 1 provider, 1 combo, 1 death, no racing | one story in every store, effects only after the record, counts bounded, decisions final, the abstract decision implemented |
| `review_racing` | 2 calls for 1 run, racing | violation: both calls decide |
| `learning` | 5 runs of 3 jobs in 2 projects, 4 workloads; 6 memory workloads; 3 runs over 66 sets of requests | what is active was earned, one active proposal a medium, the retired stays retired; consolidated means stored, a run that ends leaves nothing pending of its own, and a job nothing unless a run of it died; one medium per identifier, series related |
| `algorithms` | every transcript up to 5 segments with every limit; triples of 7 candidates, and pairs of 4 with a model; 28 translations in pairs with 3 histories, the fixed scenarios, triples of 5 transcripts; every text up to 6 characters at 7 lengths | chunks partition the transcript; a synthesis is whole, in order and stands on its base; a refuted candidate wins only where a reviewer ranks it first, what is published is undisputed; cues and segments keep text and time |

**Bounds.**  `MaxRequests` of the limiter is two calls a thread: a second call
starts from the state the first one left.  Three threads are the least number
for which a thread is overtaken while another waits.  In the fan-out, five
faults let one task fail its two attempts, split, and fail again while another
task fails once, and five tokens pay for two calls of four tasks, so calls do
queue; four segments in chunks of at most three give chunks of unequal size, one
that can be split and one that cannot.  In the transcription stage, two faults use up the
attempts of one request, or make two requests of a call one longer, and two
attempts of two polls are the least that can be confused with each other; one
setting has both runs use the shared upload, the other has a run with a polled
service and one that answers at once.  Three runs are a source and two resumes, or a rerun of the source's
job and a resume, or a resume of a resume: the shortest sequences in which a row
changes owner twice.  Concurrency is bounded by `MaxLive` and faults by
`MaxFaults`; the concurrent run has no faults, because with them every
interleaving is cut short rather than lengthened, and one provider, because
providers interact only through rows keyed by different ids.  In the review, two
calls are enough for a call and its retry, and for two calls about different
jobs; one provider and one combo are a row of each kind, and rows of one kind do
not interact.  Three runs of two jobs are a run, its rerun and a stranger.

The thresholds of `PromptLifecycle` (3 to 30 in the code) are 1 or 2, which keeps
them apart from zero and, where two of them are compared, from each other.  Five
runs are the least in which a proposal is made, tried, activated, met by a newer
canary and judged against it; a workload is a sequence of jobs, so that the
interesting sequences are checked without all the others.  Two memory runs of a
job are a run and its rerun; three let the last one meet leftovers of both.
Three requests are two that disagree and one that could join them.  Deaths, and
failed writes of proposals and memories, are not bounded: they may happen to every
run, anywhere.

Synthesis has gaps and pauses in units of the gap, the candidates pause, touch,
nest, are noise (also where all others are silent), say nothing or end in no
time, and three of them are the least
for a majority.  The translations of the adjudication lose, add and replace a
word, an entity, a number and a glossary term, one at a time and together, and
18 further clean spans are what makes a capped score tie, and
one more pair has a wordy translation lose to a terse one that is refuted.  Timing uses the code's
times and a line of two characters (16 or 42 in the code), so that six
characters need three cues and two lines; the lengths are around the gap, twice
the gap and multiples of the limits.

**Fairness.**  Limiter: `Proceed(w)` is weakly fair, the operating system runs a
thread that can run; calling in the first place is not fair.  A weakly fair
`WakeWithToken` is enough in this instance because the number of calls is
bounded, so no newcomer overtakes for ever; the code gives no stronger guarantee.
Fan-out: the stage takes steps while it can, because each provider call ends (the HTTP client
has a timeout), each sleep ends, and threads are scheduled.  Transcription:
`Step(c)` and `Gather(r)` are weakly fair for the same reasons; `JobEnds` is not
fair, so the stage ends by its own count of polls.  Workflow: `Step(r)`
is weakly fair: a process that is alive and whose node can finish goes on.
`Raises`, `Dies` and the launch of a process are never fair.  The `learning` and
`algorithms` runs check safety only and state no fairness: that a batch does not
stay pending is stated of the state in which its run has ended.

## Proofs

`ConcurrencyLimiterProofs` proves, for any finite set of threads, any capacity,
any costs and any number of calls:

* `TypeCorrect`, `Conservation`, `HardCeiling`: `TypeOK`, `TokensConserved` and
  `ProviderCeiling` of the `limiter` run, with two facts they rest on,
  `PaidInFull` and `GaugeIsExact`.  The inductive invariant is their
  conjunction with the facts that tie `held` to `pc`.  `TokensConserved` alone
  is not inductive: a release adds a token whatever the thread holds, so one
  needs that a releasing thread holds at least one (`HeldByPhase`).  The ceiling
  needs the exact gauge (`GaugeExact`), and that calls inside have paid in full.
* `NoDeadlockUnderAmpleCapacity`: `NoCircularWait`, from the assumption that the
  capacity exceeds `Cardinality(Workers) * (n - 1)` when no class costs more
  than n.  The assumption is needed: the run `limiter_hold_and_wait` is the
  smallest instance without it, and the defaults of the code are another.
* `LimiterImplementsAdmission`: token by token acquisition implements
  `WeightedAdmission` under the mapping `Admitted`, which is what lets
  `TranslationFanOut` use the abstract limiter.

`TranslationFanOutProofs` proves, for any number of variants, segments, segments in
a chunk, attempts, tokens, pool sizes and faults:

* `TranscriptIsWellCut`: the chunks of `ChunkTranscript` partition a transcript of any
  length in order, within the limit, none of them too large unless it is one segment,
  and none could take the next segment too, whatever prompts are too large (`big` is
  any set).  `Chunked` states the same of the transcripts of the `algorithms` run.
* `TypeCorrect`, `CandidateIsWhole`, `VerdictsFollowChunks`, `CallsWithinBudget`: the
  invariants of the `fanout` run; `TokensOnlyInCalls`; and `StageUsesLimiter`, that the
  stage seen through its tokens is a behaviour of `WeightedAdmission!Spec`, the
  specification `LimiterImplementsAdmission` shows the limiter to implement.

The inductive invariant says of a task (`TaskOk`) what its stack can be and what is out
then (`Remaining`): the chunk and nothing, its two halves and nothing, or the second half
and the segments of the first; a task that is over has the segments of its chunk, and
`CandidateIsWhole` joins them.  `Remaining` also bounds what the earlier pieces have cost,
without which the budget is not inductive.  A variant is settled
by all its chunks (`VariantInv`) and the stage by all its variants (`StageInv`).

The prover cannot instantiate the induction theorems of the library.  Here a property is
a set of naturals instead of an operator: that the order of the naturals is well founded
gives every nonempty set a least element (`LeastNatural`), from which follow induction and
recursion on an interval (`IntervalInduction`, `IntervalRecursion`), and from those what
`FlattenSeq` and the recursive functions of the model yield.

`TranscriptionStageProofs` proves, for any runs, settings, audio, faults and bounds on
attempts and polls: `TypeCorrect`, `JobsAreOfOwnAudio`, `CandidatesAreFinished`,
`RequestsWithinBudget` and `VerdictIsExact`, the invariants of the `transcription` run.

* `OwnAudio` needs that the url in the cache leads to the audio it names (`TypeCorrect`
  has it) and that a call about to create a job has the url of its own audio
  (`OwnUpload`), whoever stored another one in between.
* `OwnJobs`: a job is created with every attempt at most, and a call polls the last one.
* `Budget` is what has been sent by each step of each service.  AssemblyAI's retries
  come on top of the polls, Speechmatics' multiply them; the bound of `RequestBudget`
  is where the two meet.  The products are abstracted in lemmas of their own.
* `VerdictInv`: a service not configured is never asked, and the verdict is given once
  every configured service has come to its end, which makes it final.

`WorkflowRunProofs` proves, for any finite set of runs, any jobs, providers, processes at a
time and faults: `TypeCorrect`; `OutcomePublished`, that is `OutcomeMatchesPublication`;
`OutcomeLeavesTranscript`; and, with `MaxLive = 1`, `TranscriptIsOfRecord` and
`EverySurvivorUsed`, that is `TranscriptOfRecord` and `TranscriptUsesEverySurvivor`.
`TranscriptOfRecord` says of every run with an outcome that it has a transcript and a
decision, and that they agree where the job the transcript comes from is `Intact`.

* `Coherent` ties the flags of a process to the node it has come to: it is `Untried`, then
  `Tried`, and leaves the graph `Blocked` or `Adjudicated`.  `FilesFollow` says what is
  published under a job that one run has to itself, before the publication (at most the
  audio), and after it (what the flags call for); `Launched` that a resumed run has such
  a job, `UnusedJobsEmpty` and `SeedsEmptyJob` that it was empty when the run was given it.
* With one process at a time also `Describes` (a decision that does not describe its
  transcript is excused by a process that is, or went, between the two writes of the job,
  or of the job at the root of the resumes: `Rooted`), `DecidesOnce` (a resumed
  transcription saves its only decision, so that it needs no excuse), `SeedsReadDecision`
  (what a resume read of its source still stands there) and `OwnsItsRows` (no other process
  has taken the rows a process has listed).  Both statements are false of two processes: see
  below.

`ReviewResolutionProofs` proves, for any calls, runs, jobs, providers and combos
and any number of deaths, from the one assumption `Racing = FALSE`:

* `TypeCorrect` and `RecordComesFirst`: the invariants `TypeOK` and
  `EffectsFollowRecord`, the latter a property of the `review` run.  Neither is inductive: that a call
  in the middle of its writes has its record behind it is `CallFacts`, and that
  the record is still its own is true because no other call works on its job,
  `OneCallPerJob`.  The check of `Resolve` establishes the former, the assumption
  the latter.
* `DecisionNeverChanges`: `DecisionIsFinal`, because the first write of a record
  finds none and the second one repeats its decision.
* `ResolutionImplementsDecision`: `WriteRecord` is the abstract `Decide`,
  `Settle` is `Settle`, and every other step changes nothing one can see there.
* `ManifestIsTrue` and `StoryIsOne`: `ManifestNamesWhatIsThere` and `OneStory`.  The
  invariant `StoryInv` says what a call has left behind by the step it is at, under its
  job (`JobProgress`) and its run (`RunProgress`), and what stays true after a death:
  files and rows agree with the decision on record (`JobAgrees`, `RunAgrees`), and a
  settled run has all of them (`Told`).
* `NoReviewCountedTwice`: `CountedAtMostOnce`.  `CountInv` bounds a statistic by the
  reviews whose resolution has it behind it (`Counted`), and so it bounds the copies that
  calls have read; without the copies it is not inductive, as two calls about different
  jobs may read one row and save it one after the other, which loses a count and never
  makes one.

`LearningProofs` proves about prompts, for any runs, jobs, projects, media, workloads and
thresholds, and any deaths and failed writes:

* `TypeCorrect`; `ActivationIsEarned` and `PairScopeIsEarned`, that is `ActivationEarned`
  and `PairScopeEarned`, however runs overlap.  That a row is earned (`Good`) is required
  of every row, every file and every write still to do, and what was earned stays so
  because evidence only grows (`GoodStays`): a run's link is set once, and resolutions are
  appended.  The link is set once because a run that awaits or has a review has none
  (`RunInv`).  `ActivationOk` and `FeedbackOk` compare the counts of a decision with
  the evidence: the arms of an evaluation are part of it, and so are the recent reviews.
* `OneActiveAMedium` and `RetiredStay`, that is `OneActivePerMedium` and the action property
  `RetiredStaysRetired`, for workloads in which runs do not overlap between a read and its
  writes.  There one run at a time has a plan (`Serial`), and `PlanInv` says that a plan
  touches a proposal once, writes what becomes active last, after a write for each rival,
  and brings a retired proposal back only as a job's new one (`ComesBackAsNew`), whose copy
  is already proposed when the row is written.  `Unevaluated` says that the id of an
  evaluation is new when it decides.

It proves about memory, for any runs, jobs and workloads in which runs do not
overlap: `ConsolidatedStored`, that is `ConsolidatedIsStored`, if no two jobs have one id,
and `JobSettled`, that is `Settled`.  The strengthening says what a batch copied for a drain
may still lack: its memories are those on the table (`CopiesAgree`), each of them is stored
or still left in the copy unless a store has failed (`CopyStored`), every batch that the
run has staged and that is pending is among the copies (`DrainsPending`), what is pending of
a job has been staged by a run of it that is under way, unless one has died or given up its
drain (`PendingUnderWay`), and the run under way is the last one (`Latest`).  `TellsDecision` is the part about the translation batch.

It proves about media, for any runs and requests: `SeriesAreRelated`, that is
`SeriesRelated`, however runs overlap, because two media of one series are related or some
run has yet to relate one of them (`RelatedOrOwed`); and `OneMedium`, that is
`OneMediumPerIdentifier`, when they do not.  It rests on records that share no identifier
(`RecordsUnique`), on what each step knows of the record it found (`FoundNamed`, `IsCurrent`),
and on records that keep the identifiers of all the runs they were given to (`Covered`).

`AlgorithmProofs` proves, for any transcript, candidates, history, glossary and answers of a
model that are typed as the assumptions below say:

* `TranscriptIsChunked`, that is `Chunked`: also once every chunk that can be split is split.
* `TranscriptIsOrderedAndWhole` and `BaseWordsStand`, that is `OrderedAndWhole` and
  `BaseStands`.  A synthesis is a pipeline, so its invariant (`SynthesisInv`) says from
  which earlier result each later one was computed.  What carries the first theorem is that the
  spans of the table are in order and apart and cover all that the candidates say
  (`SpanTableCovers`), whatever the gap; what carries the second is that every decision without a
  model, fills and merges included, is made of words of its supporters.
* `AutomaticDecisionIsUndisputed` and `RefutedTranslationWinsOnlyRanked`, that is
  `AutomaticIsUndisputed` and `RefutedWinsOnlyRanked`.  `Brought` says what the two reviewers
  of a round may bring: typed reviews that signal what they refute; outside of the fixed
  scenarios a ranking of all candidates; of translations either no
  evidence or evidence that is `Balanced`: a candidate nobody refutes has no issue, and is
  spoken for as often as any other.
  `Settled` says what the decision then is.  The second theorem is arithmetic on three
  sums: a refutation costs more than the bounded history can give back, and the
  evidence for a candidate is no more than what is said about any other.
* `SegmentsShareTheirTime`: `PartsInTime`, the half of `PartsOfSegment` about time, for any
  texts, times, gap and limits.  However a text is cut, its parts are texts and there is one
  at least (`PartsAreTexts`), whatever the tries with shorter parts come to
  (`FittedSharesTime`); and texts share the time that there is in order, however little it
  is and however the shares are rounded (`TimedInTime`), because a part neither begins
  before the one before it has ended nor ends after the segment (`PartEndIsWithin`).
  Cues of different segments then overlap only where one segment follows another
  (`OverlapsAreOfSegments`, by induction on the segments).

The first sections of `ChunkingProofs` say what the sums, enumerations and choices of these
models compute: a sum over a set is bounded by its terms and compared term by term, an
enumeration of a set under a strict total order lists each element once and in order, and
the two are derived by induction on the subsets of a finite set, stated for a set.

**Assumptions.**  The constants are assumed to be what their comments say: sets of runs and
jobs are finite; ids are naturals where runs are ordered; names for nothing are outside the
sets; workloads and requests are about runs and jobs; thresholds and bounds are naturals; a
call costs no more tokens than there are; candidates, histories, glossaries and a model's
answers have the types of the code's models; and the segments of a transcript under
translation have distinct span ids, because the reviewers keep them in a map by that id
(`review/prompts.py:1059`) and `round.source` is what the map keeps.  They are the `ASSUME`s
of the modules, which TLC evaluates in every run.  `Racing = FALSE`, `MaxLive = 1`, and "do
not overlap" are not assumptions about the code: they delimit what the theorem says, and the
list below has what happens outside of them.

**Only model-checked.**  The liveness properties: fairness and ENABLED are beyond the prover.
Of the invariants, the half of `PartsOfSegment` about text (`PartsOfText`): that nothing
a segment says is lost, and that no line is too long, are not proved; and its bounds on
durations are not true of arbitrary constants, among which a segment may have more
characters than milliseconds.  The proofs assume
nothing of the bounds of the runs; in turn the branch of `Request` that refuses a call whose
cost exceeds the capacity is not taken in the `limiter` run, and the proofs cover it.

## Where code and documents disagree

Shown by runs: see `findings` in `PROJECT.json`.  Met while modelling, without a
run of their own:

* `TA_GLOBAL_PARALLEL_TOKENS=1` is accepted (`config.py:91`), the default cost
  of a provider call is 2, and `parallelism.py:102` raises for it, where
  `README.md:384` promises that work is never "failed fast".
* `TA_ADAPTER_POLL_ATTEMPTS` is the "max provider polling attempts"
  (`README.md:355`), but Speechmatics retries the whole polling
  (`adapters/speechmatics.py:76`), and running out of polls is a retryable error
  (`adapters/common.py:270`): it polls up to attempts times as often.
  `RequestBudget` has the bound that holds.
* A blocked transcript goes to finalization by `graph/routing.py:13`, a route
  that `docs/workflow.md:145` does not list.
* The link of a `transcript_failed` run names a translation that nobody
  published (`api.py:1841`): it looks at the translation's failure and at human
  review only.
* A translation resume of a run with a blocked transcript translates and
  publishes it (`api.py:1444`): the resumed state does not carry the block.
* A rerun of the same job leaves the previous `published/translation.json` in
  place when it does not publish one (`publish/outputs.py:109`).
* Two concurrent transcription resumes of one source copy the same candidate
  rows (`storage/operational.py:187`), and the one that copies first builds its
  transcript without them.  `TranscriptUsesEverySurvivor` is checked for
  processes that run one after another.
* A translation resume reads its source's decision before its transcript
  (`api.py:532`); a rerun of the source's job in between leaves a pair that does
  not match.  `TranscriptOfRecord` is likewise checked one after another.
* Even one after another the pair may not match.  A node writes the transcript
  (`nodes/transcript_synthesis.py:190`) before its decision (245).  A rerun that
  raises or dies in between leaves its transcript, say a blocked one, under the
  decision of the run before it; a translation resume of that run, which was recorded
  as completed, reads the old decision and copies the new transcript
  (`api.py:531`, 1434).  `TranscriptOfRecord` is not claimed of such runs: without
  its guard `Intact` the sequential run finds this trace.
* A resolution does not republish the transcript, although
  `docs/workflow.md:306` lists `published/transcript.json` among what a
  human-approved review republishes: the state it publishes
  (`review_flow.py:2647`) has no `final_transcript_ref`, so the new manifest and
  the run's output no longer name the transcript, which is still there.
* A resolution that dies after its record leaves the run waiting for a human,
  and every further call is refused (`review_flow.py:392`).
* The resolution is filed under the job, so a rerun of a reviewed job that needs
  a human again cannot be resolved.


Prompts, memory and media (`PromptLifecycle`, `MemoryPipeline`, `AssetRegistry`
reach all of these; the properties say which executions they leave out):

* A rerun of a job proposes the job's proposal again, whatever has become of it:
  an active or rolled back one is proposed anew (`nodes/memory_pipeline.py:173`).
* The id of a feedback proposal names the model, the variant and the version, but
  no project (`review_flow.py:2947`): the first proposal of one project replaces
  the row of another, rationale included.
* The runs that count for a canary are those of its medium in canary mode; they
  are not tied to the proposal that was the canary then.
* The resolver saves the row it has read: a run that overlaps an evaluation can
  undo its judgement (`memory/prompt_resolution.py:318`).
* `docs/architecture.md:260` has proposals come from the memory pipeline;
  evaluations and human reviews propose as well.
* A drain looks only at what its own run has staged (`nodes/memory_pipeline.py:93`).
  When a run stages its translation batch and dies, and the rerun skips the
  translation, the batch stays pending for ever.  `Settled` leaves such jobs to
  what the last run has staged itself.
* A process that dies after the batch is saved as consolidated and before its
  proposal is saved loses the proposal: the batch is not drained again.
* A batch of an evaluation that could not be stored stays pending: only the
  evaluation that staged it consolidates it.
* Dedupe keys use the id of the job without its project (`memory/staging.py:55`,
  75, 84): with the same job id in two projects, the memory of one stands for both.
* Overlapping reruns of a job save over each other's batch, and a failing save of
  the status "failed" abandons the rest of the drain.
* The resolver of media reads a record and saves it without a transaction: two
  runs with one asset id and different files take each other's fingerprint away.
  An ingest saves the context it has read before.

Transcripts and their synthesis:

* A candidate with overlapping segments in one span fails the whole node
  (`models/transcript.py:91`).
* A span in which the base has no word characters is given up, although another
  candidate has words there, and the transcript is blocked.
* With live reasoning, corrected decisions are applied without the check against
  the candidates that the docstring promises; a reviewer that fails leaves the
  uncovered spans unfilled, and one with unreadable issues raises.
* Candidates that say nothing give a "ready" transcript without segments.
* The transcript review nodes (`nodes/review.py`) are exported and tested, but the
  graph has no edge to them.

Review and adjudication:

* The scenario `translation_human_review` ("No candidate is safe enough for
  automatic publication", `review/prompts.py:925`) is published: the stronger
  adjudicator settles it.
* A complete translation counts as "added content" when the other candidate is
  three words shorter.
* The score of a span is an average capped at .99 (`review/prompts.py:666`): in a
  transcript of twenty spans, one wrong number costs nothing, and the candidate
  with the smaller id wins.
* The penalty for added words starts below the length that counts as added
  content: a translation that is wordy without being refuted can score less than a
  terse one that misses a glossary term, which then wins.
  `RefutedWinsOnlyRanked` states what holds.
* Segments with one rounded id replace each other in the map of spans
  (`review/prompts.py:1026`).
* When all candidates have the same wrong number nothing contradicts it, and it
  is published.

Subtitles:

* A segment with more cues than its time has gaps for gets cues of no time
  (`subtitles.py:117`), and a text of two characters that lasts too long is split
  into a character and a lone stop.
* A line without a blank is broken inside a word at the limit, and may exceed the
  limit by its blanks.
* A blank segment, or one that begins before its predecessor ends, fails the
  publication of the whole run (`publish/outputs.py:53`).  `PartsOfSegment` says
  that these are the only reasons.

## Not modelled

Not modelled because there is no state or control to check: prompt wording,
data contracts, the CLI and TUI, the run status display, tracing and replay,
media tools, HTTP encoding, the parsing of provider payloads, the SQL of the
stores, the ranking of recalled memories by words and embeddings.

Partly modelled: in `WorkflowRun`, publication is one step, the memory drain after
it publishes the same state again, which changes nothing, and what a node decides
is any of its outcomes (the nodes' own modules say which).  Of the human review,
the page of spans that a reviewer sees is left out.  Of the reference evaluation,
the scores, the reading of the reference file and the regenerated text.

What remains, in this order: that the parts of a segment say what it says, for any text;
and the two statements about media and memories when runs do overlap, which hold in part.
