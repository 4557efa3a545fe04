----------------------------- MODULE WorkflowRun -----------------------------
(***************************************************************************)
(* Runs of the translation workflow (api.py, graph/, nodes/): fresh runs   *)
(* and the two kinds of resumed run, each a process of its own, over the   *)
(* operational store and the blob store they all share.                    *)
(*                                                                         *)
(* A run's artifacts are filed under its job; a resumed run gets a new job *)
(* and copies what it needs from its source's.  Transcript candidates are  *)
(* rows of one table keyed by candidate id, and a copy keeps the id: see   *)
(* CopyCandidate.                                                          *)
(***************************************************************************)
EXTENDS Integers, FiniteSets

CONSTANTS Runs,       \* run ids; a resumed run's job is named by its run id
          FreshJobs,  \* job ids that fresh runs are asked for
          Providers,  \* the configured transcription providers
          NoJob,      \* model value: no job, no run
          MaxLive,    \* bound: processes at one time
          MaxFaults   \* bound: nodes that raise, crashes, lost status writes

Jobs == FreshJobs \union Runs

\* A candidate id is built from the job it was made for and the provider.
Candidates == Jobs \X Providers

ASSUME WorkflowAssumption ==
  /\ NoJob \notin Jobs
  /\ FreshJobs \cap Runs = {}
  /\ IsFiniteSet(Runs)
  /\ MaxLive \in Nat \ {0}
  /\ MaxFaults \in Nat

VARIABLES
  run,    \* run[r]: its row in the runs table and its historical link
  proc,   \* proc[r]: the process, its GraphState included
  rows,   \* rows[c]: job that owns row c of transcript_candidates
  store,  \* store[j]: the job's transcript decision and artifacts
  faults

vars == <<run, proc, rows, store, faults>>

Completed == {"completed", "completed_with_degraded_transcription"}
Terminal == Completed \union {"failed", "transcript_failed", "translation_failed",
                              "human_review_required"}
\* The nodes, "decide" being the second half of the one that materializes.
Nodes == {"ingest", "extract_audio", "fanout", "normalize", "spans", "materialize",
          "decide", "memory", "translate", "review", "adjudicate", "finalize", "link"}
Live == Nodes \union {"seeding", "start", "record"}

IdleProc == [pc |-> "off", todo |-> {}, adapters |-> {}, staged |-> {}, ids |-> {},
             basis |-> {}, transcript |-> "none", decision |-> "none",
             transcriptFailed |-> FALSE, translations |-> FALSE, decided |-> FALSE,
             winner |-> FALSE, humanReview |-> FALSE, translationFailed |-> FALSE,
             degraded |-> FALSE]

Init ==
  /\ run = [r \in Runs |-> [status |-> "none", kind |-> "none", job |-> NoJob, root |-> NoJob,
                            source |-> NoJob, failed |-> {}, linked |-> FALSE]]
  /\ proc = [r \in Runs |-> IdleProc]
  /\ rows = [c \in Candidates |-> NoJob]
  /\ store = [j \in Jobs |-> [transcript |-> "none", decision |-> "none", files |-> {}]]
  /\ faults = 0
-----------------------------------------------------------------------------
\* Shorthands: the run's job, its state, its rows.
Job(r) == run[r].job
Rows(j) == {c \in Candidates : rows[c] = j}

At(r, where) == proc[r].pc = where
Go(r, where) == proc' = [proc EXCEPT ![r].pc = where]

\* The process is gone, its state with it.  One that goes between the two writes
\* of its materialization leaves them torn: a transcript without its decision.
Gone(r, how) ==
  LET left == IF At(r, "decide") THEN "torn" ELSE how IN
  proc' = [proc EXCEPT ![r] = [IdleProc EXCEPT !.pc = left]]

\* A new process may start.
CanLaunch(r) ==
  /\ run[r].status = "none"
  /\ Cardinality({s \in Runs : proc[s].pc \in Live}) < MaxLive

\* run_job up to the try: the run is recorded as bootstrapped, with a bare link.
RunJob(r, j) ==
  /\ CanLaunch(r)
  /\ run' = [run EXCEPT ![r] = [@ EXCEPT !.status = "bootstrapped", !.kind = "fresh",
                                         !.job = j, !.root = j]]
  /\ proc' = [proc EXCEPT ![r] = [@ EXCEPT !.pc = "start", !.adapters = Providers]]
  /\ UNCHANGED <<rows, store, faults>>

\* resume_translation up to the seeding: refused without transcript candidates.
\* The decision and the candidates are read here, and copied later.
ResumeTranslation(r, s) ==
  /\ CanLaunch(r)
  /\ run[s].status # "none"
  /\ Rows(Job(s)) # {}
  /\ run' = [run EXCEPT ![r] = [@ EXCEPT !.status = "bootstrapped", !.kind = "translation",
                                         !.job = r, !.root = run[s].root, !.source = s]]
  /\ proc' = [proc EXCEPT ![r] = [@ EXCEPT !.pc = "seeding", !.todo = Rows(Job(s)),
                                           !.decision = store[Job(s)].decision]]
  /\ UNCHANGED <<rows, store, faults>>

\* resume_transcription: the providers asked for, else those that failed, else
\* refused.  Without the source's audio the seeding raises, after the new run
\* has been recorded and outside the try: the run stays bootstrapped.
ResumeTranscription(r, s, requested) ==
  LET retry == IF requested # {} THEN requested ELSE run[s].failed IN
  /\ CanLaunch(r)
  /\ run[s].status # "none"
  /\ retry # {}
  /\ run' = [run EXCEPT ![r] = [@ EXCEPT !.status = "bootstrapped", !.kind = "transcription",
                                         !.job = r, !.root = run[s].root, !.source = s]]
  /\ IF "audio" \in store[Job(s)].files
     THEN /\ proc' = [proc EXCEPT ![r] = [@ EXCEPT !.pc = "seeding", !.adapters = retry,
                        !.todo = {c \in Rows(Job(s)) : c[2] \notin retry}]]
          /\ store' = [store EXCEPT ![r].files = {"audio"}]
     ELSE Gone(r, "dead") /\ UNCHANGED store
  /\ UNCHANGED <<rows, faults>>

\* Plausible bug: the copy is saved under the job it was read from.
CopyCandidateInPlace(r) ==
  /\ At(r, "seeding")
  /\ \E c \in proc[r].todo :
       proc' = [proc EXCEPT ![r].todo = @ \ {c}, ![r].ids = @ \union {c}]
  /\ UNCHANGED <<run, rows, store, faults>>

\* One candidate of the source is saved under the new job.  The copy keeps its
\* candidate id, and saving is an upsert on that id: the row changes owner.
CopyCandidate(r) ==
  /\ At(r, "seeding")
  /\ \E c \in proc[r].todo :
       /\ rows' = [rows EXCEPT ![c] = Job(r)]
       /\ proc' = [proc EXCEPT ![r].todo = @ \ {c}, ![r].ids = @ \union {c}]
  /\ UNCHANGED <<run, store, faults>>

\* Plausible bug: the transcript is copied and its decision is not.
FinishSeedingNoDecision(r) ==
  /\ At(r, "seeding")
  /\ proc[r].todo = {}
  /\ IF run[r].kind = "transcription"
     THEN Go(r, "start") /\ UNCHANGED store
     ELSE LET copied == store[Job(run[r].source)].transcript IN
          /\ store' = [store EXCEPT ![r].transcript = copied]
          /\ proc' = [proc EXCEPT ![r].pc = "start", ![r].transcript = copied]
  /\ UNCHANGED <<run, rows, faults>>

\* The rest of the seeding.  A translation resume copies the transcript and the
\* decision; it needs the transcript or a single candidate.  (The decision is the
\* last of its writes, and nobody copies a transcript that has no decision.)
FinishSeeding(r) ==
  LET from == store[Job(run[r].source)]
      copied == IF proc[r].decision = "none" THEN "none" ELSE from.transcript
  IN
  /\ At(r, "seeding")
  /\ proc[r].todo = {}
  /\ \/ /\ run[r].kind = "transcription"
        /\ Go(r, "start")
        /\ UNCHANGED store
     \/ /\ run[r].kind = "translation"
        /\ copied # "none" \/ Cardinality(proc[r].ids) = 1
        /\ store' = [store EXCEPT ![r].transcript = copied,
                                  ![r].decision = proc[r].decision]
        /\ proc' = [proc EXCEPT ![r].pc = "start", ![r].transcript = copied]
     \/ /\ run[r].kind = "translation"
        /\ copied = "none" /\ Cardinality(proc[r].ids) # 1
        /\ Gone(r, "dead")
        /\ UNCHANGED store
  /\ UNCHANGED <<run, rows, faults>>

\* build_runtime, then "running" and the first node of the run's graph.
Start(r) ==
  /\ At(r, "start")
  /\ run' = [run EXCEPT ![r].status = "running"]
  /\ Go(r, CASE run[r].kind = "fresh" -> "ingest"
             [] run[r].kind = "transcription" -> "fanout"
             [] run[r].kind = "translation" -> "translate")
  /\ UNCHANGED <<rows, store, faults>>
-----------------------------------------------------------------------------
\* The except clause of the API call: the run is recorded as failed.
Fails(r) ==
  /\ Gone(r, "failed")
  /\ run' = [run EXCEPT ![r].status = "failed"]

Ingest(r) ==
  /\ At(r, "ingest")
  /\ Go(r, "extract_audio")
  /\ UNCHANGED <<run, rows, store, faults>>

ExtractAudio(r) ==
  /\ At(r, "extract_audio")
  /\ store' = [store EXCEPT ![Job(r)].files = @ \union {"audio"}]
  /\ Go(r, "fanout")
  /\ UNCHANGED <<run, rows, faults>>

\* Any set of the adapters answers; when none does the node raises, even if
\* candidates were copied from the source.  The failures are kept for a resume.
FanoutTranscription(r) ==
  /\ At(r, "fanout")
  /\ \E ok \in SUBSET proc[r].adapters :
       /\ run' = [run EXCEPT ![r].failed = proc[r].adapters \ ok,
                             ![r].status = IF ok = {} THEN "failed" ELSE @]
       /\ \/ ok = {} /\ Gone(r, "failed")
          \/ ok # {} /\ proc' = [proc EXCEPT ![r].pc = "normalize", ![r].staged = ok,
                                            ![r].degraded = proc[r].adapters # ok]
  /\ UNCHANGED <<rows, store, faults>>

NormalizeTranscripts(r) ==
  LET new == {<<Job(r), p>> : p \in proc[r].staged} IN
  /\ At(r, "normalize")
  /\ rows' = [c \in Candidates |-> IF c \in new THEN Job(r) ELSE rows[c]]
  /\ proc' = [proc EXCEPT ![r].pc = "spans", ![r].ids = @ \union new]
  /\ UNCHANGED <<run, store, faults>>

\* The span table is built from the listed candidates that the store still has
\* under this job; the node raises only when there is none.
BuildSpans(r) ==
  LET found == proc[r].ids \cap Rows(Job(r)) IN
  /\ At(r, "spans")
  /\ \/ found # {} /\ proc' = [proc EXCEPT ![r].pc = "materialize", ![r].basis = found]
                   /\ UNCHANGED run
     \/ found = {} /\ Fails(r)
  /\ UNCHANGED <<rows, store, faults>>

\* Selection, review, adjudication of the spans, and the synthesized transcript,
\* which meets the assembly invariants or is blocked: the artifact is written over
\* the one that an earlier run of the job may have left.
MaterializeTranscript(r) ==
  /\ At(r, "materialize")
  /\ \E outcome \in {"complete", "blocked"} :
       /\ store' = [store EXCEPT ![Job(r)].transcript = outcome]
       /\ proc' = [proc EXCEPT ![r].pc = "decide", ![r].decision = outcome]
  /\ UNCHANGED <<run, rows, faults>>

\* Plausible bug: a blocked transcript is decided like a complete one.
SaveOneDecision(r) ==
  /\ At(r, "decide")
  /\ store' = [store EXCEPT ![Job(r)].decision = "complete"]
  /\ proc' = [proc EXCEPT ![r].pc = "memory", ![r].transcript = proc[r].decision,
                          ![r].transcriptFailed = (proc[r].decision = "blocked")]
  /\ UNCHANGED <<run, rows, faults>>

\* The rest of the node: the decision about the artifact is saved as a row of the
\* job, over that of an earlier run.
SaveTranscriptDecision(r) ==
  /\ At(r, "decide")
  /\ store' = [store EXCEPT ![Job(r)].decision = proc[r].decision]
  /\ proc' = [proc EXCEPT ![r].pc = "memory", ![r].transcript = proc[r].decision,
                          ![r].transcriptFailed = (proc[r].decision = "blocked")]
  /\ UNCHANGED <<run, rows, faults>>

\* Plausible bug: the router does not look at the translation decision.
RouteIgnoringDecision(state) ==
  IF state.transcriptFailed \/ state.humanReview THEN "finalize" ELSE "translate"

\* Plausible bug: a blocked transcript does not keep the router from translating.
RouteIgnoringBlock(state) ==
  IF state.decided \/ state.humanReview THEN "finalize" ELSE "translate"

\* route_after_memory_pipeline
Route(state) ==
  IF state.decided \/ state.transcriptFailed \/ state.humanReview
  THEN "finalize" ELSE "translate"

\* background_memory_pipeline stages a batch, then the only conditional edge.
MemoryPipeline(r) ==
  /\ At(r, "memory")
  /\ Go(r, Route(proc[r]))
  /\ UNCHANGED <<run, rows, store, faults>>

\* The translation stage needs a synthesized transcript.  Some variant survives
\* or none does (TranslationFanOut is this step's inside).
GenerateTranslations(r) ==
  /\ At(r, "translate")
  /\ \/ /\ proc[r].transcript = "none"
        /\ Fails(r)
     \/ /\ proc[r].transcript # "none"
        /\ \E some \in BOOLEAN :
             proc' = [proc EXCEPT ![r].pc = "review", ![r].translations = some,
                                  ![r].translationFailed = ~some]
        /\ UNCHANGED run
  /\ UNCHANGED <<rows, store, faults>>

\* normalize_translations and review_translations
ReviewTranslations(r) ==
  /\ At(r, "review")
  /\ Go(r, "adjudicate")
  /\ UNCHANGED <<run, rows, store, faults>>

\* Plausible bug: a stage without candidates is not marked as failed.
AdjudicateNoFailure(r) ==
  /\ At(r, "adjudicate")
  /\ \E human \in BOOLEAN :
       /\ human \/ proc[r].translations
       /\ proc' = [proc EXCEPT ![r].pc = "memory", ![r].decided = TRUE,
                               ![r].winner = ~human, ![r].humanReview = human,
                               ![r].translationFailed = FALSE]
  /\ UNCHANGED <<run, rows, store, faults>>

\* With candidates: a winner, or human review.  Without: a decision that says so.
AdjudicateTranslation(r) ==
  /\ At(r, "adjudicate")
  /\ \E human \in BOOLEAN :
       /\ human \/ proc[r].translations
       /\ proc' = [proc EXCEPT ![r].pc = "memory", ![r].decided = TRUE,
                               ![r].winner = ~human, ![r].humanReview = human,
                               ![r].translationFailed = ~proc[r].translations]
  /\ UNCHANGED <<run, rows, store, faults>>

\* Plausible bug: a translation that waits for a human is published all the same.
PublishedFilesEager(state) ==
  (IF state.transcript # "none" THEN {"transcript"} ELSE {})
    \union (IF state.translations THEN {"translation", "srt"} ELSE {})
    \union (IF state.translationFailed THEN {"translation-failed"} ELSE {})

\* What publish_outputs writes for a state.
PublishedFiles(state) ==
  (IF state.transcript # "none" THEN {"transcript"} ELSE {})
    \union (IF state.winner /\ ~state.humanReview THEN {"translation", "srt"} ELSE {})
    \union (IF state.translationFailed THEN {"translation-failed"} ELSE {})

\* finalize_outputs: publish, and the link gets the refs of what was published.
\* Only the subtitle export of an earlier run of the job is ever deleted.  The
\* memory drain that follows publishes the same state again.
FinalizeOutputs(r) ==
  LET files == PublishedFiles(proc[r]) IN
  /\ At(r, "finalize")
  /\ store' = [store EXCEPT ![Job(r)].files = (@ \ {"srt"}) \union files]
  /\ run' = [run EXCEPT ![r].linked = @ \/ "translation" \in files]
  /\ Go(r, "link")
  /\ UNCHANGED <<rows, faults>>

\* _upsert_current_run_link: a translation ref unless the translation failed or
\* waits for a human.  An upsert never takes a ref back.
UpsertLink(r) ==
  /\ At(r, "link")
  /\ run' = [run EXCEPT ![r].linked =
               @ \/ (~proc[r].translationFailed /\ ~proc[r].humanReview)]
  /\ Go(r, "record")
  /\ UNCHANGED <<rows, store, faults>>

\* Plausible bug: human review is looked at before the failure of the translation.
FinalStatusSwapped(state) ==
  CASE state.transcriptFailed -> "transcript_failed"
    [] ~state.transcriptFailed /\ state.humanReview -> "human_review_required"
    [] OTHER -> IF state.degraded THEN "completed_with_degraded_transcription"
                ELSE "completed"

\* _final_status
FinalStatus(state) ==
  IF state.transcriptFailed THEN "transcript_failed"
  ELSE IF state.translationFailed THEN "translation_failed"
  ELSE IF state.humanReview THEN "human_review_required"
  ELSE IF state.degraded THEN "completed_with_degraded_transcription"
  ELSE "completed"

RecordOutcome(r) ==
  /\ At(r, "record")
  /\ run' = [run EXCEPT ![r].status = FinalStatus(proc[r])]
  /\ Go(r, "done")
  /\ UNCHANGED <<rows, store, faults>>
-----------------------------------------------------------------------------
\* A node, build_runtime or the link write raises.
Raises(r) ==
  /\ proc[r].pc \in Nodes \union {"start"}
  /\ faults < MaxFaults
  /\ faults' = faults + 1
  /\ Fails(r)
  /\ UNCHANGED <<rows, store>>

\* The process dies, or a statement outside the try raises (the seeding, the last
\* status write).  Nothing ever picks the run up again.
Dies(r) ==
  /\ proc[r].pc \in Live
  /\ faults < MaxFaults
  /\ faults' = faults + 1
  /\ Gone(r, "dead")
  /\ UNCHANGED <<run, rows, store>>

\* Every process has ended and there is no run id left.
Finished ==
  /\ \A r \in Runs : proc[r].pc \in {"done", "failed", "dead", "torn"}
  /\ UNCHANGED vars

Step(r) ==
  \/ CopyCandidate(r)
  \/ FinishSeeding(r)
  \/ Start(r)
  \/ Ingest(r)
  \/ ExtractAudio(r)
  \/ FanoutTranscription(r)
  \/ NormalizeTranscripts(r)
  \/ BuildSpans(r)
  \/ MaterializeTranscript(r)
  \/ SaveTranscriptDecision(r)
  \/ MemoryPipeline(r)
  \/ GenerateTranslations(r)
  \/ ReviewTranslations(r)
  \/ AdjudicateTranslation(r)
  \/ FinalizeOutputs(r)
  \/ UpsertLink(r)
  \/ RecordOutcome(r)

Next ==
  \/ \E r \in Runs, j \in FreshJobs : RunJob(r, j)
  \/ \E r, s \in Runs : ResumeTranslation(r, s)
  \/ \E r, s \in Runs, requested \in SUBSET Providers : ResumeTranscription(r, s, requested)
  \/ \E r \in Runs : Step(r) \/ Raises(r) \/ Dies(r)
  \/ Finished

Spec == Init /\ [][Next]_vars

\* A process that has been launched and has not died keeps going.
FairSpec == Spec /\ \A r \in Runs : WF_vars(Step(r))
-----------------------------------------------------------------------------
\* The runs that have job j to themselves: a fresh run may be asked for a job
\* that another run had, and then writes over its artifacts.
Alone(r) == \A s \in Runs \ {r} : Job(s) # Job(r)

\* The status recorded for a run agrees with what a reader of its job finds: a
\* translation with its subtitles exactly when it completed, the failure record
\* exactly when every variant failed, the transcript in any case.
OutcomeMatchesPublication ==
  \A r \in Runs : At(r, "done") /\ Alone(r) =>
    LET files == store[Job(r)].files
        status == run[r].status
    IN
    /\ "translation" \in files <=> status \in Completed
    /\ "srt" \in files <=> status \in Completed
    /\ "translation-failed" \in files <=> status = "translation_failed"
    /\ "translation-failed" \in files <=> proc[r].decided /\ ~proc[r].translations
    /\ "transcript" \in files

\* Every run of the job that began to materialize a transcript has also saved the
\* decision about it: no process went between the two writes, and none is there.
Intact(j) == \A r \in Runs : Job(r) = j => ~At(r, "decide") /\ ~At(r, "torn")

\* A run that got as far as an outcome leaves a transcript and a decision under
\* its own job, whichever way it came by them: that is what a later resume of this
\* run reads.  The decision describes that transcript, for a run that resumed the
\* transcription always, and for any other if the job its transcript comes from,
\* its own or that at the root of its resumes, is intact.  It must be: a rerun of
\* that job that goes between its two writes leaves a new transcript under the
\* decision of the run before it, and a translation resume of either copies both.
\* (True of processes that run one after another: a resume reads the decision
\* first and the transcript later, and a new run of the job may come between.)
TranscriptOfRecord ==
  \A r \in Runs : At(r, "done") =>
    /\ store[Job(r)].transcript # "none"
    /\ store[Job(r)].decision # "none"
    /\ run[r].kind = "transcription" \/ Intact(run[r].root)
         => store[Job(r)].decision = store[Job(r)].transcript

\* The transcript is built from every candidate the run lists, those it copied
\* from its source included.  (True of processes that run one after another.)
TranscriptUsesEverySurvivor ==
  \A r \in Runs : proc[r].basis # {} => proc[r].basis = proc[r].ids

\* Every process comes to an end: the graph has a cycle, from the memory node
\* through the translation stage and back, and the router breaks it.  (A run that
\* is live for ever would keep the system from ever coming to rest.)
ProcessesEnd == []<>(\A r \in Runs : proc[r].pc \notin Live)
-----------------------------------------------------------------------------
(***************************************************************************)
(* What the documentation and the messages of the code say, and the code   *)
(* does not do.                                                            *)
(***************************************************************************)

\* A run that lost every translation variant can be resumed for translation: the
\* failure record says "recoverable".
FailedTranslationStaysRecoverable ==
  \A r \in Runs : At(r, "done") /\ run[r].status = "translation_failed"
                    => Rows(Job(r)) # {}

\* "completed" says that no transcription was degraded: each provider has given a
\* candidate to the transcript that was translated.
CompletedMeansEveryProvider ==
  \A r \in Runs : At(r, "done") /\ run[r].status = "completed" =>
    \A p \in Providers : \E c \in proc[r].ids : c[2] = p
=============================================================================
