--------------------------- MODULE ReviewResolution ---------------------------
(***************************************************************************)
(* resolve_translation_review (review_flow.py): a human decides about a    *)
(* run that waits for one.  A call is a process of its own (CLI or TUI);   *)
(* after its checks it performs some twenty writes to the blob store and   *)
(* the database, and may die between any two of them.  Resolution,         *)
(* approval, draft and publication are filed under the job, the row, the   *)
(* batch and the status under the run; statistics are shared by all jobs   *)
(* and are read, recomputed and written back.                              *)
(***************************************************************************)
EXTENDS Integers, FiniteSets

CONSTANTS Reviewers,  \* calls of resolve_translation_review, one process each
          Runs,       \* runs whose translation waits for a human
          Jobs,
          JobOf,      \* the job of each run; a rerun has the job of its run
          Providers,  \* transcript providers of the candidates
          Combos,     \* combo keys (provider, model, prompt) of the candidates
          None,       \* model value: no run, no key, no provider
          Racing,     \* may two processes resolve runs of one job at a time?
          MaxFaults   \* bound: processes that die

ASSUME ReviewAssumption ==
  /\ JobOf \in [Runs -> Jobs]
  /\ None \notin Runs \union Providers \union Combos
  /\ Providers \cap Combos = {}
  /\ Racing \in BOOLEAN
  /\ MaxFaults \in Nat
  /\ IsFiniteSet(Runs)

Keys == Providers \union Combos
Kinds == {"approved_good", "approved_best_available", "rejected_all"}
Approves(kind) == kind \in {"approved_good", "approved_best_available"}

Artifacts == {"reviewed", "approval", "learning", "draft", "transcript", "translation",
              "translation-failed", "srt"}

VARIABLES
  caller,   \* caller[p]: where the call is and what it has decided and read
  record,   \* record[j]: the resolution blob: the kind, and whether it names
            \* the published translation
  row,      \* row[r]: kind in the resolution row of the run
  files,    \* files[j]: artifacts of the job
  manifest, \* manifest[j]: what the published manifest names
  batch,    \* batch[r]: memory batch of the resolution
  stats,    \* stats[k]: statistics row of a provider or a combo
  linked,   \* linked[r]: the historical link names a translation
  status,   \* status[r]: status of the run
  faults

vars == <<caller, record, row, files, manifest, batch, stats, linked, status, faults>>

NoStat == [approved |-> 0, passedOver |-> 0, rejected |-> 0]
Counts(stat) == stat.approved + stat.passedOver + stat.rejected

NoCall == [pc |-> "off", run |-> None, kind |-> "none", combo |-> None, provider |-> None,
           key |-> None, todo |-> {}, seen |-> [k \in Keys |-> NoStat]]

Ended == {"off", "done", "dead"}
Steps == {"candidate", "record", "row", "approval", "learning", "providers", "feedback",
          "save", "memory", "consolidate", "publish", "exports", "manifest", "link",
          "rerecord", "rerow", "discard", "settle"}

TypeOK ==
  /\ caller \in [Reviewers -> [pc : Steps \union Ended, run : Runs \union {None},
                               kind : Kinds \union {"none"}, combo : Combos \union {None},
                               provider : Providers \union {None},
                               key : Keys \union {None}, todo : SUBSET Keys,
                               seen : [Keys -> [approved : Nat, passedOver : Nat,
                                                rejected : Nat]]]]
  /\ record \in [Jobs -> [kind : Kinds \union {"none"}, published : BOOLEAN]]
  /\ row \in [Runs -> Kinds \union {"none"}]
  /\ files \in [Jobs -> SUBSET Artifacts]
  /\ manifest \in [Jobs -> SUBSET Artifacts]
  /\ batch \in [Runs -> {"none", "staged", "consolidated"}]
  /\ stats \in [Keys -> [approved : Nat, passedOver : Nat, rejected : Nat]]
  /\ linked \in [Runs -> BOOLEAN]
  /\ status \in [Runs -> {"human_review_required", "completed_after_human_review",
                          "rejected_after_human_review"}]
  /\ faults \in 0..MaxFaults

\* What a run that waits for a human has left behind.
Init ==
  /\ caller = [p \in Reviewers |-> NoCall]
  /\ record = [j \in Jobs |-> [kind |-> "none", published |-> FALSE]]
  /\ row = [r \in Runs |-> "none"]
  /\ files = [j \in Jobs |-> {"transcript"}]
  /\ manifest = [j \in Jobs |-> {"transcript"}]
  /\ batch = [r \in Runs |-> "none"]
  /\ stats = [k \in Keys |-> NoStat]
  /\ linked = [r \in Runs |-> FALSE]
  /\ status = [r \in Runs |-> "human_review_required"]
  /\ faults = 0
-----------------------------------------------------------------------------
Job(p) == JobOf[caller[p].run]
Approving(p) == Approves(caller[p].kind)
At(p, step) == caller[p].pc = step
Go(p, step) == caller' = [caller EXCEPT ![p].pc = step]

\* The processes at work on job j.
Busy(j) == {p \in Reviewers : caller[p].pc \in Steps /\ Job(p) = j}

Starts(p, r, kind, combo, provider) ==
  /\ At(p, "off")
  /\ Racing \/ Busy(JobOf[r]) = {}
  /\ IF Approves(kind) THEN combo # None ELSE combo = None /\ provider = None
  /\ caller' = [caller EXCEPT ![p] =
                  [@ EXCEPT !.pc = IF Approves(kind) THEN "candidate" ELSE "record",
                            !.run = r, !.kind = kind, !.combo = combo,
                            !.provider = provider, !.todo = Keys]]
  /\ UNCHANGED <<record, row, files, manifest, batch, stats, linked, status, faults>>

\* Plausible bug: the run's status is looked at instead of the resolution record.
ResolveByStatus(p, r, kind, combo, provider) ==
  /\ status[r] = "human_review_required"
  /\ Starts(p, r, kind, combo, provider)

\* The checks at the beginning; a call they refuse changes nothing.  The output
\* data of a resolved run still name the translation stage, so only the blobs tell
\* that it is resolved.  The reviewed spans are represented by the combo of the
\* candidate most of them come from and the provider of its transcript, if any.
Resolve(p, r, kind, combo, provider) ==
  /\ record[JobOf[r]].kind = "none"
  /\ Approves(kind) => "approval" \notin files[JobOf[r]]
  /\ Starts(p, r, kind, combo, provider)

\* Plausible bug: the approval is written together with the reviewed candidate.
SaveCandidateApproved(p) ==
  /\ At(p, "candidate")
  /\ files' = [files EXCEPT ![Job(p)] = @ \union {"reviewed", "approval"}]
  /\ Go(p, "record")
  /\ UNCHANGED <<record, row, manifest, batch, stats, linked, status, faults>>

\* The reviewed translation, synthesized from the spans, is saved: a row and a
\* blob that nothing refers to yet.
SaveCandidate(p) ==
  /\ At(p, "candidate")
  /\ files' = [files EXCEPT ![Job(p)] = @ \union {"reviewed"}]
  /\ Go(p, "record")
  /\ UNCHANGED <<record, row, manifest, batch, stats, linked, status, faults>>

\* The decision is on record: from here on every other call is refused.
WriteRecord(p) ==
  /\ At(p, "record")
  /\ record' = [record EXCEPT ![Job(p)] = [kind |-> caller[p].kind, published |-> FALSE]]
  /\ Go(p, "row")
  /\ UNCHANGED <<row, files, manifest, batch, stats, linked, status, faults>>

SaveRow(p) ==
  /\ At(p, "row")
  /\ row' = [row EXCEPT ![caller[p].run] = caller[p].kind]
  /\ Go(p, IF Approving(p) THEN "approval" ELSE "providers")
  /\ UNCHANGED <<record, files, manifest, batch, stats, linked, status, faults>>

WriteApproval(p) ==
  /\ At(p, "approval")
  /\ files' = [files EXCEPT ![Job(p)] = @ \union {"approval"}]
  /\ Go(p, IF caller[p].provider # None THEN "learning" ELSE "providers")
  /\ UNCHANGED <<record, row, manifest, batch, stats, linked, status, faults>>

WriteLearning(p) ==
  /\ At(p, "learning")
  /\ files' = [files EXCEPT ![Job(p)] = @ \union {"learning"}]
  /\ Go(p, "providers")
  /\ UNCHANGED <<record, row, manifest, batch, stats, linked, status, faults>>
-----------------------------------------------------------------------------
\* What a resolution adds to the row of a provider or a combo that was under
\* review.  (A provider's escalations are its three counts together.)
Count(stat, k, p) ==
  CASE caller[p].kind = "rejected_all" -> [stat EXCEPT !.rejected = @ + 1]
    [] Approving(p) /\ k \in {caller[p].combo, caller[p].provider}
         -> [stat EXCEPT !.approved = @ + 1]
    [] OTHER -> [stat EXCEPT !.passedOver = @ + 1]

\* _update_provider_quality_stats: row by row, get ...
ReadProvider(p) ==
  /\ At(p, "providers")
  /\ caller[p].key = None
  /\ \E k \in caller[p].todo \cap Providers :
       caller' = [caller EXCEPT ![p].key = k, ![p].seen[k] = stats[k]]
  /\ UNCHANGED <<record, row, files, manifest, batch, stats, linked, status, faults>>

\* ... and save, whatever became of the row in between.
SaveProvider(p) ==
  LET k == caller[p].key
      rest == caller[p].todo \ {k}
  IN
  /\ At(p, "providers")
  /\ k # None
  /\ stats' = [stats EXCEPT ![k] = Count(caller[p].seen[k], k, p)]
  /\ caller' = [caller EXCEPT ![p] =
       [@ EXCEPT !.key = None, !.todo = rest, !.seen[k] = NoStat,
                 !.pc = IF rest \cap Providers = {} THEN "feedback" ELSE "providers"]]
  /\ UNCHANGED <<record, row, files, manifest, batch, linked, status, faults>>

\* _update_translation_feedback_stats: all the combos are loaded ...
LoadFeedback(p) ==
  /\ At(p, "feedback")
  /\ caller' = [caller EXCEPT ![p].pc = "save",
                              ![p].seen = [k \in Keys |-> IF k \in Combos THEN stats[k] ELSE NoStat]]
  /\ UNCHANGED <<record, row, files, manifest, batch, stats, linked, status, faults>>

\* ... and then saved, one by one.
SaveFeedback(p) ==
  /\ At(p, "save")
  /\ \E k \in caller[p].todo :
       LET rest == caller[p].todo \ {k} IN
       /\ stats' = [stats EXCEPT ![k] = Count(caller[p].seen[k], k, p)]
       /\ caller' = [caller EXCEPT ![p] =
            [@ EXCEPT !.todo = rest, !.seen[k] = NoStat,
                      !.pc = IF rest = {} THEN "memory" ELSE "save"]]
  /\ UNCHANGED <<record, row, files, manifest, batch, linked, status, faults>>

\* _write_resolution_learning_memory: the batch is staged, consolidated, and
\* saved again as consolidated.
StageBatch(p) ==
  /\ At(p, "memory")
  /\ batch' = [batch EXCEPT ![caller[p].run] = "staged"]
  /\ Go(p, "consolidate")
  /\ UNCHANGED <<record, row, files, manifest, stats, linked, status, faults>>

ConsolidateBatch(p) ==
  /\ At(p, "consolidate")
  /\ batch' = [batch EXCEPT ![caller[p].run] = "consolidated"]
  /\ Go(p, "publish")
  /\ UNCHANGED <<record, row, files, manifest, stats, linked, status, faults>>
-----------------------------------------------------------------------------
\* publish_outputs for the state of _resolution_publish_state, which has the
\* reviewed translation and no transcript: the translation or its failure ...
Publish(p) ==
  /\ At(p, "publish")
  /\ files' = [files EXCEPT ![Job(p)] =
                 @ \union {IF Approving(p) THEN "translation" ELSE "translation-failed"}]
  /\ Go(p, "exports")
  /\ UNCHANGED <<record, row, manifest, batch, stats, linked, status, faults>>

\* ... the subtitles, or nothing in their place ...
Export(p) ==
  /\ At(p, "exports")
  /\ files' = [files EXCEPT ![Job(p)] = IF Approving(p) THEN @ \union {"srt"} ELSE @ \ {"srt"}]
  /\ Go(p, "manifest")
  /\ UNCHANGED <<record, row, manifest, batch, stats, linked, status, faults>>

\* Plausible bug: the approval is named whatever was decided.
WriteManifestApproved(p) ==
  /\ At(p, "manifest")
  /\ manifest' = [manifest EXCEPT ![Job(p)] =
       {"approval"} \union (IF Approving(p) THEN {"translation", "srt"}
                                           ELSE {"translation-failed"})]
  /\ Go(p, "link")
  /\ UNCHANGED <<record, row, files, batch, stats, linked, status, faults>>

\* ... and the manifest, which names what this call has published.
WriteManifest(p) ==
  /\ At(p, "manifest")
  /\ manifest' = [manifest EXCEPT ![Job(p)] =
       IF Approving(p)
       THEN {"translation", "srt", "approval"}
              \union (IF caller[p].provider # None THEN {"learning"} ELSE {})
       ELSE {"translation-failed"}]
  /\ Go(p, "link")
  /\ UNCHANGED <<record, row, files, batch, stats, linked, status, faults>>

\* update_historical_run_link
UpdateLink(p) ==
  /\ At(p, "link")
  /\ linked' = [linked EXCEPT ![caller[p].run] = @ \/ Approving(p)]
  /\ Go(p, IF Approving(p) THEN "rerecord" ELSE "discard")
  /\ UNCHANGED <<record, row, files, manifest, batch, stats, status, faults>>

\* The record is written again with the published translation: blob, then row.
Rerecord(p) ==
  /\ At(p, "rerecord")
  /\ record' = [record EXCEPT ![Job(p)] = [kind |-> caller[p].kind, published |-> TRUE]]
  /\ Go(p, "rerow")
  /\ UNCHANGED <<row, files, manifest, batch, stats, linked, status, faults>>

Rerow(p) ==
  /\ At(p, "rerow")
  /\ row' = [row EXCEPT ![caller[p].run] = caller[p].kind]
  /\ Go(p, "discard")
  /\ UNCHANGED <<record, files, manifest, batch, stats, linked, status, faults>>

DiscardDraft(p) ==
  /\ At(p, "discard")
  /\ files' = [files EXCEPT ![Job(p)] = @ \ {"draft"}]
  /\ Go(p, "settle")
  /\ UNCHANGED <<record, row, manifest, batch, stats, linked, status, faults>>

\* Plausible bug: only approved_good completes the run.
OutcomeGoodOnly(kind) ==
  IF kind = "approved_good" THEN "completed_after_human_review"
                            ELSE "rejected_after_human_review"

OutcomeOf(kind) ==
  IF Approves(kind) THEN "completed_after_human_review" ELSE "rejected_after_human_review"

Settle(p) ==
  /\ At(p, "settle")
  /\ status' = [status EXCEPT ![caller[p].run] = OutcomeOf(caller[p].kind)]
  /\ Go(p, "done")
  /\ UNCHANGED <<record, row, files, manifest, batch, stats, linked, faults>>

\* save_review_draft_resolution: the TUI saves its draft after every edit, and
\* looks at nothing but the job.
SaveDraft(r) ==
  /\ files' = [files EXCEPT ![JobOf[r]] = @ \union {"draft"}]
  /\ UNCHANGED <<caller, record, row, manifest, batch, stats, linked, status, faults>>

\* The process dies or a write raises: nothing in the function is in a try.
Dies(p) ==
  /\ caller[p].pc \in Steps
  /\ faults < MaxFaults
  /\ faults' = faults + 1
  /\ Go(p, "dead")
  /\ UNCHANGED <<record, row, files, manifest, batch, stats, linked, status>>

Step(p) ==
  \/ SaveCandidate(p)
  \/ WriteRecord(p)
  \/ SaveRow(p)
  \/ WriteApproval(p)
  \/ WriteLearning(p)
  \/ ReadProvider(p)
  \/ SaveProvider(p)
  \/ LoadFeedback(p)
  \/ SaveFeedback(p)
  \/ StageBatch(p)
  \/ ConsolidateBatch(p)
  \/ Publish(p)
  \/ Export(p)
  \/ WriteManifest(p)
  \/ UpdateLink(p)
  \/ Rerecord(p)
  \/ Rerow(p)
  \/ DiscardDraft(p)
  \/ Settle(p)

Next ==
  \/ \E p \in Reviewers, r \in Runs, kind \in Kinds, combo \in Combos \union {None},
        provider \in Providers \union {None} : Resolve(p, r, kind, combo, provider)
  \/ \E p \in Reviewers : Step(p) \/ Dies(p)
  \/ \E r \in Runs : SaveDraft(r)

Spec == Init /\ [][Next]_vars
-----------------------------------------------------------------------------
\* Once a run's review is over, everything anyone can read about it tells the
\* same story: record, row, status, approval, publication, manifest, link and
\* memory, whatever died or was refused before and whatever else was resolved
\* at the same time.
OneStory ==
  \A r \in Runs : status[r] # "human_review_required" =>
    LET j == JobOf[r]
        approved == Approves(record[j].kind)
    IN
    /\ record[j].kind # "none" /\ row[r] = record[j].kind
    /\ approved <=> status[r] = "completed_after_human_review"
    /\ approved <=> {"reviewed", "approval", "translation", "srt"} \subseteq files[j]
    /\ approved <=> "approval" \in files[j]
    /\ approved <=> "translation-failed" \notin files[j]
    /\ approved <=> {"translation", "srt", "approval"} \subseteq manifest[j]
    /\ approved <=> record[j].published
    /\ approved <=> linked[r]
    /\ batch[r] = "consolidated"

\* The record comes first: whoever finds any effect of a resolution finds the
\* decision it follows from, even when the process died half way.
EffectsFollowRecord ==
  /\ \A r \in Runs :
       \/ row[r] # "none" \/ batch[r] # "none" \/ linked[r]
       \/ status[r] # "human_review_required"
       => record[JobOf[r]].kind # "none"
  /\ \A j \in Jobs :
       files[j] \cap {"approval", "learning", "translation", "translation-failed", "srt"} # {}
       => record[j].kind # "none"

\* The manifest names nothing that is not there, while a resolution is at work
\* and after one has died.
ManifestNamesWhatIsThere == \A j \in Jobs : manifest[j] \subseteq files[j]

\* No review is counted twice, not by a retry either.  (Resolutions of two jobs
\* at one time may lose a count: the rows are read and written back unlocked.)
CountedAtMostOnce ==
  \A k \in Keys :
    /\ Counts(stats[k]) <= Cardinality({r \in Runs : row[r] # "none"})
    /\ stats[k].approved <= Cardinality({r \in Runs : Approves(row[r])})
    /\ stats[k].rejected <= Cardinality({r \in Runs : row[r] = "rejected_all"})

\* A decision on record is never changed, only completed with the translation it
\* led to.
DecisionIsFinal ==
  [][\A j \in Jobs : record[j].kind # "none" =>
       /\ record'[j].kind = record[j].kind
       /\ record[j].published => record'[j].published]_vars

VerdictOf(kind) ==
  IF kind = "none" THEN "none" ELSE IF Approves(kind) THEN "approved" ELSE "rejected"

OutcomeSeen(state) ==
  CASE state = "human_review_required" -> "pending"
    [] state = "completed_after_human_review" -> "approved"
    [] OTHER -> "rejected"

Abstract == INSTANCE ReviewDecision WITH
  decision <- [j \in Jobs |-> VerdictOf(record[j].kind)],
  outcome <- [r \in Runs |-> OutcomeSeen(status[r])]

\* The twenty writes amount to one decision per job and outcomes that follow it.
ImplementsDecision == Abstract!Spec

\* "run already has a resolution record": no two calls decide about one job.
\* (False when two of them check before either has written.)
OneDecisionPerJob ==
  \A j \in Jobs :
    Cardinality({p \in Reviewers :
      /\ caller[p].pc \in (Steps \ {"candidate", "record"}) \union {"done"}
      /\ Job(p) = j}) <= 1
=============================================================================
