------------------------ MODULE ReviewResolutionProofs ------------------------
(***************************************************************************)
(* Proofs about ReviewResolution, for any number of calls, runs, jobs and  *)
(* statistics and any number of calls that die, provided that two calls    *)
(* do not work on one job at a time (Racing = FALSE).                      *)
(*   IInv      the decision about a job is made once, nothing of a         *)
(*             resolution is visible without it, and the many writes       *)
(*             implement ReviewDecision;                                   *)
(*   StoryInv  what each call has left behind by the step it is at, from   *)
(*             which a settled run tells one story and the manifest is     *)
(*             true at every moment;                                       *)
(*   CountInv  statistics, and what calls have read of them, never hold    *)
(*             more than the runs that have been counted.                  *)
(***************************************************************************)
EXTENDS ReviewResolution, FiniteSetTheorems, TLAPS

Stat == [approved : Nat, passedOver : Nat, rejected : Nat]

Call == [pc : Steps \union Ended, run : Runs \union {None}, kind : Kinds \union {"none"},
         combo : Combos \union {None}, provider : Providers \union {None},
         key : Keys \union {None}, todo : SUBSET Keys, seen : [Keys -> Stat]]

\* The steps before the decision is on record, and those after.
Early == {"candidate", "record"}
Late == Steps \ Early

\* A call at work is about a run and has a decision.  Nothing is on record for its
\* job until it has written its own decision; then that is what is on record.
CallFacts ==
  \A p \in Reviewers : caller[p].pc \in Steps =>
    /\ caller[p].run \in Runs
    /\ caller[p].kind \in Kinds
    /\ caller[p].pc \in Early => record[Job(p)].kind = "none"
    /\ caller[p].pc \in Late => record[Job(p)].kind = caller[p].kind

\* Two calls at work are at work on different jobs.
OneCallPerJob ==
  \A p, q \in Reviewers :
    caller[p].pc \in Steps /\ caller[q].pc \in Steps /\ Job(p) = Job(q) => p = q

IInv == TypeOK /\ CallFacts /\ OneCallPerJob /\ EffectsFollowRecord
-----------------------------------------------------------------------------
LEMMA InitInv == Init => IInv
<1> SUFFICES ASSUME Init PROVE IInv
  OBVIOUS
<1>1. TypeOK
  BY ReviewAssumption DEF Init, TypeOK, NoCall, NoStat, Steps, Ended, Artifacts, Keys
<1>2. CallFacts /\ OneCallPerJob
  BY DEF Init, NoCall, Steps, CallFacts, OneCallPerJob
<1>3. EffectsFollowRecord
  BY DEF Init, EffectsFollowRecord
<1> QED BY <1>1, <1>2, <1>3 DEF IInv

\* A count adds up to a row of statistics again.
LEMMA CountType ==
  ASSUME NEW p, NEW k, NEW stat \in Stat
  PROVE  Count(stat, k, p) \in Stat
BY DEF Count, Stat, Approving, Approves

\* A step of one call that leaves the records alone, keeps the call's run and
\* decision and does not go back before the record.
LEMMA CallMoves ==
  ASSUME IInv, NEW p \in Reviewers, NEW c \in Call,
         caller[p].pc \in Steps,
         caller' = [caller EXCEPT ![p] = c],
         c.run = caller[p].run, c.kind = caller[p].kind,
         c.pc \in Steps \union {"done", "dead"},
         c.pc \in Early => caller[p].pc \in Early,
         c.pc \in Late => caller[p].pc \in Late,
         record' = record
  PROVE  CallFacts' /\ OneCallPerJob'
<1>0. caller \in [Reviewers -> Call]
  BY DEF IInv, TypeOK, Call, Stat
<1>1. \A q \in Reviewers : caller'[q] = IF q = p THEN c ELSE caller[q]
  BY <1>0
<1>2. \A q \in Reviewers : caller'[q].pc \in Steps => caller[q].pc \in Steps
  BY <1>1
<1>3. \A q \in Reviewers : Job(q)' = Job(q) /\ caller'[q].run = caller[q].run
                           /\ caller'[q].kind = caller[q].kind
  BY <1>1 DEF Job
<1>4. \A q \in Reviewers : caller'[q].pc \in Early => caller[q].pc \in Early
  BY <1>1
<1>5. \A q \in Reviewers : caller'[q].pc \in Late => caller[q].pc \in Late
  BY <1>1
<1>6. CallFacts'
  <2> SUFFICES ASSUME NEW q \in Reviewers, caller'[q].pc \in Steps
               PROVE  /\ caller'[q].run \in Runs
                      /\ caller'[q].kind \in Kinds
                      /\ caller'[q].pc \in Early => record'[Job(q)'].kind = "none"
                      /\ caller'[q].pc \in Late => record'[Job(q)'].kind = caller'[q].kind
    BY DEF CallFacts
  <2> QED BY <1>1, <1>2, <1>3, <1>4, <1>5 DEF IInv, CallFacts
<1>7. OneCallPerJob'
  BY <1>2, <1>3 DEF IInv, OneCallPerJob
<1> QED BY <1>6, <1>7

\* What a call whose decision is on record does to its own run and job follows
\* that record.
LEMMA EffectsKept ==
  ASSUME IInv, NEW p \in Reviewers, caller[p].pc \in Late, record' = record,
         \A r \in Runs \ {caller[p].run} :
           row'[r] = row[r] /\ batch'[r] = batch[r] /\ linked'[r] = linked[r]
             /\ status'[r] = status[r],
         \A j \in Jobs \ {Job(p)} : files'[j] = files[j]
  PROVE  EffectsFollowRecord'
<1>1. caller[p].run \in Runs /\ record[Job(p)].kind # "none"
  BY DEF IInv, CallFacts, Late, Kinds
<1>2. record'[JobOf[caller[p].run]].kind # "none" /\ Job(p) = JobOf[caller[p].run]
  BY <1>1 DEF Job
<1>3. EffectsFollowRecord
  BY DEF IInv
<1> QED BY <1>1, <1>2, <1>3 DEF EffectsFollowRecord

\* The same for a step that touches nothing an effect is read from.
LEMMA EffectsUntouched ==
  ASSUME EffectsFollowRecord, record' = record, row' = row, batch' = batch,
         linked' = linked, status' = status,
         \A j \in Jobs : files'[j] \cap {"approval", "learning", "translation",
           "translation-failed", "srt"} \subseteq files[j]
  PROVE  EffectsFollowRecord'
BY DEF EffectsFollowRecord
-----------------------------------------------------------------------------
\* A call gets past the checks: nothing is on record, and nobody else is at work
\* on the job.
LEMMA ResolveInv ==
  ASSUME IInv, ~Racing, NEW p \in Reviewers, NEW r \in Runs, NEW kind \in Kinds,
         NEW combo \in Combos \union {None}, NEW provider \in Providers \union {None},
         Resolve(p, r, kind, combo, provider)
  PROVE  IInv'
<1> DEFINE c == [caller[p] EXCEPT !.pc = IF Approves(kind) THEN "candidate" ELSE "record",
                                  !.run = r, !.kind = kind, !.combo = combo,
                                  !.provider = provider, !.todo = Keys]
<1>0. caller \in [Reviewers -> Call] /\ JobOf \in [Runs -> Jobs]
  BY ReviewAssumption DEF IInv, TypeOK, Call, Stat
<1>1. caller' = [caller EXCEPT ![p] = c]
  BY DEF Resolve, Starts
<1>2. /\ caller[p] \in Call /\ c.pc \in Early /\ c.pc \in Steps
      /\ c.run = r /\ c.kind = kind
  BY <1>0 DEF Call, Early, Steps
<1>3. c \in Call
  BY <1>0, <1>2 DEF Call, Keys
<1>4. \A q \in Reviewers : caller'[q] = IF q = p THEN c ELSE caller[q]
  BY <1>0, <1>1
<1>5. TypeOK'
  BY <1>0, <1>1, <1>3 DEF IInv, TypeOK, Resolve, Starts, Call, Stat
<1>6. \A q \in Reviewers : q # p /\ caller[q].pc \in Steps => Job(q) # JobOf[r]
  BY DEF Resolve, Starts, Busy
<1>7. \A q \in Reviewers : Job(q)' = IF q = p THEN JobOf[r] ELSE Job(q)
  BY <1>2, <1>4 DEF Job
<1>8. OneCallPerJob'
  <2> SUFFICES ASSUME NEW q1 \in Reviewers, NEW q2 \in Reviewers,
                      caller'[q1].pc \in Steps, caller'[q2].pc \in Steps,
                      Job(q1)' = Job(q2)'
               PROVE  q1 = q2
    BY DEF OneCallPerJob
  <2> QED BY <1>4, <1>6, <1>7 DEF IInv, OneCallPerJob
<1>9. record' = record /\ record[JobOf[r]].kind = "none"
  BY DEF Resolve, Starts
<1>10. CallFacts'
  <2> SUFFICES ASSUME NEW q \in Reviewers, caller'[q].pc \in Steps
               PROVE  /\ caller'[q].run \in Runs
                      /\ caller'[q].kind \in Kinds
                      /\ caller'[q].pc \in Early => record'[Job(q)'].kind = "none"
                      /\ caller'[q].pc \in Late => record'[Job(q)'].kind = caller'[q].kind
    BY DEF CallFacts
  <2>1. CASE q = p
    BY <2>1, <1>2, <1>4, <1>7, <1>9 DEF Early, Late
  <2>2. CASE q # p
    BY <2>2, <1>4, <1>7, <1>9 DEF IInv, CallFacts
  <2> QED BY <2>1, <2>2
<1>11. EffectsFollowRecord'
  BY EffectsUntouched DEF IInv, Resolve, Starts
<1> QED BY <1>5, <1>8, <1>10, <1>11 DEF IInv

\* The decision goes on record, where there was none.
LEMMA WriteRecordInv ==
  ASSUME IInv, NEW p \in Reviewers, WriteRecord(p)
  PROVE  IInv'
<1> DEFINE c == [caller[p] EXCEPT !.pc = "row"]
<1>0. caller \in [Reviewers -> Call] /\ JobOf \in [Runs -> Jobs]
  BY ReviewAssumption DEF IInv, TypeOK, Call, Stat
<1>1. caller' = [caller EXCEPT ![p] = c] /\ caller[p].pc = "record"
  BY DEF WriteRecord, Go, At
<1>2. caller[p].run \in Runs /\ caller[p].kind \in Kinds /\ record[Job(p)].kind = "none"
  BY <1>1 DEF IInv, CallFacts, Steps, Early
<1>3. Job(p) \in Jobs
  BY <1>0, <1>2 DEF Job
<1>4. record' = [record EXCEPT ![Job(p)] = [kind |-> caller[p].kind, published |-> FALSE]]
  BY DEF WriteRecord
<1>5. c \in Call /\ c.pc = "row" /\ c.run = caller[p].run /\ c.kind = caller[p].kind
  BY <1>0 DEF Call, Steps
<1>6. \A q \in Reviewers : caller'[q] = IF q = p THEN c ELSE caller[q]
  BY <1>0, <1>1
<1>7. \A q \in Reviewers : Job(q)' = Job(q)
  BY <1>5, <1>6 DEF Job
<1>8. \A q \in Reviewers : q # p /\ caller[q].pc \in Steps => Job(q) # Job(p)
  BY <1>1 DEF IInv, OneCallPerJob, Steps
<1>9. record \in [Jobs -> [kind : Kinds \union {"none"}, published : BOOLEAN]]
  BY DEF IInv, TypeOK
<1>10. record'[Job(p)].kind = caller[p].kind
       /\ \A j \in Jobs : j # Job(p) => record'[j] = record[j]
  BY <1>3, <1>4, <1>9
<1>11. TypeOK'
  <2>1. record' \in [Jobs -> [kind : Kinds \union {"none"}, published : BOOLEAN]]
    BY <1>2, <1>4, <1>9
  <2>2. caller' \in [Reviewers -> Call]
    BY <1>0, <1>1, <1>5
  <2> QED BY <2>1, <2>2 DEF IInv, TypeOK, WriteRecord, Call, Stat
<1>12. OneCallPerJob'
  <2> SUFFICES ASSUME NEW q1 \in Reviewers, NEW q2 \in Reviewers,
                      caller'[q1].pc \in Steps, caller'[q2].pc \in Steps,
                      Job(q1)' = Job(q2)'
               PROVE  q1 = q2
    BY DEF OneCallPerJob
  <2>1. \A q \in Reviewers : caller'[q].pc \in Steps => caller[q].pc \in Steps
    BY <1>1, <1>6 DEF Steps
  <2> QED BY <2>1, <1>7 DEF IInv, OneCallPerJob
<1>13. CallFacts'
  <2> SUFFICES ASSUME NEW q \in Reviewers, caller'[q].pc \in Steps
               PROVE  /\ caller'[q].run \in Runs
                      /\ caller'[q].kind \in Kinds
                      /\ caller'[q].pc \in Early => record'[Job(q)'].kind = "none"
                      /\ caller'[q].pc \in Late => record'[Job(q)'].kind = caller'[q].kind
    BY DEF CallFacts
  <2>1. CASE q = p
    BY <2>1, <1>2, <1>5, <1>6, <1>7, <1>10 DEF Early, Late
  <2>2. CASE q # p
    <3>1. caller'[q] = caller[q] /\ Job(q) # Job(p) /\ caller[q].run \in Runs
      BY <2>2, <1>6, <1>8 DEF IInv, CallFacts
    <3>2. Job(q) \in Jobs
      BY <3>1, <1>0 DEF Job
    <3> QED BY <3>1, <3>2, <1>7, <1>10 DEF IInv, CallFacts
  <2> QED BY <2>1, <2>2
<1>14. EffectsFollowRecord'
  <2>1. \A j \in Jobs : record[j].kind # "none" => record'[j].kind # "none"
    BY <1>2, <1>10 DEF Kinds
  <2>2. \A r \in Runs : JobOf[r] \in Jobs
    BY <1>0
  <2> QED BY <2>1, <2>2 DEF IInv, EffectsFollowRecord, WriteRecord
<1> QED BY <1>11, <1>12, <1>13, <1>14 DEF IInv

\* A step that only moves the call on.
LEMMA GoMoves ==
  ASSUME IInv, NEW p \in Reviewers, caller[p].pc \in Steps,
         NEW step \in Steps \union {"done", "dead"}, Go(p, step), record' = record,
         step \in Early => caller[p].pc \in Early,
         step \in Late => caller[p].pc \in Late
  PROVE  caller' \in [Reviewers -> Call] /\ CallFacts' /\ OneCallPerJob'
<1> DEFINE c == [caller[p] EXCEPT !.pc = step]
<1>1. caller \in [Reviewers -> Call]
  BY DEF IInv, TypeOK, Call, Stat
<1>2. caller' = [caller EXCEPT ![p] = c]
  BY DEF Go
<1>3. c \in Call /\ c.pc = step /\ c.run = caller[p].run /\ c.kind = caller[p].kind
  BY <1>1 DEF Call, Ended
<1>4. caller' \in [Reviewers -> Call]
  BY <1>1, <1>2, <1>3
<1>5. c.pc \in Early => caller[p].pc \in Early
  BY <1>3
<1>6. c.pc \in Late => caller[p].pc \in Late
  BY <1>3
<1>7. CallFacts' /\ OneCallPerJob'
  BY CallMoves, <1>2, <1>3, <1>5, <1>6
<1> QED BY <1>4, <1>7

\* The run and the job a call is at work on exist, and its decision is one.
LEMMA AtWork ==
  ASSUME IInv, NEW p \in Reviewers, caller[p].pc \in Steps
  PROVE  caller[p].run \in Runs /\ caller[p].kind \in Kinds /\ Job(p) \in Jobs
BY ReviewAssumption DEF IInv, CallFacts, Job

\* The reviewed candidate is saved before the record and is no effect of it.
LEMMA SaveCandidateInv ==
  ASSUME IInv, NEW p \in Reviewers, SaveCandidate(p)
  PROVE  IInv'
<1>1. caller[p].pc = "candidate" /\ Go(p, "record") /\ record' = record
  BY DEF SaveCandidate, At
<1>2. caller' \in [Reviewers -> Call] /\ CallFacts' /\ OneCallPerJob'
  BY <1>1, GoMoves DEF Steps, Early, Late
<1>3. Job(p) \in Jobs
  BY <1>1, AtWork DEF Steps
<1>4. TypeOK'
  BY <1>2, <1>3 DEF IInv, TypeOK, SaveCandidate, Call, Stat, Artifacts
<1>5. \A j \in Jobs : files'[j] \subseteq files[j] \union {"reviewed"}
  BY <1>3 DEF IInv, TypeOK, SaveCandidate
<1>6. EffectsFollowRecord'
  BY <1>5, EffectsUntouched DEF IInv, SaveCandidate
<1> QED BY <1>2, <1>4, <1>6 DEF IInv

\* The steps after the record that write an artifact, a manifest, a row or a
\* status of the call's own run and job.
LEMMA WriteInv ==
  ASSUME IInv, NEW p \in Reviewers,
         \/ SaveRow(p) \/ WriteApproval(p) \/ WriteLearning(p) \/ StageBatch(p)
         \/ ConsolidateBatch(p) \/ Publish(p) \/ Export(p) \/ WriteManifest(p)
         \/ UpdateLink(p) \/ Rerow(p) \/ DiscardDraft(p) \/ Settle(p)
  PROVE  IInv'
<1> DEFINE Written == SaveRow(p) \/ WriteApproval(p) \/ WriteLearning(p) \/ StageBatch(p)
                      \/ ConsolidateBatch(p) \/ Publish(p) \/ Export(p) \/ WriteManifest(p)
                      \/ UpdateLink(p) \/ Rerow(p) \/ DiscardDraft(p) \/ Settle(p)
<1>1. caller[p].pc \in Late /\ caller[p].pc \in Steps
  BY DEF SaveRow, WriteApproval, WriteLearning, StageBatch, ConsolidateBatch, Publish, Export,
         WriteManifest, UpdateLink, Rerow, DiscardDraft, Settle, At, Late, Early, Steps
<1>2. record' = record
  BY DEF SaveRow, WriteApproval, WriteLearning, StageBatch, ConsolidateBatch, Publish, Export,
         WriteManifest, UpdateLink, Rerow, DiscardDraft, Settle
<1>3. \E step \in Late \union {"done"} : Go(p, step)
  BY DEF SaveRow, WriteApproval, WriteLearning, StageBatch, ConsolidateBatch, Publish, Export,
         WriteManifest, UpdateLink, Rerow, DiscardDraft, Settle, Late, Early, Steps
<1>4. PICK step \in Late \union {"done"} : Go(p, step)
  BY <1>3
<1>5. caller' \in [Reviewers -> Call] /\ CallFacts' /\ OneCallPerJob'
  BY <1>1, <1>2, <1>4, GoMoves DEF Late, Early, Steps
<1>6. caller[p].run \in Runs /\ caller[p].kind \in Kinds /\ Job(p) \in Jobs
  BY <1>1, AtWork
<1>7. TypeOK'
  <2>1. files' \in [Jobs -> SUBSET Artifacts] /\ manifest' \in [Jobs -> SUBSET Artifacts]
    <3>1. files \in [Jobs -> SUBSET Artifacts] /\ manifest \in [Jobs -> SUBSET Artifacts]
      BY DEF IInv, TypeOK
    <3>2. CASE WriteManifest(p)
      BY <1>6, <3>1, <3>2 DEF WriteManifest, Artifacts
    <3>3. CASE WriteApproval(p) \/ WriteLearning(p) \/ Publish(p)
      BY <1>6, <3>1, <3>3 DEF WriteApproval, WriteLearning, Publish, Artifacts
    <3>4. CASE Export(p) \/ DiscardDraft(p)
      BY <1>6, <3>1, <3>4 DEF Export, DiscardDraft, Artifacts
    <3>5. CASE \/ SaveRow(p) \/ StageBatch(p) \/ ConsolidateBatch(p) \/ UpdateLink(p)
               \/ Rerow(p) \/ Settle(p)
      BY <3>1, <3>5 DEF SaveRow, StageBatch, ConsolidateBatch, UpdateLink, Rerow, Settle
    <3> QED BY <3>2, <3>3, <3>4, <3>5
  <2>2. /\ row' \in [Runs -> Kinds \union {"none"}]
        /\ batch' \in [Runs -> {"none", "staged", "consolidated"}]
        /\ linked' \in [Runs -> BOOLEAN]
        /\ status' \in [Runs -> {"human_review_required", "completed_after_human_review",
                                 "rejected_after_human_review"}]
    BY <1>6 DEF IInv, TypeOK, SaveRow, WriteApproval, WriteLearning, StageBatch,
         ConsolidateBatch, Publish, Export, WriteManifest, UpdateLink, Rerow, DiscardDraft,
         Settle, OutcomeOf, Approving
  <2>3. stats' = stats /\ faults' = faults
    BY DEF SaveRow, WriteApproval, WriteLearning, StageBatch, ConsolidateBatch, Publish,
         Export, WriteManifest, UpdateLink, Rerow, DiscardDraft, Settle
  <2> QED BY <1>2, <1>5, <2>1, <2>2, <2>3 DEF IInv, TypeOK, Call, Stat
<1>8. EffectsFollowRecord'
  <2>1. \A r \in Runs \ {caller[p].run} :
          row'[r] = row[r] /\ batch'[r] = batch[r] /\ linked'[r] = linked[r]
            /\ status'[r] = status[r]
    BY DEF IInv, TypeOK, SaveRow, WriteApproval, WriteLearning, StageBatch, ConsolidateBatch,
         Publish, Export, WriteManifest, UpdateLink, Rerow, DiscardDraft, Settle
  <2>2. \A j \in Jobs \ {Job(p)} : files'[j] = files[j]
    BY DEF IInv, TypeOK, SaveRow, WriteApproval, WriteLearning, StageBatch, ConsolidateBatch,
         Publish, Export, WriteManifest, UpdateLink, Rerow, DiscardDraft, Settle
  <2> QED BY <1>1, <1>2, <2>1, <2>2, EffectsKept
<1> QED BY <1>5, <1>7, <1>8 DEF IInv

\* The steps that read or write statistics: no record, no effect.
LEMMA StatsInv ==
  ASSUME IInv, NEW p \in Reviewers,
         ReadProvider(p) \/ SaveProvider(p) \/ LoadFeedback(p) \/ SaveFeedback(p)
  PROVE  IInv'
<1>0. caller \in [Reviewers -> Call] /\ stats \in [Keys -> Stat]
  BY DEF IInv, TypeOK, Call, Stat
<1>1. caller[p].pc \in {"providers", "feedback", "save"}
  BY DEF ReadProvider, SaveProvider, LoadFeedback, SaveFeedback, At
<1>2. /\ caller[p].seen \in [Keys -> Stat] /\ caller[p].todo \subseteq Keys
      /\ caller[p].key \in Keys \union {None}
  BY <1>0 DEF Call
<1>3. NoStat \in Stat
  BY DEF NoStat, Stat
<1>4. PICK c \in Call : /\ caller' = [caller EXCEPT ![p] = c]
                        /\ c.run = caller[p].run /\ c.kind = caller[p].kind
                        /\ c.pc \in {"providers", "feedback", "save", "memory"}
  <2>1. CASE ReadProvider(p)
    <3>1. PICK k \in Keys : caller' = [caller EXCEPT ![p].key = k, ![p].seen[k] = stats[k]]
      BY <2>1 DEF ReadProvider, Keys
    <3> DEFINE c == [caller[p] EXCEPT !.key = k, !.seen[k] = stats[k]]
    <3>2. c \in Call /\ c.run = caller[p].run /\ c.kind = caller[p].kind /\ c.pc = caller[p].pc
      BY <1>0, <1>2, <3>1 DEF Call
    <3>3. caller' = [caller EXCEPT ![p] = c]
      BY <1>0, <3>1 DEF Call
    <3> QED BY <1>1, <3>2, <3>3
  <2>2. CASE SaveProvider(p)
    <3> DEFINE k == caller[p].key
               rest == caller[p].todo \ {k}
               c == [caller[p] EXCEPT !.key = None, !.todo = rest, !.seen[k] = NoStat,
                       !.pc = IF rest \cap Providers = {} THEN "feedback" ELSE "providers"]
    <3>1. caller' = [caller EXCEPT ![p] = c]
      BY <2>2 DEF SaveProvider
    <3>2. k \in Keys /\ rest \subseteq Keys
      BY <1>2, <2>2 DEF SaveProvider
    <3>3. [caller[p].seen EXCEPT ![k] = NoStat] \in [Keys -> Stat]
      BY <1>2, <1>3, <3>2
    <3>4. caller[p] \in Call
      BY <1>0
    <3> HIDE DEF k, rest
    <3>5. c \in Call /\ c.run = caller[p].run /\ c.kind = caller[p].kind
          /\ c.pc \in {"providers", "feedback"}
      BY <3>2, <3>3, <3>4 DEF Call, Steps
    <3> QED BY <3>1, <3>5 DEF k, rest
  <2>3. CASE LoadFeedback(p)
    <3> DEFINE loaded == [k \in Keys |-> IF k \in Combos THEN stats[k] ELSE NoStat]
               c == [caller[p] EXCEPT !.pc = "save", !.seen = loaded]
    <3>1. caller' = [caller EXCEPT ![p] = c]
      BY <1>0, <2>3 DEF LoadFeedback, Call
    <3>2. loaded \in [Keys -> Stat]
      BY <1>0, <1>3
    <3>3. c \in Call /\ c.run = caller[p].run /\ c.kind = caller[p].kind /\ c.pc = "save"
      BY <1>0, <3>2 DEF Call, Steps
    <3> QED BY <3>1, <3>3
  <2>4. CASE SaveFeedback(p)
    <3>1. PICK k \in caller[p].todo :
            caller' = [caller EXCEPT ![p] =
              [@ EXCEPT !.todo = caller[p].todo \ {k}, !.seen[k] = NoStat,
                        !.pc = IF caller[p].todo \ {k} = {} THEN "memory" ELSE "save"]]
      BY <2>4 DEF SaveFeedback
    <3> DEFINE rest == caller[p].todo \ {k}
               c == [caller[p] EXCEPT !.todo = rest, !.seen[k] = NoStat,
                       !.pc = IF rest = {} THEN "memory" ELSE "save"]
    <3>2. caller' = [caller EXCEPT ![p] = c]
      BY <3>1
    <3>3. k \in Keys /\ rest \subseteq Keys
      BY <1>2
    <3>4. [caller[p].seen EXCEPT ![k] = NoStat] \in [Keys -> Stat]
      BY <1>2, <1>3, <3>3
    <3>5. caller[p] \in Call
      BY <1>0
    <3> HIDE DEF rest
    <3>6. c \in Call /\ c.run = caller[p].run /\ c.kind = caller[p].kind
          /\ c.pc \in {"save", "memory"}
      BY <3>3, <3>4, <3>5 DEF Call, Steps
    <3> QED BY <3>2, <3>6
  <2> QED BY <2>1, <2>2, <2>3, <2>4
<1>5. /\ record' = record /\ row' = row /\ files' = files /\ manifest' = manifest
      /\ batch' = batch /\ linked' = linked /\ status' = status /\ faults' = faults
  BY DEF ReadProvider, SaveProvider, LoadFeedback, SaveFeedback
<1>6. stats' \in [Keys -> Stat]
  <2>1. CASE SaveProvider(p)
    <3>1. caller[p].key \in Keys
      BY <1>2, <2>1 DEF SaveProvider
    <3>2. Count(caller[p].seen[caller[p].key], caller[p].key, p) \in Stat
      BY <1>2, <3>1, CountType
    <3> QED BY <1>0, <2>1, <3>2 DEF SaveProvider
  <2>2. CASE SaveFeedback(p)
    <3>1. PICK k \in caller[p].todo :
            stats' = [stats EXCEPT ![k] = Count(caller[p].seen[k], k, p)]
      BY <2>2 DEF SaveFeedback
    <3>2. Count(caller[p].seen[k], k, p) \in Stat
      BY <1>2, CountType
    <3> QED BY <1>0, <3>1, <3>2
  <2>3. CASE ReadProvider(p) \/ LoadFeedback(p)
    BY <1>0, <2>3 DEF ReadProvider, LoadFeedback
  <2> QED BY <2>1, <2>2, <2>3
<1>7. caller' \in [Reviewers -> Call]
  BY <1>0, <1>4
<1>8. TypeOK'
  BY <1>5, <1>6, <1>7 DEF IInv, TypeOK, Call, Stat
<1>9. CallFacts' /\ OneCallPerJob'
  <2>1. c.pc \in Steps /\ c.pc \in Late /\ caller[p].pc \in Steps /\ caller[p].pc \in Late
    BY <1>1, <1>4 DEF Steps, Late, Early
  <2>2. c.pc \notin Early
    BY <2>1 DEF Late
  <2> QED BY <1>4, <1>5, <2>1, <2>2, CallMoves
<1>10. EffectsFollowRecord'
  BY <1>5, EffectsUntouched DEF IInv
<1> QED BY <1>8, <1>9, <1>10 DEF IInv

\* The record is completed with the translation it led to; the decision stays.
LEMMA RerecordInv ==
  ASSUME IInv, NEW p \in Reviewers, Rerecord(p)
  PROVE  /\ IInv'
         /\ \A j \in Jobs : record'[j].kind = record[j].kind
         /\ \A j \in Jobs : record[j].published => record'[j].published
<1> DEFINE c == [caller[p] EXCEPT !.pc = "rerow"]
<1>0. caller \in [Reviewers -> Call] /\ JobOf \in [Runs -> Jobs]
  BY ReviewAssumption DEF IInv, TypeOK, Call, Stat
<1>1. caller' = [caller EXCEPT ![p] = c] /\ caller[p].pc = "rerecord"
  BY DEF Rerecord, Go, At
<1>2. caller[p].pc \in Steps /\ caller[p].pc \in Late
  BY <1>1 DEF Steps, Late, Early
<1>3. caller[p].run \in Runs /\ caller[p].kind \in Kinds /\ Job(p) \in Jobs
  BY <1>2, AtWork
<1>4. record[Job(p)].kind = caller[p].kind
  BY <1>2 DEF IInv, CallFacts
<1>5. record \in [Jobs -> [kind : Kinds \union {"none"}, published : BOOLEAN]]
  BY DEF IInv, TypeOK
<1>6. record' = [record EXCEPT ![Job(p)] = [kind |-> caller[p].kind, published |-> TRUE]]
  BY DEF Rerecord
<1>7. record' \in [Jobs -> [kind : Kinds \union {"none"}, published : BOOLEAN]]
  BY <1>3, <1>5, <1>6
<1>8. /\ \A j \in Jobs : record'[j].kind = record[j].kind
      /\ \A j \in Jobs : record[j].published => record'[j].published
  BY <1>3, <1>4, <1>5, <1>6
<1>9. c \in Call /\ c.pc = "rerow" /\ c.run = caller[p].run /\ c.kind = caller[p].kind
  BY <1>0 DEF Call, Steps
<1>10. \A q \in Reviewers : caller'[q] = IF q = p THEN c ELSE caller[q]
  BY <1>0, <1>1
<1>11. \A q \in Reviewers :
         /\ Job(q)' = Job(q) /\ caller'[q].run = caller[q].run
         /\ caller'[q].kind = caller[q].kind
         /\ caller'[q].pc \in Steps => caller[q].pc \in Steps
         /\ caller'[q].pc \in Early => caller[q].pc \in Early
         /\ caller'[q].pc \in Late => caller[q].pc \in Late
  BY <1>2, <1>9, <1>10 DEF Job, Early
<1>12. TypeOK'
  <2>1. caller' \in [Reviewers -> Call]
    BY <1>0, <1>1, <1>9
  <2> QED BY <1>7, <2>1 DEF IInv, TypeOK, Rerecord, Call, Stat
<1>13. OneCallPerJob'
  BY <1>11 DEF IInv, OneCallPerJob
<1>14. CallFacts'
  <2> SUFFICES ASSUME NEW q \in Reviewers, caller'[q].pc \in Steps
               PROVE  /\ caller'[q].run \in Runs
                      /\ caller'[q].kind \in Kinds
                      /\ caller'[q].pc \in Early => record'[Job(q)'].kind = "none"
                      /\ caller'[q].pc \in Late => record'[Job(q)'].kind = caller'[q].kind
    BY DEF CallFacts
  <2>1. caller[q].run \in Runs /\ Job(q) \in Jobs
    BY <1>0, <1>11 DEF IInv, CallFacts, Job
  <2> QED BY <2>1, <1>8, <1>11 DEF IInv, CallFacts
<1>15. EffectsFollowRecord'
  BY <1>0, <1>8 DEF IInv, EffectsFollowRecord, Rerecord
<1> QED BY <1>8, <1>12, <1>13, <1>14, <1>15 DEF IInv

\* A call that dies leaves everything as it was.
LEMMA DiesInv ==
  ASSUME IInv, NEW p \in Reviewers, Dies(p)
  PROVE  IInv'
<1>1. caller[p].pc \in Steps /\ Go(p, "dead") /\ record' = record
  BY DEF Dies
<1>2. caller' \in [Reviewers -> Call] /\ CallFacts' /\ OneCallPerJob'
  BY <1>1, GoMoves DEF Steps, Early, Late
<1>3. faults' \in 0..MaxFaults
  BY ReviewAssumption DEF IInv, TypeOK, Dies
<1>4. TypeOK'
  BY <1>2, <1>3 DEF IInv, TypeOK, Dies, Call, Stat
<1>5. EffectsFollowRecord'
  BY EffectsUntouched DEF IInv, Dies
<1> QED BY <1>2, <1>4, <1>5 DEF IInv

\* A draft is no effect of a resolution.
LEMMA SaveDraftInv ==
  ASSUME IInv, NEW r \in Runs, SaveDraft(r)
  PROVE  IInv'
<1>1. JobOf[r] \in Jobs /\ files \in [Jobs -> SUBSET Artifacts]
  BY ReviewAssumption DEF IInv, TypeOK
<1>2. files' \in [Jobs -> SUBSET Artifacts]
  BY <1>1 DEF SaveDraft, Artifacts
<1>3. TypeOK'
  BY <1>2 DEF IInv, TypeOK, SaveDraft
<1>4. CallFacts' /\ OneCallPerJob'
  BY DEF IInv, CallFacts, OneCallPerJob, SaveDraft, Job
<1>5. \A j \in Jobs : files'[j] \subseteq files[j] \union {"draft"}
  BY <1>1 DEF SaveDraft
<1>6. EffectsFollowRecord'
  BY <1>5, EffectsUntouched DEF IInv, SaveDraft
<1> QED BY <1>3, <1>4, <1>6 DEF IInv
-----------------------------------------------------------------------------
\* Every step keeps the invariant.
LEMMA NextInv == IInv /\ ~Racing /\ [Next]_vars => IInv'
<1> SUFFICES ASSUME IInv, ~Racing, [Next]_vars PROVE IInv'
  OBVIOUS
<1>1. CASE UNCHANGED vars
  BY <1>1 DEF vars, IInv, TypeOK, CallFacts, OneCallPerJob, EffectsFollowRecord, Job
<1>2. CASE \E p \in Reviewers, r \in Runs, kind \in Kinds, combo \in Combos \union {None},
             provider \in Providers \union {None} : Resolve(p, r, kind, combo, provider)
  BY <1>2, ResolveInv
<1>3. ASSUME NEW p \in Reviewers, Step(p) PROVE IInv'
  <2>1. CASE SaveCandidate(p)
    BY <2>1, SaveCandidateInv
  <2>2. CASE WriteRecord(p)
    BY <2>2, WriteRecordInv
  <2>3. CASE \/ SaveRow(p) \/ WriteApproval(p) \/ WriteLearning(p) \/ StageBatch(p)
             \/ ConsolidateBatch(p) \/ Publish(p) \/ Export(p) \/ WriteManifest(p)
             \/ UpdateLink(p) \/ Rerow(p) \/ DiscardDraft(p) \/ Settle(p)
    BY <2>3, WriteInv
  <2>4. CASE ReadProvider(p) \/ SaveProvider(p) \/ LoadFeedback(p) \/ SaveFeedback(p)
    BY <2>4, StatsInv
  <2>5. CASE Rerecord(p)
    BY <2>5, RerecordInv
  <2> QED BY <1>3, <2>1, <2>2, <2>3, <2>4, <2>5 DEF Step
<1>4. CASE \E p \in Reviewers : Dies(p)
  BY <1>4, DiesInv
<1>5. CASE \E r \in Runs : SaveDraft(r)
  BY <1>5, SaveDraftInv
<1> QED BY <1>1, <1>2, <1>3, <1>4, <1>5 DEF Next

\* The invariant holds in every reachable state of every behaviour of the calls.
LEMMA InvariantHolds == Racing = FALSE => (Spec => []IInv)
<1> SUFFICES ASSUME Racing = FALSE PROVE Spec => []IInv
  OBVIOUS
<1>1. IInv /\ [Next]_vars => IInv'
  BY NextInv
<1> QED BY <1>1, InitInv, PTL DEF Spec

\* Whatever is found in the blob store and the database is of its type.
THEOREM TypeCorrect == Racing = FALSE => (Spec => []TypeOK)
<1>1. IInv => TypeOK
  BY DEF IInv
<1> QED BY <1>1, InvariantHolds, PTL

\* No effect of a resolution is visible without the decision it follows from,
\* wherever the calls have died (review_flow.py: the record is written first).
THEOREM RecordComesFirst == Racing = FALSE => (Spec => []EffectsFollowRecord)
<1>1. IInv => EffectsFollowRecord
  BY DEF IInv
<1> QED BY <1>1, InvariantHolds, PTL
-----------------------------------------------------------------------------
\* A decision goes on record where there is none.
LEMMA WriteRecordDecides ==
  ASSUME IInv, NEW p \in Reviewers, WriteRecord(p)
  PROVE  /\ caller[p].kind \in Kinds /\ Job(p) \in Jobs /\ record[Job(p)].kind = "none"
         /\ record' = [record EXCEPT ![Job(p)] = [kind |-> caller[p].kind, published |-> FALSE]]
<1>1. caller[p].pc \in Steps /\ caller[p].pc \in Early
  BY DEF WriteRecord, At, Steps, Early
<1> QED BY <1>1, AtWork DEF IInv, CallFacts, WriteRecord

\* Every step leaves the records alone, writes one where there is none, or keeps
\* the decision it completes.
LEMMA RecordSteps ==
  ASSUME IInv, Next
  PROVE  \/ record' = record
         \/ \E p \in Reviewers : WriteRecord(p)
         \/ \E p \in Reviewers : Rerecord(p)
<1>1. CASE \E p \in Reviewers : Step(p)
  BY <1>1 DEF Step, SaveCandidate, SaveRow, WriteApproval, WriteLearning, ReadProvider,
     SaveProvider, LoadFeedback, SaveFeedback, StageBatch, ConsolidateBatch, Publish, Export,
     WriteManifest, UpdateLink, Rerow, DiscardDraft, Settle
<1>2. CASE \E p \in Reviewers, r \in Runs, kind \in Kinds, combo \in Combos \union {None},
             provider \in Providers \union {None} : Resolve(p, r, kind, combo, provider)
  BY <1>2 DEF Resolve, Starts
<1>3. CASE (\E p \in Reviewers : Dies(p)) \/ (\E r \in Runs : SaveDraft(r))
  BY <1>3 DEF Dies, SaveDraft
<1> QED BY <1>1, <1>2, <1>3 DEF Next

\* A decision on record is never changed by anyone, and its published translation
\* is never lost (review_flow.py: the second write of the resolution blob).
THEOREM DecisionNeverChanges == Racing = FALSE => (Spec => DecisionIsFinal)
<1> DEFINE Kept == \A j \in Jobs : record[j].kind # "none" =>
                     /\ record'[j].kind = record[j].kind
                     /\ record[j].published => record'[j].published
<1>1. IInv /\ [Next]_vars => [Kept]_vars
  <2> SUFFICES ASSUME IInv, Next PROVE Kept
    OBVIOUS
  <2>1. CASE record' = record
    BY <2>1
  <2>2. CASE \E p \in Reviewers : WriteRecord(p)
    <3>1. PICK p \in Reviewers : WriteRecord(p)
      BY <2>2
    <3>2. /\ record[Job(p)].kind = "none"
          /\ record' = [record EXCEPT ![Job(p)] = [kind |-> caller[p].kind, published |-> FALSE]]
      BY <3>1, WriteRecordDecides
    <3>3. \A j \in Jobs : j # Job(p) => record'[j] = record[j]
      BY <3>2 DEF IInv, TypeOK
    <3> QED BY <3>2, <3>3
  <2>3. CASE \E p \in Reviewers : Rerecord(p)
    BY <2>3, RerecordInv
  <2> QED BY <2>1, <2>2, <2>3, RecordSteps
<1>2. Racing = FALSE => (Spec => [][Kept]_vars)
  BY <1>1, InvariantHolds, PTL DEF Spec
<1> QED BY <1>2 DEF DecisionIsFinal
-----------------------------------------------------------------------------
\* The same for the runs: a step leaves the statuses alone or settles a run.
LEMMA StatusSteps ==
  ASSUME IInv, Next
  PROVE  status' = status \/ \E p \in Reviewers : Settle(p)
<1>1. CASE \E p \in Reviewers : Step(p)
  BY <1>1 DEF Step, SaveCandidate, WriteRecord, SaveRow, WriteApproval, WriteLearning,
     ReadProvider, SaveProvider, LoadFeedback, SaveFeedback, StageBatch, ConsolidateBatch,
     Publish, Export, WriteManifest, UpdateLink, Rerecord, Rerow, DiscardDraft, Settle
<1>2. CASE \E p \in Reviewers, r \in Runs, kind \in Kinds, combo \in Combos \union {None},
             provider \in Providers \union {None} : Resolve(p, r, kind, combo, provider)
  BY <1>2 DEF Resolve, Starts
<1>3. CASE (\E p \in Reviewers : Dies(p)) \/ (\E r \in Runs : SaveDraft(r))
  BY <1>3 DEF Dies, SaveDraft
<1> QED BY <1>1, <1>2, <1>3 DEF Next

\* The state ReviewDecision sees.
Decision == [j \in Jobs |-> VerdictOf(record[j].kind)]
Outcome == [r \in Runs |-> OutcomeSeen(status[r])]

\* Writing the record is the decision.
LEMMA WriteRecordRefines ==
  ASSUME IInv, NEW p \in Reviewers, WriteRecord(p)
  PROVE  Abstract!Next
<1> DEFINE verdict == VerdictOf(caller[p].kind)
<1>1. /\ caller[p].kind \in Kinds /\ Job(p) \in Jobs /\ record[Job(p)].kind = "none"
      /\ record' = [record EXCEPT ![Job(p)] = [kind |-> caller[p].kind, published |-> FALSE]]
  BY WriteRecordDecides
<1>2. verdict \in {"approved", "rejected"}
  BY <1>1 DEF VerdictOf, Kinds
<1>3. record'[Job(p)].kind = caller[p].kind
      /\ \A j \in Jobs : j # Job(p) => record'[j] = record[j]
  BY <1>1 DEF IInv, TypeOK
<1>4. Decision[Job(p)] = "none"
  BY <1>1 DEF Decision, VerdictOf
<1>5. Decision' = [Decision EXCEPT ![Job(p)] = verdict]
  <2> DEFINE D == Decision'
             E == [Decision EXCEPT ![Job(p)] = verdict]
  <2>1. D = [j \in Jobs |-> VerdictOf(record'[j].kind)]
    BY DEF Decision, VerdictOf, Approves
  <2>2. \A j \in Jobs : E[j] = IF j = Job(p) THEN verdict ELSE VerdictOf(record[j].kind)
    BY DEF Decision
  <2>3. \A j \in Jobs : D[j] = E[j]
    BY <1>3, <2>1, <2>2
  <2>4. DOMAIN E = Jobs /\ E = [j \in Jobs |-> E[j]]
    BY DEF Decision
  <2> HIDE DEF D, E
  <2>5. D = E
    BY <2>1, <2>3, <2>4
  <2> QED BY <2>5 DEF D, E
<1>6. Outcome' = Outcome
  BY DEF Outcome, WriteRecord
<1>7. Abstract!Decide(Job(p), verdict)
  BY <1>4, <1>5, <1>6 DEF Abstract!Decide, Decision, Outcome
<1> QED BY <1>1, <1>2, <1>7 DEF Abstract!Next

\* Settling the run gives it the outcome that was decided.
LEMMA SettleRefines ==
  ASSUME IInv, NEW p \in Reviewers, Settle(p)
  PROVE  Abstract!Next
<1>1. caller[p].pc \in Steps /\ caller[p].pc \in Late
  BY DEF Settle, At, Steps, Late, Early
<1>2. caller[p].run \in Runs /\ caller[p].kind \in Kinds /\ Job(p) \in Jobs
  BY <1>1, AtWork
<1>3. record[Job(p)].kind = caller[p].kind /\ Job(p) = JobOf[caller[p].run]
  BY <1>1 DEF IInv, CallFacts, Job
<1>4. status' = [status EXCEPT ![caller[p].run] = OutcomeOf(caller[p].kind)]
  BY DEF Settle
<1>5. /\ \A r \in Runs : r # caller[p].run => status'[r] = status[r]
      /\ status'[caller[p].run] = OutcomeOf(caller[p].kind)
  BY <1>2, <1>4 DEF IInv, TypeOK
<1>6. OutcomeSeen(OutcomeOf(caller[p].kind)) = VerdictOf(caller[p].kind)
  BY <1>2 DEF OutcomeSeen, OutcomeOf, VerdictOf, Kinds, Approves
<1>7. Decision[JobOf[caller[p].run]] = VerdictOf(caller[p].kind)
      /\ VerdictOf(caller[p].kind) # "none"
  BY <1>2, <1>3 DEF Decision, VerdictOf, Kinds
<1>8. Outcome' = [Outcome EXCEPT ![caller[p].run] = Decision[JobOf[caller[p].run]]]
  BY <1>2, <1>5, <1>6, <1>7 DEF Outcome
<1>9. Decision' = Decision
  BY DEF Decision, Settle
<1>10. Abstract!Settle(caller[p].run)
  BY <1>7, <1>8, <1>9 DEF Abstract!Settle, Decision, Outcome
<1> QED BY <1>2, <1>10 DEF Abstract!Next

\* The many writes of the calls amount to one decision per job and to outcomes
\* that follow it (resolve_translation_review as ReviewDecision describes it).
THEOREM ResolutionImplementsDecision == Racing = FALSE => (Spec => ImplementsDecision)
<1> SUFFICES ASSUME Racing = FALSE PROVE Spec => ImplementsDecision
  OBVIOUS
<1>1. Init => Abstract!Init
  <2> SUFFICES ASSUME Init PROVE Abstract!Init
    OBVIOUS
  <2>1. \A j \in Jobs : VerdictOf(record[j].kind) = "none"
    BY DEF Init, VerdictOf
  <2>2. \A r \in Runs : OutcomeSeen(status[r]) = "pending"
    BY DEF Init, OutcomeSeen
  <2> QED BY <2>1, <2>2 DEF Abstract!Init
<1>2. IInv /\ [Next]_vars => [Abstract!Next]_(Abstract!reviewVars)
  <2> SUFFICES ASSUME IInv, [Next]_vars
               PROVE  [Abstract!Next]_(Abstract!reviewVars)
    OBVIOUS
  <2>1. CASE UNCHANGED vars
    BY <2>1 DEF vars, Abstract!reviewVars
  <2>2. CASE \E p \in Reviewers : WriteRecord(p)
    BY <2>2, WriteRecordRefines
  <2>3. CASE \E p \in Reviewers : Settle(p)
    BY <2>3, SettleRefines
  <2>4. ASSUME status' = status, NEW p \in Reviewers, Rerecord(p)
        PROVE  UNCHANGED Abstract!reviewVars
    BY <2>4, RerecordInv DEF Abstract!reviewVars
  <2>5. ASSUME status' = status, record' = record
        PROVE  UNCHANGED Abstract!reviewVars
    BY <2>5 DEF Abstract!reviewVars
  <2> QED BY <2>1, <2>2, <2>3, <2>4, <2>5, RecordSteps, StatusSteps
<1> QED BY <1>1, <1>2, InvariantHolds, PTL DEF Spec, ImplementsDecision, Abstract!Spec
-----------------------------------------------------------------------------
\* How far a call at work has come.
PastRerecord == {"rerow", "discard", "settle"}
PastLink == PastRerecord \union {"rerecord"}
PastManifest == PastLink \union {"link"}
PastExports == PastManifest \union {"manifest"}
PastPublish == PastExports \union {"exports"}
PastMemory == PastPublish \union {"publish"}
PastLearning == PastMemory \union {"providers", "feedback", "save", "memory", "consolidate"}
PastApproval == PastLearning \union {"learning"}
PastRow == PastApproval \union {"approval"}

\* What a call at work has left behind under its job, by the step it is at.
JobProgress(p) ==
  /\ caller[p].pc \in {"candidate", "approval", "learning", "rerecord", "rerow"} => Approving(p)
  /\ Approving(p) =>
       /\ caller[p].pc \in {"record"} \union Late => "reviewed" \in files[Job(p)]
       /\ caller[p].pc \in PastApproval => "approval" \in files[Job(p)]
       /\ caller[p].pc \in PastLearning /\ caller[p].provider # None
            => "learning" \in files[Job(p)]
       /\ caller[p].pc \in PastPublish => "translation" \in files[Job(p)]
       /\ caller[p].pc \in PastExports => "srt" \in files[Job(p)]
       /\ caller[p].pc \in PastManifest
            => {"translation", "srt", "approval"} \subseteq manifest[Job(p)]
       /\ caller[p].pc \in PastRerecord => record[Job(p)].published
  /\ ~Approving(p) /\ caller[p].pc \in PastPublish => "translation-failed" \in files[Job(p)]

\* The same for its run, and no run of its job is settled before its own.
RunProgress(p) ==
  /\ caller[p].pc \in PastRow => row[caller[p].run] = caller[p].kind
  /\ caller[p].pc \in PastMemory => batch[caller[p].run] = "consolidated"
  /\ caller[p].pc \in PastLink /\ Approving(p) => linked[caller[p].run]
  /\ caller[p].pc \in Late =>
       \A r \in Runs : JobOf[r] = Job(p) => status[r] = "human_review_required"

\* What is filed under a job agrees with the decision on record for it, at every
\* moment and wherever a call has died; the manifest never names the draft, which
\* is the one file a later call or the TUI takes away.
JobAgrees(j) ==
  /\ manifest[j] \subseteq files[j] \ {"draft"}
  /\ Approves(record[j].kind) => "translation-failed" \notin files[j]
  /\ ~Approves(record[j].kind) =>
       /\ files[j] \cap {"approval", "learning", "translation", "srt"} = {}
       /\ ~record[j].published

RunAgrees(r) ==
  /\ row[r] \in {"none", record[JobOf[r]].kind}
  /\ linked[r] => Approves(record[JobOf[r]].kind)

\* All that was to be done for a settled run has been done.
Told(r) ==
  LET j == JobOf[r] IN
  /\ record[j].kind # "none" /\ row[r] = record[j].kind /\ batch[r] = "consolidated"
  /\ status[r] = OutcomeOf(record[j].kind)
  /\ IF Approves(record[j].kind)
     THEN /\ {"reviewed", "approval", "translation", "srt"} \subseteq files[j]
          /\ {"translation", "srt", "approval"} \subseteq manifest[j]
          /\ record[j].published
          /\ linked[r]
     ELSE "translation-failed" \in files[j]

StoryInv ==
  /\ IInv
  /\ \A p \in Reviewers : caller[p].pc \in Steps => JobProgress(p) /\ RunProgress(p)
  /\ \A j \in Jobs : JobAgrees(j)
  /\ \A r \in Runs : RunAgrees(r) /\ (status[r] # "human_review_required" => Told(r))

\* Nothing of a resolution is found under a run whose job has no decision on record,
\* nor is a run settled whose own call is still at work.
LEMMA Unsettled ==
  ASSUME StoryInv, NEW p \in Reviewers, caller[p].pc \in Steps,
         NEW r \in Runs, JobOf[r] = Job(p)
  PROVE  status[r] = "human_review_required"
<1>1. CASE caller[p].pc \in Early
  <2>1. record[Job(p)].kind = "none"
    BY <1>1 DEF StoryInv, IInv, CallFacts
  <2> QED BY <2>1 DEF StoryInv, IInv, EffectsFollowRecord
<1>2. CASE caller[p].pc \in Late
  BY <1>2 DEF StoryInv, RunProgress
<1> QED BY <1>1, <1>2 DEF Late

LEMMA InitStory == Init => StoryInv
<1> SUFFICES ASSUME Init PROVE StoryInv
  OBVIOUS
<1>1. \A j \in Jobs : JobAgrees(j)
  BY DEF Init, JobAgrees, Approves
<1>2. \A r \in Runs : RunAgrees(r) /\ status[r] = "human_review_required"
  BY ReviewAssumption DEF Init, RunAgrees
<1>3. \A p \in Reviewers : caller[p].pc \notin Steps
  BY DEF Init, NoCall, Steps
<1> QED BY <1>1, <1>2, <1>3, InitInv DEF StoryInv

\* A call p moves on and touches nothing but its own run s and its job j.
LEMMA StoryMoves ==
  ASSUME StoryInv, IInv', NEW p \in Reviewers, NEW j \in Jobs, NEW s \in Runs,
         caller[p].pc \in Steps, j = Job(p), s = caller[p].run,
         \A q \in Reviewers \ {p} : caller'[q] = caller[q],
         \A i \in Jobs \ {j} :
           files'[i] = files[i] /\ manifest'[i] = manifest[i] /\ record'[i] = record[i],
         \A r \in Runs \ {s} :
           row'[r] = row[r] /\ batch'[r] = batch[r] /\ linked'[r] = linked[r]
             /\ status'[r] = status[r],
         record[j].kind \in {"none", record'[j].kind},
         caller'[p].pc \in Steps => JobProgress(p)' /\ RunProgress(p)',
         JobAgrees(j)', RunAgrees(s)',
         status'[s] # "human_review_required" => Told(s)'
  PROVE  StoryInv'
<1>1. ASSUME NEW q \in Reviewers, caller'[q].pc \in Steps
      PROVE  JobProgress(q)' /\ RunProgress(q)'
  <2>1. CASE q = p
    BY <1>1, <2>1
  <2>2. CASE q # p
    <3>1. caller'[q] = caller[q] /\ Job(q)' = Job(q) /\ Approving(q)' = Approving(q)
      BY <2>2 DEF Job, Approving
    <3>2. Job(q) # j /\ caller[q].run # s
      BY <1>1, <2>2, <3>1 DEF StoryInv, IInv, OneCallPerJob, Job
    <3>3. caller[q].run \in Runs /\ Job(q) \in Jobs
      BY <1>1, <3>1, AtWork DEF StoryInv
    <3>4. JobProgress(q) /\ RunProgress(q)
      BY <1>1, <3>1 DEF StoryInv
    <3>5. JobProgress(q)'
      BY <3>1, <3>2, <3>3, <3>4 DEF JobProgress
    <3>6. \A r \in Runs : JobOf[r] = Job(q) => r # s
      BY <3>2 DEF Job
    <3>7. RunProgress(q)'
      BY <3>1, <3>2, <3>3, <3>4, <3>6 DEF RunProgress
    <3> QED BY <3>5, <3>7
  <2> QED BY <2>1, <2>2
<1>2. ASSUME NEW i \in Jobs PROVE JobAgrees(i)'
  <2>1. CASE i = j
    BY <2>1
  <2>2. CASE i # j
    BY <2>2 DEF StoryInv, JobAgrees
  <2> QED BY <2>1, <2>2
<1>3. ASSUME NEW r \in Runs
      PROVE  RunAgrees(r)' /\ (status'[r] # "human_review_required" => Told(r)')
  <2>1. CASE r = s
    BY <2>1
  <2>2. CASE r # s /\ JobOf[r] = j
    <3>1. status'[r] = "human_review_required"
      BY <2>2, Unsettled
    <3>2. record[j].kind = "none" => row[r] = "none" /\ ~linked[r]
      BY <2>2 DEF StoryInv, IInv, EffectsFollowRecord
    <3>3. row'[r] = row[r] /\ linked'[r] = linked[r] /\ RunAgrees(r)
      BY <2>2 DEF StoryInv
    <3>4. linked[r] \in BOOLEAN
      BY DEF StoryInv, IInv, TypeOK
    <3> QED BY <2>2, <3>1, <3>2, <3>3, <3>4 DEF RunAgrees
  <2>3. CASE r # s /\ JobOf[r] # j
    <3>1. JobOf[r] \in Jobs
      BY ReviewAssumption
    <3>2. RunAgrees(r) /\ (status[r] # "human_review_required" => Told(r))
      BY DEF StoryInv
    <3>3. /\ row'[r] = row[r] /\ batch'[r] = batch[r] /\ linked'[r] = linked[r]
          /\ status'[r] = status[r] /\ files'[JobOf[r]] = files[JobOf[r]]
          /\ manifest'[JobOf[r]] = manifest[JobOf[r]] /\ record'[JobOf[r]] = record[JobOf[r]]
      BY <2>3, <3>1
    <3> QED BY <3>2, <3>3 DEF RunAgrees, Told
  <2> QED BY <2>1, <2>2, <2>3
<1> QED BY <1>1, <1>2, <1>3 DEF StoryInv

\* What Go does to the callers.
LEMMA GoEffect ==
  ASSUME caller \in [Reviewers -> Call], NEW p \in Reviewers, NEW step, Go(p, step)
  PROVE  /\ \A q \in Reviewers \ {p} : caller'[q] = caller[q]
         /\ caller'[p].pc = step /\ caller'[p].run = caller[p].run
         /\ caller'[p].kind = caller[p].kind /\ caller'[p].provider = caller[p].provider
         /\ caller'[p].todo = caller[p].todo /\ caller'[p].key = caller[p].key
         /\ caller'[p].seen = caller[p].seen
         /\ Job(p)' = Job(p) /\ Approving(p)' = Approving(p)
<1>1. caller'[p] = [caller[p] EXCEPT !.pc = step]
      /\ \A q \in Reviewers \ {p} : caller'[q] = caller[q]
  BY DEF Go
<1>2. caller[p] \in Call
  OBVIOUS
<1> QED BY <1>1, <1>2 DEF Call, Job, Approving

\* What is known of a call at work, and of its run and job.
LEMMA AtItsStep ==
  ASSUME StoryInv, NEW p \in Reviewers, caller[p].pc \in Steps
  PROVE  /\ caller[p].run \in Runs /\ caller[p].kind \in Kinds /\ Job(p) \in Jobs
         /\ Job(p) = JobOf[caller[p].run]
         /\ caller[p].pc \in Early => record[Job(p)].kind = "none"
         /\ caller[p].pc \in Late => record[Job(p)].kind = caller[p].kind
         /\ JobProgress(p) /\ RunProgress(p) /\ JobAgrees(Job(p)) /\ RunAgrees(caller[p].run)
         /\ caller \in [Reviewers -> Call]
         /\ \A r \in Runs : JobOf[r] = Job(p) => status[r] = "human_review_required"
<1>1. caller \in [Reviewers -> Call]
  BY DEF StoryInv, IInv, TypeOK, Call, Stat
<1>2. caller[p].run \in Runs /\ caller[p].kind \in Kinds /\ Job(p) \in Jobs
  BY AtWork DEF StoryInv
<1>3. \A r \in Runs : JobOf[r] = Job(p) => status[r] = "human_review_required"
  BY Unsettled
<1>4. /\ caller[p].pc \in Early => record[Job(p)].kind = "none"
      /\ caller[p].pc \in Late => record[Job(p)].kind = caller[p].kind
  BY DEF StoryInv, IInv, CallFacts
<1> QED BY <1>1, <1>2, <1>3, <1>4 DEF StoryInv, Job

\* The steps that save or take away an artifact of the job.
LEMMA FilesStory ==
  ASSUME StoryInv, IInv', NEW p \in Reviewers,
         \/ SaveCandidate(p) \/ WriteApproval(p) \/ WriteLearning(p)
         \/ Publish(p) \/ Export(p) \/ DiscardDraft(p)
  PROVE  StoryInv'
<1>1. caller[p].pc \in Steps
  BY DEF SaveCandidate, WriteApproval, WriteLearning, Publish, Export, DiscardDraft, At, Steps
<1>2. UNCHANGED <<record, row, manifest, batch, linked, status>>
  BY DEF SaveCandidate, WriteApproval, WriteLearning, Publish, Export, DiscardDraft
<1>0. PICK j \in Jobs, s \in Runs : j = Job(p) /\ s = caller[p].run
  BY <1>1, AtItsStep
<1>3. /\ caller[p].kind \in Kinds /\ j = JobOf[s]
      /\ caller[p].pc \in Late => record[j].kind = caller[p].kind
      /\ JobProgress(p) /\ RunProgress(p) /\ JobAgrees(j) /\ RunAgrees(s)
      /\ caller \in [Reviewers -> Call]
      /\ \A r \in Runs : JobOf[r] = j => status[r] = "human_review_required"
  BY <1>0, <1>1, AtItsStep
<1>4. PICK step \in Steps : Go(p, step)
  BY DEF SaveCandidate, WriteApproval, WriteLearning, Publish, Export, DiscardDraft, Steps
<1>5. /\ \A q \in Reviewers \ {p} : caller'[q] = caller[q]
      /\ caller'[p].pc = step /\ caller'[p].run = s
      /\ caller'[p].kind = caller[p].kind /\ caller'[p].provider = caller[p].provider
      /\ Job(p)' = j /\ Approving(p)' = Approving(p)
  BY <1>0, <1>3, <1>4, GoEffect
<1>6. files \in [Jobs -> SUBSET Artifacts]
  BY DEF StoryInv, IInv, TypeOK
<1>7. \A i \in Jobs \ {j} : files'[i] = files[i]
  BY <1>0, <1>6 DEF SaveCandidate, WriteApproval, WriteLearning, Publish, Export, DiscardDraft
<1>8. JobProgress(p)' /\ RunProgress(p)' /\ JobAgrees(j)'
  <2>1. CASE SaveCandidate(p)
    <3>1. caller[p].pc = "candidate" /\ step = "record" /\ files'[j] = files[j] \union {"reviewed"}
      BY <1>0, <1>3, <1>5, <1>6, <2>1, GoEffect DEF SaveCandidate, At
    <3>2. record[j].kind = "none"
      BY <1>0, <1>1, <3>1, AtItsStep DEF Early
    <3> QED BY <1>0, <1>2, <1>3, <1>5, <3>1, <3>2
            DEF JobProgress, RunProgress, JobAgrees, Approves, Late, Early, PastRow, PastApproval,
                PastLearning, PastMemory, PastPublish, PastExports, PastManifest, PastLink,
                PastRerecord
  <2>2. CASE WriteApproval(p)
    <3>1. /\ caller[p].pc = "approval" /\ files'[j] = files[j] \union {"approval"}
          /\ step = IF caller[p].provider # None THEN "learning" ELSE "providers"
      BY <1>0, <1>3, <1>5, <1>6, <2>2, GoEffect DEF WriteApproval, At
    <3> QED BY <1>0, <1>1, <1>2, <1>3, <1>5, <3>1
            DEF JobProgress, RunProgress, JobAgrees, Approving, Late, Early, PastRow, PastApproval,
                PastLearning, PastMemory, PastPublish, PastExports, PastManifest, PastLink,
                PastRerecord, Steps
  <2>3. CASE WriteLearning(p)
    <3>1. /\ caller[p].pc = "learning" /\ files'[j] = files[j] \union {"learning"}
          /\ step = "providers"
      BY <1>0, <1>3, <1>5, <1>6, <2>3, GoEffect DEF WriteLearning, At
    <3> QED BY <1>0, <1>1, <1>2, <1>3, <1>5, <3>1
            DEF JobProgress, RunProgress, JobAgrees, Approving, Late, Early, PastRow, PastApproval,
                PastLearning, PastMemory, PastPublish, PastExports, PastManifest, PastLink,
                PastRerecord, Steps
  <2>4. CASE Publish(p)
    <3>1. /\ caller[p].pc = "publish" /\ step = "exports"
          /\ files'[j] = files[j] \union
                           {IF Approving(p) THEN "translation" ELSE "translation-failed"}
      BY <1>0, <1>3, <1>5, <1>6, <2>4, GoEffect DEF Publish, At
    <3> QED BY <1>0, <1>1, <1>2, <1>3, <1>5, <3>1
            DEF JobProgress, RunProgress, JobAgrees, Approving, Late, Early, PastRow, PastApproval,
                PastLearning, PastMemory, PastPublish, PastExports, PastManifest, PastLink,
                PastRerecord, Steps
  <2>5. CASE Export(p)
    <3>1. /\ caller[p].pc = "exports" /\ step = "manifest"
          /\ files'[j] = IF Approving(p) THEN files[j] \union {"srt"} ELSE files[j] \ {"srt"}
      BY <1>0, <1>3, <1>5, <1>6, <2>5, GoEffect DEF Export, At
    <3> QED BY <1>0, <1>1, <1>2, <1>3, <1>5, <3>1
            DEF JobProgress, RunProgress, JobAgrees, Approving, Late, Early, PastRow, PastApproval,
                PastLearning, PastMemory, PastPublish, PastExports, PastManifest, PastLink,
                PastRerecord, Steps
  <2>6. CASE DiscardDraft(p)
    <3>1. caller[p].pc = "discard" /\ step = "settle" /\ files'[j] = files[j] \ {"draft"}
      BY <1>0, <1>3, <1>5, <1>6, <2>6, GoEffect DEF DiscardDraft, At
    <3> QED BY <1>0, <1>1, <1>2, <1>3, <1>5, <3>1
            DEF JobProgress, RunProgress, JobAgrees, Approving, Late, Early, PastRow, PastApproval,
                PastLearning, PastMemory, PastPublish, PastExports, PastManifest, PastLink,
                PastRerecord, Steps
  <2> QED BY <2>1, <2>2, <2>3, <2>4, <2>5, <2>6
<1>9. RunAgrees(s)' /\ status'[s] = "human_review_required"
  BY <1>2, <1>3 DEF RunAgrees
<1> QED BY <1>0, <1>1, <1>2, <1>3, <1>5, <1>7, <1>8, <1>9, StoryMoves

\* The steps that write a row, the batch, the link or the status of the run.
LEMMA RunStory ==
  ASSUME StoryInv, IInv', NEW p \in Reviewers,
         \/ SaveRow(p) \/ Rerow(p) \/ StageBatch(p) \/ ConsolidateBatch(p)
         \/ UpdateLink(p) \/ Settle(p)
  PROVE  StoryInv'
<1>1. caller[p].pc \in Steps /\ caller[p].pc \in Late
  BY DEF SaveRow, Rerow, StageBatch, ConsolidateBatch, UpdateLink, Settle, At, Steps, Late, Early
<1>2. UNCHANGED <<record, files, manifest>>
  BY DEF SaveRow, Rerow, StageBatch, ConsolidateBatch, UpdateLink, Settle
<1>0. PICK j \in Jobs, s \in Runs : j = Job(p) /\ s = caller[p].run
  BY <1>1, AtItsStep
<1>3. /\ caller[p].kind \in Kinds /\ j = JobOf[s]
      /\ record[j].kind = caller[p].kind
      /\ JobProgress(p) /\ RunProgress(p) /\ JobAgrees(j) /\ RunAgrees(s)
      /\ caller \in [Reviewers -> Call]
      /\ \A r \in Runs : JobOf[r] = j => status[r] = "human_review_required"
  BY <1>0, <1>1, AtItsStep
<1>4. PICK step \in Late \union {"done"} : Go(p, step)
  BY DEF SaveRow, Rerow, StageBatch, ConsolidateBatch, UpdateLink, Settle, Late, Early, Steps
<1>5. /\ \A q \in Reviewers \ {p} : caller'[q] = caller[q]
      /\ caller'[p].pc = step /\ caller'[p].run = s
      /\ caller'[p].kind = caller[p].kind /\ caller'[p].provider = caller[p].provider
      /\ Job(p)' = j /\ Approving(p)' = Approving(p)
  BY <1>0, <1>3, <1>4, GoEffect
<1>6. /\ row \in [Runs -> Kinds \union {"none"}]
      /\ batch \in [Runs -> {"none", "staged", "consolidated"}]
      /\ linked \in [Runs -> BOOLEAN]
      /\ DOMAIN status = Runs
  BY DEF StoryInv, IInv, TypeOK
<1>7. /\ \A r \in Runs \ {s} : row'[r] = row[r] /\ batch'[r] = batch[r]
                               /\ linked'[r] = linked[r] /\ status'[r] = status[r]
  BY <1>0, <1>6 DEF SaveRow, Rerow, StageBatch, ConsolidateBatch, UpdateLink, Settle
<1>8. JobAgrees(j)'
  BY <1>2, <1>3 DEF JobAgrees
<1>9. /\ step # "done" => JobProgress(p)' /\ RunProgress(p)'
      /\ RunAgrees(s)'
      /\ status'[s] # "human_review_required" => Told(s)'
  <2>1. CASE SaveRow(p)
    <3>1. /\ caller[p].pc = "row" /\ step = IF Approving(p) THEN "approval" ELSE "providers"
          /\ row'[s] = caller[p].kind /\ UNCHANGED <<batch, linked, status>>
      BY <1>0, <1>3, <1>5, <1>6, <2>1, GoEffect DEF SaveRow, At
    <3> QED BY <1>0, <1>1, <1>2, <1>3, <1>5, <1>7, <3>1
            DEF JobProgress, RunProgress, RunAgrees, Late, Early, PastRow, PastApproval,
                PastLearning, PastMemory, PastPublish, PastExports, PastManifest, PastLink,
                PastRerecord, Steps
  <2>2. CASE Rerow(p)
    <3>1. /\ caller[p].pc = "rerow" /\ step = "discard"
          /\ row'[s] = caller[p].kind /\ UNCHANGED <<batch, linked, status>>
      BY <1>0, <1>3, <1>5, <1>6, <2>2, GoEffect DEF Rerow, At
    <3> QED BY <1>0, <1>1, <1>2, <1>3, <1>5, <1>7, <3>1
            DEF JobProgress, RunProgress, RunAgrees, Late, Early, PastRow, PastApproval,
                PastLearning, PastMemory, PastPublish, PastExports, PastManifest, PastLink,
                PastRerecord, Steps
  <2>3. CASE StageBatch(p)
    <3>1. /\ caller[p].pc = "memory" /\ step = "consolidate" /\ UNCHANGED <<row, linked, status>>
      BY <1>0, <1>3, <1>5, <1>6, <2>3, GoEffect DEF StageBatch, At
    <3> QED BY <1>0, <1>1, <1>2, <1>3, <1>5, <1>7, <3>1
            DEF JobProgress, RunProgress, RunAgrees, Late, Early, PastRow, PastApproval,
                PastLearning, PastMemory, PastPublish, PastExports, PastManifest, PastLink,
                PastRerecord, Steps
  <2>4. CASE ConsolidateBatch(p)
    <3>1. /\ caller[p].pc = "consolidate" /\ step = "publish" /\ batch'[s] = "consolidated"
          /\ UNCHANGED <<row, linked, status>>
      BY <1>0, <1>3, <1>5, <1>6, <2>4, GoEffect DEF ConsolidateBatch, At
    <3> QED BY <1>0, <1>1, <1>2, <1>3, <1>5, <1>7, <3>1
            DEF JobProgress, RunProgress, RunAgrees, Late, Early, PastRow, PastApproval,
                PastLearning, PastMemory, PastPublish, PastExports, PastManifest, PastLink,
                PastRerecord, Steps
  <2>5. CASE UpdateLink(p)
    <3>1. /\ caller[p].pc = "link" /\ step = IF Approving(p) THEN "rerecord" ELSE "discard"
          /\ linked' = [linked EXCEPT ![s] = linked[s] \/ Approving(p)]
          /\ UNCHANGED <<row, batch, status>>
      BY <1>0, <1>3, <1>5, <2>5, GoEffect DEF UpdateLink, At
    <3>2. Approving(p) => linked'[s]
      BY <1>6, <3>1
    <3>3. ~Approving(p) => (linked'[s] => linked[s])
      BY <1>6, <3>1
    <3> QED BY <1>0, <1>1, <1>2, <1>3, <1>5, <1>7, <3>1, <3>2, <3>3
            DEF JobProgress, RunProgress, RunAgrees, Approving, Late, Early, PastRow, PastApproval,
                PastLearning, PastMemory, PastPublish, PastExports, PastManifest, PastLink,
                PastRerecord, Steps
  <2>6. CASE Settle(p)
    <3>1. /\ caller[p].pc = "settle" /\ step = "done"
          /\ status'[s] = OutcomeOf(caller[p].kind) /\ UNCHANGED <<row, batch, linked>>
      BY <1>0, <1>3, <1>5, <1>6, <2>6, GoEffect DEF Settle, At
    <3>2. RunAgrees(s)'
      BY <1>2, <1>3, <3>1 DEF RunAgrees
    <3>3. Told(s)'
      BY <1>0, <1>1, <1>2, <1>3, <3>1
         DEF Told, JobProgress, RunProgress, Approving, Kinds, Late, Early, PastRow, PastApproval,
             PastLearning, PastMemory, PastPublish, PastExports, PastManifest, PastLink,
             PastRerecord, Steps
    <3> QED BY <3>1, <3>2, <3>3
  <2> QED BY <2>1, <2>2, <2>3, <2>4, <2>5, <2>6
<1>10. caller'[p].pc \in Steps => step # "done"
  BY <1>5 DEF Steps
<1> QED BY <1>0, <1>1, <1>2, <1>3, <1>5, <1>7, <1>8, <1>9, <1>10, StoryMoves

\* The manifest names what the call has published, and all of it is there.
LEMMA ManifestStory ==
  ASSUME StoryInv, IInv', NEW p \in Reviewers, WriteManifest(p)
  PROVE  StoryInv'
<1>1. caller[p].pc = "manifest" /\ caller[p].pc \in Steps /\ caller[p].pc \in Late
  BY DEF WriteManifest, At, Steps, Late, Early
<1>2. UNCHANGED <<record, row, files, batch, linked, status>> /\ Go(p, "link")
  BY DEF WriteManifest
<1>0. PICK j \in Jobs, s \in Runs : j = Job(p) /\ s = caller[p].run
  BY <1>1, AtItsStep
<1>3. /\ caller[p].kind \in Kinds /\ j = JobOf[s]
      /\ record[j].kind = caller[p].kind
      /\ JobProgress(p) /\ RunProgress(p) /\ JobAgrees(j) /\ RunAgrees(s)
      /\ caller \in [Reviewers -> Call]
      /\ \A r \in Runs : JobOf[r] = j => status[r] = "human_review_required"
  BY <1>0, <1>1, AtItsStep
<1>5. /\ \A q \in Reviewers \ {p} : caller'[q] = caller[q]
      /\ caller'[p].pc = "link" /\ caller'[p].run = s
      /\ caller'[p].kind = caller[p].kind /\ caller'[p].provider = caller[p].provider
      /\ Job(p)' = j /\ Approving(p)' = Approving(p)
  BY <1>0, <1>2, <1>3, GoEffect
<1>6. manifest \in [Jobs -> SUBSET Artifacts]
  BY DEF StoryInv, IInv, TypeOK
<1>7. /\ \A i \in Jobs \ {j} : manifest'[i] = manifest[i]
      /\ manifest'[j] = IF Approving(p)
                        THEN {"translation", "srt", "approval"}
                               \union (IF caller[p].provider # None THEN {"learning"} ELSE {})
                        ELSE {"translation-failed"}
  BY <1>0, <1>6 DEF WriteManifest
<1>8. JobProgress(p)' /\ RunProgress(p)' /\ JobAgrees(j)' /\ RunAgrees(s)'
  BY <1>0, <1>1, <1>2, <1>3, <1>5, <1>7
     DEF JobProgress, RunProgress, JobAgrees, RunAgrees, Late, Early, PastRow, PastApproval,
         PastLearning, PastMemory, PastPublish, PastExports, PastManifest, PastLink,
         PastRerecord, Steps
<1>9. status'[s] = "human_review_required"
  BY <1>2, <1>3
<1> QED BY <1>0, <1>1, <1>2, <1>3, <1>5, <1>7, <1>8, <1>9, StoryMoves

\* The decision goes on record, and is completed with the published translation.
LEMMA RecordStory ==
  ASSUME StoryInv, IInv', NEW p \in Reviewers, WriteRecord(p) \/ Rerecord(p)
  PROVE  StoryInv'
<1>1. caller[p].pc \in Steps
  BY DEF WriteRecord, Rerecord, At, Steps
<1>2. UNCHANGED <<row, files, manifest, batch, linked, status>>
  BY DEF WriteRecord, Rerecord
<1>0. PICK j \in Jobs, s \in Runs : j = Job(p) /\ s = caller[p].run
  BY <1>1, AtItsStep
<1>3. /\ caller[p].kind \in Kinds /\ j = JobOf[s]
      /\ caller[p].pc \in Early => record[j].kind = "none"
      /\ caller[p].pc \in Late => record[j].kind = caller[p].kind
      /\ JobProgress(p) /\ RunProgress(p) /\ JobAgrees(j) /\ RunAgrees(s)
      /\ caller \in [Reviewers -> Call]
      /\ \A r \in Runs : JobOf[r] = j => status[r] = "human_review_required"
  BY <1>0, <1>1, AtItsStep
<1>4. PICK step \in {"row", "rerow"} : Go(p, step)
  BY DEF WriteRecord, Rerecord
<1>5. /\ \A q \in Reviewers \ {p} : caller'[q] = caller[q]
      /\ caller'[p].pc = step /\ caller'[p].run = s
      /\ caller'[p].kind = caller[p].kind /\ caller'[p].provider = caller[p].provider
      /\ Job(p)' = j /\ Approving(p)' = Approving(p)
  BY <1>0, <1>3, <1>4, GoEffect
<1>6. record \in [Jobs -> [kind : Kinds \union {"none"}, published : BOOLEAN]]
  BY DEF StoryInv, IInv, TypeOK
<1>7. /\ \A i \in Jobs \ {j} : record'[i] = record[i]
      /\ record'[j].kind = caller[p].kind
      /\ step = "row" => ~record'[j].published
      /\ step = "rerow" => record'[j].published
  <2>1. CASE WriteRecord(p)
    <3>1. record' = [record EXCEPT ![j] = [kind |-> caller[p].kind, published |-> FALSE]]
          /\ step = "row"
      BY <1>0, <1>3, <1>5, <2>1, GoEffect DEF WriteRecord
    <3> QED BY <1>6, <3>1
  <2>2. CASE Rerecord(p)
    <3>1. record' = [record EXCEPT ![j] = [kind |-> caller[p].kind, published |-> TRUE]]
          /\ step = "rerow"
      BY <1>0, <1>3, <1>5, <2>2, GoEffect DEF Rerecord
    <3> QED BY <1>6, <3>1
  <2> QED BY <2>1, <2>2
<1>8. JobProgress(p)' /\ RunProgress(p)' /\ JobAgrees(j)' /\ RunAgrees(s)'
  <2>1. CASE WriteRecord(p)
    <3>1. /\ caller[p].pc = "record" /\ step = "row" /\ record[j].kind = "none"
      BY <1>0, <1>3, <1>5, <2>1, GoEffect DEF WriteRecord, At, Early
    <3>2. row[s] = "none" /\ ~linked[s]
      BY <1>3, <3>1 DEF StoryInv, IInv, EffectsFollowRecord
    <3>3. files[j] \cap {"approval", "learning", "translation", "translation-failed", "srt"} = {}
      BY <3>1 DEF StoryInv, IInv, EffectsFollowRecord
    <3>4. manifest[j] \subseteq files[j] \ {"draft"}
      BY <1>3 DEF JobAgrees
    <3>5. JobAgrees(j)' /\ RunAgrees(s)'
      BY <1>2, <1>3, <1>7, <3>1, <3>2, <3>3, <3>4 DEF JobAgrees, RunAgrees
    <3>6. JobProgress(p)' /\ RunProgress(p)'
      BY <1>0, <1>2, <1>3, <1>5, <1>7, <3>1
         DEF JobProgress, RunProgress, Late, Early, PastRow, PastApproval,
             PastLearning, PastMemory, PastPublish, PastExports, PastManifest, PastLink,
             PastRerecord, Steps
    <3> QED BY <3>5, <3>6
  <2>2. CASE Rerecord(p)
    <3>1. /\ caller[p].pc = "rerecord" /\ step = "rerow" /\ record[j].kind = caller[p].kind
      BY <1>0, <1>3, <1>5, <2>2, GoEffect DEF Rerecord, At, Late, Early, Steps
    <3>2. Approves(caller[p].kind)
      BY <1>3, <3>1 DEF JobProgress, Approving
    <3> QED BY <1>0, <1>1, <1>2, <1>3, <1>5, <1>7, <3>1, <3>2
            DEF JobProgress, RunProgress, JobAgrees, RunAgrees, Approving, Late, Early, PastRow, PastApproval,
                PastLearning, PastMemory, PastPublish, PastExports, PastManifest, PastLink,
                PastRerecord, Steps
  <2> QED BY <2>1, <2>2
<1>9. status'[s] = "human_review_required"
  BY <1>2, <1>3
<1>10. record[j].kind \in {"none", record'[j].kind}
  BY <1>1, <1>3, <1>7 DEF Late
<1> QED BY <1>0, <1>1, <1>2, <1>3, <1>5, <1>7, <1>8, <1>9, <1>10, StoryMoves

\* The steps that count leave everything else alone, and the call where it stands
\* in the story.
LEMMA StatsCalls ==
  ASSUME StoryInv, NEW p \in Reviewers,
         ReadProvider(p) \/ SaveProvider(p) \/ LoadFeedback(p) \/ SaveFeedback(p)
  PROVE  /\ caller[p].pc \in {"providers", "feedback", "save"}
         /\ caller'[p].pc \in {"providers", "feedback", "save", "memory"}
         /\ \A q \in Reviewers \ {p} : caller'[q] = caller[q]
         /\ caller'[p].run = caller[p].run /\ caller'[p].kind = caller[p].kind
         /\ caller'[p].provider = caller[p].provider
         /\ UNCHANGED <<record, row, files, manifest, batch, linked, status>>
<1>1. caller \in [Reviewers -> Call]
  BY DEF StoryInv, IInv, TypeOK, Call, Stat
<1>2. caller[p].pc \in {"providers", "feedback", "save"}
  BY DEF ReadProvider, SaveProvider, LoadFeedback, SaveFeedback, At
<1>3. UNCHANGED <<record, row, files, manifest, batch, linked, status>>
  BY DEF ReadProvider, SaveProvider, LoadFeedback, SaveFeedback
<1>4. \A q \in Reviewers \ {p} : caller'[q] = caller[q]
  BY <1>1 DEF ReadProvider, SaveProvider, LoadFeedback, SaveFeedback
<1>5. /\ caller'[p].pc \in {"providers", "feedback", "save", "memory"}
      /\ caller'[p].run = caller[p].run /\ caller'[p].kind = caller[p].kind
      /\ caller'[p].provider = caller[p].provider
  <2>1. CASE ReadProvider(p)
    <3>1. PICK k \in caller[p].todo \cap Providers :
            caller' = [caller EXCEPT ![p].key = k, ![p].seen[k] = stats[k]]
      BY <2>1 DEF ReadProvider
    <3>2. caller[p] \in Call
      BY <1>1
    <3>3. caller'[p] = [caller[p] EXCEPT !.key = k, !.seen[k] = stats[k]]
      BY <1>1, <3>1
    <3> QED BY <1>2, <2>1, <3>2, <3>3 DEF Call, ReadProvider, At
  <2>2. CASE SaveProvider(p)
    <3> DEFINE k == caller[p].key
               rest == caller[p].todo \ {k}
               c == [caller[p] EXCEPT !.key = None, !.todo = rest, !.seen[k] = NoStat,
                       !.pc = IF rest \cap Providers = {} THEN "feedback" ELSE "providers"]
    <3>1. caller' = [caller EXCEPT ![p] = c]
      BY <2>2 DEF SaveProvider
    <3>2. caller[p] \in Call
      BY <1>1
    <3> HIDE DEF k, rest
    <3>3. c.run = caller[p].run /\ c.kind = caller[p].kind /\ c.provider = caller[p].provider
          /\ c.pc \in {"providers", "feedback"}
      BY <3>2 DEF Call
    <3> QED BY <1>1, <3>1, <3>3 DEF k, rest
  <2>3. CASE LoadFeedback(p)
    BY <1>1, <2>3 DEF LoadFeedback, Call
  <2>4. CASE SaveFeedback(p)
    <3>1. PICK k \in caller[p].todo :
            caller' = [caller EXCEPT ![p] =
              [@ EXCEPT !.todo = caller[p].todo \ {k}, !.seen[k] = NoStat,
                        !.pc = IF caller[p].todo \ {k} = {} THEN "memory" ELSE "save"]]
      BY <2>4 DEF SaveFeedback
    <3> DEFINE rest == caller[p].todo \ {k}
               c == [caller[p] EXCEPT !.todo = rest, !.seen[k] = NoStat,
                       !.pc = IF rest = {} THEN "memory" ELSE "save"]
    <3>2. caller' = [caller EXCEPT ![p] = c]
      BY <3>1
    <3>3. caller[p] \in Call
      BY <1>1
    <3> HIDE DEF rest
    <3>4. c.run = caller[p].run /\ c.kind = caller[p].kind /\ c.provider = caller[p].provider
          /\ c.pc \in {"save", "memory"}
      BY <3>3 DEF Call
    <3> QED BY <1>1, <3>2, <3>4
  <2> QED BY <2>1, <2>2, <2>3, <2>4
<1> QED BY <1>2, <1>3, <1>4, <1>5

LEMMA StatsStory ==
  ASSUME StoryInv, IInv', NEW p \in Reviewers,
         ReadProvider(p) \/ SaveProvider(p) \/ LoadFeedback(p) \/ SaveFeedback(p)
  PROVE  StoryInv'
<1>1. /\ caller[p].pc \in {"providers", "feedback", "save"}
      /\ caller'[p].pc \in {"providers", "feedback", "save", "memory"}
      /\ \A q \in Reviewers \ {p} : caller'[q] = caller[q]
      /\ caller'[p].run = caller[p].run /\ caller'[p].kind = caller[p].kind
      /\ caller'[p].provider = caller[p].provider
      /\ UNCHANGED <<record, row, files, manifest, batch, linked, status>>
  BY StatsCalls
<1>2. caller[p].pc \in Steps
  BY <1>1 DEF Steps
<1>0. PICK j \in Jobs, s \in Runs : j = Job(p) /\ s = caller[p].run
  BY <1>2, AtItsStep
<1>3. /\ caller[p].kind \in Kinds /\ j = JobOf[s]
      /\ JobProgress(p) /\ RunProgress(p) /\ JobAgrees(j) /\ RunAgrees(s)
      /\ \A r \in Runs : JobOf[r] = j => status[r] = "human_review_required"
  BY <1>0, <1>2, AtItsStep
<1>4. Job(p)' = j /\ Approving(p)' = Approving(p)
  BY <1>0, <1>1 DEF Job, Approving
<1>5. JobProgress(p)'
  BY <1>0, <1>1, <1>3, <1>4
     DEF JobProgress, Late, Early, PastApproval, PastLearning, PastMemory, PastPublish,
         PastExports, PastManifest, PastLink, PastRerecord, Steps
<1>6. RunProgress(p)'
  BY <1>0, <1>1, <1>3, <1>4
     DEF RunProgress, Late, Early, PastRow, PastApproval, PastLearning, PastMemory, PastPublish,
         PastExports, PastManifest, PastLink, PastRerecord, Steps
<1>7. JobAgrees(j)' /\ RunAgrees(s)' /\ status'[s] = "human_review_required"
  BY <1>1, <1>3 DEF JobAgrees, RunAgrees
<1>8. record[j].kind \in {"none", record'[j].kind}
  BY <1>1
<1> QED BY <1>0, <1>1, <1>2, <1>5, <1>6, <1>7, <1>8, StoryMoves

\* A call that dies leaves its run unsettled and its job as it was.
LEMMA DiesStory ==
  ASSUME StoryInv, IInv', NEW p \in Reviewers, Dies(p)
  PROVE  StoryInv'
<1>1. caller[p].pc \in Steps /\ Go(p, "dead")
      /\ UNCHANGED <<record, row, files, manifest, batch, linked, status>>
  BY DEF Dies
<1>0. PICK j \in Jobs, s \in Runs : j = Job(p) /\ s = caller[p].run
  BY <1>1, AtItsStep
<1>2. /\ JobAgrees(j) /\ RunAgrees(s) /\ caller \in [Reviewers -> Call]
      /\ status[s] = "human_review_required"
  BY <1>0, <1>1, AtItsStep
<1>3. /\ \A q \in Reviewers \ {p} : caller'[q] = caller[q]
      /\ caller'[p].pc = "dead"
  BY <1>1, <1>2, GoEffect
<1>4. JobAgrees(j)' /\ RunAgrees(s)' /\ status'[s] = "human_review_required"
  BY <1>1, <1>2 DEF JobAgrees, RunAgrees
<1>5. caller'[p].pc \notin Steps
  BY <1>3 DEF Steps
<1>6. record[j].kind \in {"none", record'[j].kind}
  BY <1>1
<1> QED BY <1>0, <1>1, <1>3, <1>4, <1>5, <1>6, StoryMoves

\* A call begins, and nothing has been told yet.
LEMMA ResolveStory ==
  ASSUME StoryInv, IInv', NEW p \in Reviewers, NEW r \in Runs, NEW kind \in Kinds,
         NEW combo \in Combos \union {None}, NEW provider \in Providers \union {None},
         Resolve(p, r, kind, combo, provider)
  PROVE  StoryInv'
<1> DEFINE c == [caller[p] EXCEPT !.pc = IF Approves(kind) THEN "candidate" ELSE "record",
                                  !.run = r, !.kind = kind, !.combo = combo,
                                  !.provider = provider, !.todo = Keys]
<1>1. /\ UNCHANGED <<record, row, files, manifest, batch, linked, status>>
      /\ caller' = [caller EXCEPT ![p] = c]
  BY DEF Resolve, Starts
<1>2. caller \in [Reviewers -> Call]
  BY DEF StoryInv, IInv, TypeOK, Call, Stat
<1>3. /\ c.pc = IF Approves(kind) THEN "candidate" ELSE "record"
      /\ c.kind = kind
  BY <1>2 DEF Call
<1>4. \A q \in Reviewers : caller'[q] = IF q = p THEN c ELSE caller[q]
  BY <1>1, <1>2
<1> HIDE DEF c
<1>5. ASSUME NEW q \in Reviewers, caller'[q].pc \in Steps
      PROVE  JobProgress(q)' /\ RunProgress(q)'
  <2>1. CASE q = p
    <3>1. Approving(p)' = Approves(kind)
      BY <1>3, <1>4 DEF Approving
    <3> QED BY <1>3, <1>4, <2>1, <3>1
            DEF JobProgress, RunProgress, Late, Early, PastRow, PastApproval, PastLearning,
                PastMemory, PastPublish, PastExports, PastManifest, PastLink, PastRerecord
  <2>2. CASE q # p
    <3>1. caller'[q] = caller[q] /\ JobProgress(q) /\ RunProgress(q)
      BY <1>4, <1>5, <2>2 DEF StoryInv
    <3> QED BY <1>1, <3>1 DEF JobProgress, RunProgress, Job, Approving
  <2> QED BY <2>1, <2>2
<1>6. /\ \A j \in Jobs : JobAgrees(j)'
      /\ \A i \in Runs : RunAgrees(i)' /\ (status'[i] # "human_review_required" => Told(i)')
  BY <1>1 DEF StoryInv, JobAgrees, RunAgrees, Told
<1> QED BY <1>5, <1>6 DEF StoryInv

\* A draft changes nothing that the story is about.
LEMMA SaveDraftStory ==
  ASSUME StoryInv, IInv', NEW r \in Runs, SaveDraft(r)
  PROVE  StoryInv'
<1>1. /\ UNCHANGED <<caller, record, row, manifest, batch, linked, status>>
      /\ files' = [files EXCEPT ![JobOf[r]] = @ \union {"draft"}]
  BY DEF SaveDraft
<1>2. files \in [Jobs -> SUBSET Artifacts]
  BY DEF StoryInv, IInv, TypeOK
<1>3. \A j \in Jobs : files'[j] \in {files[j], files[j] \union {"draft"}}
  BY <1>1, <1>2
<1>4. ASSUME NEW p \in Reviewers, caller'[p].pc \in Steps
      PROVE  JobProgress(p)' /\ RunProgress(p)'
  <2>1. JobProgress(p) /\ RunProgress(p) /\ Job(p) \in Jobs
    BY <1>1, <1>4, AtWork DEF StoryInv
  <2>2. files[Job(p)] \subseteq files'[Job(p)]
    BY <1>3, <2>1
  <2> QED BY <1>1, <2>1, <2>2 DEF JobProgress, RunProgress, Job, Approving
<1>5. \A j \in Jobs : JobAgrees(j)'
  BY <1>1, <1>3 DEF StoryInv, JobAgrees
<1>6. ASSUME NEW i \in Runs
      PROVE  RunAgrees(i)' /\ (status'[i] # "human_review_required" => Told(i)')
  <2>1. JobOf[i] \in Jobs
    BY ReviewAssumption
  <2>2. files[JobOf[i]] \subseteq files'[JobOf[i]]
    BY <1>3, <2>1
  <2> QED BY <1>1, <2>2 DEF StoryInv, RunAgrees, Told
<1> QED BY <1>4, <1>5, <1>6 DEF StoryInv

\* Every step keeps the story.
LEMMA NextStory == StoryInv /\ ~Racing /\ [Next]_vars => StoryInv'
<1> SUFFICES ASSUME StoryInv, ~Racing, [Next]_vars PROVE StoryInv'
  OBVIOUS
<1>0. IInv'
  BY NextInv DEF StoryInv
<1>1. CASE UNCHANGED vars
  BY <1>0, <1>1 DEF vars, StoryInv, JobProgress, RunProgress, JobAgrees, RunAgrees, Told, Job,
                    Approving
<1>2. CASE \E p \in Reviewers, r \in Runs, kind \in Kinds, combo \in Combos \union {None},
             provider \in Providers \union {None} : Resolve(p, r, kind, combo, provider)
  BY <1>0, <1>2, ResolveStory
<1>3. ASSUME NEW p \in Reviewers, Step(p) PROVE StoryInv'
  <2>1. CASE \/ SaveCandidate(p) \/ WriteApproval(p) \/ WriteLearning(p)
             \/ Publish(p) \/ Export(p) \/ DiscardDraft(p)
    BY <1>0, <2>1, FilesStory
  <2>2. CASE \/ SaveRow(p) \/ Rerow(p) \/ StageBatch(p) \/ ConsolidateBatch(p)
             \/ UpdateLink(p) \/ Settle(p)
    BY <1>0, <2>2, RunStory
  <2>3. CASE WriteManifest(p)
    BY <1>0, <2>3, ManifestStory
  <2>4. CASE WriteRecord(p) \/ Rerecord(p)
    BY <1>0, <2>4, RecordStory
  <2>5. CASE ReadProvider(p) \/ SaveProvider(p) \/ LoadFeedback(p) \/ SaveFeedback(p)
    BY <1>0, <2>5, StatsStory
  <2> QED BY <1>3, <2>1, <2>2, <2>3, <2>4, <2>5 DEF Step
<1>4. CASE \E p \in Reviewers : Dies(p)
  BY <1>0, <1>4, DiesStory
<1>5. CASE \E r \in Runs : SaveDraft(r)
  BY <1>0, <1>5, SaveDraftStory
<1> QED BY <1>1, <1>2, <1>3, <1>4, <1>5 DEF Next

LEMMA StoryHolds == Racing = FALSE => (Spec => []StoryInv)
<1> SUFFICES ASSUME Racing = FALSE PROVE Spec => []StoryInv
  OBVIOUS
<1>1. StoryInv /\ [Next]_vars => StoryInv'
  BY NextStory
<1> QED BY <1>1, InitStory, PTL DEF Spec

\* The manifest of a job never names an artifact that is not there, while a
\* resolution is at work and after one has died (publish.py: the manifest last).
THEOREM ManifestIsTrue == Racing = FALSE => (Spec => []ManifestNamesWhatIsThere)
<1>1. StoryInv => ManifestNamesWhatIsThere
  BY DEF StoryInv, JobAgrees, ManifestNamesWhatIsThere
<1> QED BY <1>1, StoryHolds, PTL

\* Once the status of a run says that its review is over, its row, record, approval,
\* publication, manifest, link and memory all say what the record says.
THEOREM StoryIsOne == Racing = FALSE => (Spec => []OneStory)
<1>1. StoryInv => OneStory
  <2> SUFFICES ASSUME StoryInv, NEW r \in Runs, status[r] # "human_review_required",
                      NEW j \in Jobs, j = JobOf[r]
               PROVE  LET approved == Approves(record[j].kind) IN
                      /\ record[j].kind # "none" /\ row[r] = record[j].kind
                      /\ approved <=> status[r] = "completed_after_human_review"
                      /\ approved <=> {"reviewed", "approval", "translation", "srt"}
                                        \subseteq files[j]
                      /\ approved <=> "approval" \in files[j]
                      /\ approved <=> "translation-failed" \notin files[j]
                      /\ approved <=> {"translation", "srt", "approval"} \subseteq manifest[j]
                      /\ approved <=> record[j].published
                      /\ approved <=> linked[r]
                      /\ batch[r] = "consolidated"
    BY ReviewAssumption DEF OneStory
  <2>1. Told(r) /\ RunAgrees(r) /\ JobAgrees(j)
    BY DEF StoryInv
  <2>2. CASE Approves(record[j].kind)
    BY <2>1, <2>2 DEF Told, RunAgrees, JobAgrees, OutcomeOf
  <2>3. CASE ~Approves(record[j].kind)
    BY <2>1, <2>3 DEF Told, RunAgrees, JobAgrees, OutcomeOf
  <2> QED BY <2>2, <2>3
<1> QED BY <1>1, StoryHolds, PTL
-----------------------------------------------------------------------------
\* The runs whose resolution has nothing left to count for a provider or a combo.
Counted(k) ==
  {r \in Runs : /\ row[r] # "none"
                /\ \A p \in Reviewers :
                     caller[p].pc \in Steps /\ caller[p].run = r => k \notin caller[p].todo}

\* A row of statistics, stored or read, that holds no more than these.
Fits(stat, k) ==
  /\ Counts(stat) <= Cardinality(Counted(k))
  /\ stat.approved <= Cardinality({r \in Counted(k) : Approves(row[r])})
  /\ stat.rejected <= Cardinality({r \in Counted(k) : row[r] = "rejected_all"})

\* What a call has yet to count.
TodoFacts ==
  \A p \in Reviewers : caller[p].pc \in Steps =>
    /\ caller[p].pc \in Early \union {"row", "approval", "learning"} => caller[p].todo = Keys
    /\ caller[p].pc = "providers" /\ caller[p].key # None => caller[p].key \in caller[p].todo

CountInv ==
  /\ StoryInv
  /\ TodoFacts
  /\ \A k \in Keys : Fits(stats[k], k)
  /\ \A k \in Keys : \A p \in Reviewers : Fits(caller[p].seen[k], k)

\* The sets that are counted are finite.
LEMMA CountedFinite ==
  ASSUME NEW S, S \subseteq Runs
  PROVE  IsFiniteSet(S) /\ Cardinality(S) \in Nat
BY FS_Subset, FS_CardinalityType, ReviewAssumption

LEMMA NoStatFits ==
  ASSUME NEW k
  PROVE  Fits(NoStat, k)
<1>1. /\ Counted(k) \subseteq Runs
      /\ {r \in Counted(k) : Approves(row[r])} \subseteq Runs
      /\ {r \in Counted(k) : row[r] = "rejected_all"} \subseteq Runs
  BY DEF Counted
<1>2. /\ Cardinality(Counted(k)) \in Nat
      /\ Cardinality({r \in Counted(k) : Approves(row[r])}) \in Nat
      /\ Cardinality({r \in Counted(k) : row[r] = "rejected_all"}) \in Nat
  BY <1>1, CountedFinite
<1> QED BY <1>2 DEF Fits, NoStat, Counts

LEMMA InitCount == Init => CountInv
<1> SUFFICES ASSUME Init PROVE CountInv
  OBVIOUS
<1>1. TodoFacts
  BY DEF Init, NoCall, Steps, TodoFacts
<1>2. \A k \in Keys : stats[k] = NoStat /\ \A p \in Reviewers : caller[p].seen[k] = NoStat
  BY DEF Init, NoCall
<1> QED BY <1>1, <1>2, NoStatFits, InitStory DEF CountInv

\* What fits goes on fitting, since no run is ever uncounted.
LEMMA FitsOn ==
  ASSUME NEW k, NEW stat \in Stat, Fits(stat, k),
         \A r \in Counted(k) : r \in Counted(k)' /\ row'[r] = row[r]
  PROVE  Fits(stat, k)'
<1> DEFINE A == {r \in Counted(k) : Approves(row[r])}
           R == {r \in Counted(k) : row[r] = "rejected_all"}
<1>1. A \subseteq A' /\ R \subseteq R' /\ Counted(k) \subseteq Counted(k)'
  OBVIOUS
<1>2. A' \subseteq Runs /\ R' \subseteq Runs /\ Counted(k)' \subseteq Runs
  BY DEF Counted
<1>3. /\ IsFiniteSet(A') /\ IsFiniteSet(R') /\ IsFiniteSet(Counted(k)')
      /\ Cardinality(A') \in Nat /\ Cardinality(R') \in Nat /\ Cardinality(Counted(k)') \in Nat
  BY <1>2, CountedFinite
<1>4. /\ Cardinality(A) <= Cardinality(A') /\ Cardinality(R) <= Cardinality(R')
      /\ Cardinality(Counted(k)) <= Cardinality(Counted(k)')
  BY <1>1, <1>3, FS_Subset
<1>5. /\ Cardinality(A) \in Nat /\ Cardinality(R) \in Nat /\ Cardinality(Counted(k)) \in Nat
  BY <1>1, <1>3, FS_Subset, FS_CardinalityType
<1>6. Fits(stat, k)' <=> /\ Counts(stat) <= Cardinality(Counted(k)')
                         /\ stat.approved <= Cardinality(A')
                         /\ stat.rejected <= Cardinality(R')
  BY DEF Fits, Counts
<1>7. /\ Counts(stat) <= Cardinality(Counted(k)) /\ stat.approved <= Cardinality(A)
      /\ stat.rejected <= Cardinality(R)
  BY DEF Fits
<1>8. Counts(stat) \in Nat /\ stat.approved \in Nat /\ stat.rejected \in Nat
  BY DEF Counts, Stat
<1> HIDE DEF A, R
<1> QED BY <1>3, <1>4, <1>5, <1>6, <1>7, <1>8

\* A set with one more element counts one more.
LEMMA OneMore ==
  ASSUME NEW S, NEW T, NEW x, IsFiniteSet(T), S \union {x} \subseteq T, x \notin S
  PROVE  Cardinality(S) + 1 <= Cardinality(T)
<1>1. IsFiniteSet(S) /\ IsFiniteSet(S \union {x})
  BY FS_Subset
<1>2. Cardinality(S \union {x}) = Cardinality(S) + 1
  BY <1>1, FS_AddElement
<1>3. Cardinality(S \union {x}) <= Cardinality(T)
  BY FS_Subset
<1> QED BY <1>2, <1>3

\* A call counts its run s for k: one more run is counted, and with the decision that
\* its row states.
LEMMA CountsOne ==
  ASSUME NEW k, NEW stat \in Stat, Fits(stat, k), NEW p, NEW s \in Runs,
         NEW counted, counted = Count(stat, k, p), caller[p].kind \in Kinds,
         s \notin Counted(k), s \in Counted(k)', row'[s] = caller[p].kind,
         \A r \in Counted(k) : r \in Counted(k)' /\ row'[r] = row[r]
  PROVE  Fits(counted, k)'
<1> DEFINE A == {r \in Counted(k) : Approves(row[r])}
           R == {r \in Counted(k) : row[r] = "rejected_all"}
<1>1. /\ Counted(k) \union {s} \subseteq Counted(k)'
      /\ A \subseteq A' /\ R \subseteq R'
      /\ Approves(caller[p].kind) => A \union {s} \subseteq A'
      /\ caller[p].kind = "rejected_all" => R \union {s} \subseteq R'
      /\ s \notin A /\ s \notin R
  OBVIOUS
<1>2. A' \subseteq Runs /\ R' \subseteq Runs /\ Counted(k)' \subseteq Runs
  BY DEF Counted
<1>3. /\ IsFiniteSet(A') /\ IsFiniteSet(R') /\ IsFiniteSet(Counted(k)')
      /\ Cardinality(A') \in Nat /\ Cardinality(R') \in Nat /\ Cardinality(Counted(k)') \in Nat
  BY <1>2, CountedFinite
<1>4. A \subseteq Runs /\ R \subseteq Runs /\ Counted(k) \subseteq Runs
  BY DEF Counted
<1>5. /\ IsFiniteSet(A) /\ IsFiniteSet(R) /\ IsFiniteSet(Counted(k))
      /\ Cardinality(A) \in Nat /\ Cardinality(R) \in Nat /\ Cardinality(Counted(k)) \in Nat
  BY <1>4, CountedFinite
<1>6. Fits(counted, k)' <=> /\ Counts(counted) <= Cardinality(Counted(k)')
                            /\ counted.approved <= Cardinality(A')
                            /\ counted.rejected <= Cardinality(R')
  BY DEF Fits, Counts
<1>7. /\ Counts(stat) <= Cardinality(Counted(k)) /\ stat.approved <= Cardinality(A)
      /\ stat.rejected <= Cardinality(R)
  BY DEF Fits
<1>8. \A S, T : IsFiniteSet(T) /\ S \union {s} \subseteq T /\ s \notin S
                  => Cardinality(S) + 1 <= Cardinality(T)
  BY OneMore
<1>9. \A S, T : IsFiniteSet(T) /\ S \subseteq T => Cardinality(S) <= Cardinality(T)
  BY FS_Subset
<1> HIDE DEF A, R
<1>10. Cardinality(Counted(k)) + 1 <= Cardinality(Counted(k)')
  BY <1>1, <1>3, <1>8
<1>11. /\ Cardinality(A) <= Cardinality(A')
       /\ Approves(caller[p].kind) => Cardinality(A) + 1 <= Cardinality(A')
  BY <1>1, <1>3, <1>8, <1>9
<1>12. /\ Cardinality(R) <= Cardinality(R')
       /\ caller[p].kind = "rejected_all" => Cardinality(R) + 1 <= Cardinality(R')
  BY <1>1, <1>3, <1>8, <1>9
<1>14. /\ stat.approved \in Nat /\ stat.rejected \in Nat /\ stat.passedOver \in Nat
       /\ counted.approved \in {stat.approved, stat.approved + 1}
       /\ counted.approved # stat.approved => Approves(caller[p].kind)
       /\ counted.rejected \in {stat.rejected, stat.rejected + 1}
       /\ counted.rejected # stat.rejected => caller[p].kind = "rejected_all"
       /\ Counts(counted) = Counts(stat) + 1 /\ Counts(stat) \in Nat
  BY DEF Count, Counts, Stat, Approving, Kinds
<1>15. /\ Counts(counted) <= Cardinality(Counted(k)')
       /\ counted.approved <= Cardinality(A') /\ counted.rejected <= Cardinality(R')
  BY <1>3, <1>5, <1>7, <1>10, <1>11, <1>12, <1>14
<1> QED BY <1>6, <1>15

\* No run is ever uncounted as long as no call takes up new work or forgets what it
\* has counted, and no row is changed.
LEMMA CountedGrows ==
  ASSUME NEW k,
         \A q \in Reviewers : caller'[q].pc \in Steps =>
           /\ caller[q].pc \in Steps /\ caller'[q].run = caller[q].run
           /\ caller'[q].todo \subseteq caller[q].todo,
         \A r \in Runs : row[r] # "none" => row'[r] = row[r]
  PROVE  \A r \in Counted(k) : r \in Counted(k)' /\ row'[r] = row[r]
BY DEF Counted

\* A row that states a decision states it for good.
LEMMA RowStays ==
  ASSUME StoryInv, NEW p \in Reviewers, SaveRow(p) \/ Rerow(p)
  PROVE  \A r \in Runs : row[r] # "none" => row'[r] = row[r]
<1>1. caller[p].pc \in Steps /\ caller[p].pc \in Late
  BY DEF SaveRow, Rerow, At, Steps, Late, Early
<1>2. /\ RunAgrees(caller[p].run) /\ Job(p) = JobOf[caller[p].run] /\ caller[p].run \in Runs
      /\ record[Job(p)].kind = caller[p].kind
  BY <1>1, AtItsStep
<1>3. row' = [row EXCEPT ![caller[p].run] = caller[p].kind] /\ DOMAIN row = Runs
  BY DEF SaveRow, Rerow, StoryInv, IInv, TypeOK
<1> QED BY <1>2, <1>3 DEF RunAgrees

\* The steps that only move the call on.
LEMMA GoCount ==
  ASSUME CountInv, StoryInv', NEW p \in Reviewers,
         NEW step, Go(p, step), caller[p].pc \in Steps, stats' = stats,
         step \in Early \union {"row", "approval", "learning"} =>
           caller[p].pc \in Early \union {"row", "approval", "learning"},
         step = "providers" => caller[p].pc \in {"row", "approval", "learning"},
         \A r \in Runs : row[r] # "none" => row'[r] = row[r]
  PROVE  CountInv'
<1>1. caller \in [Reviewers -> Call] /\ stats \in [Keys -> Stat]
  BY DEF CountInv, StoryInv, IInv, TypeOK, Call, Stat
<1>2. /\ \A q \in Reviewers \ {p} : caller'[q] = caller[q]
      /\ caller'[p].pc = step /\ caller'[p].run = caller[p].run
      /\ caller'[p].todo = caller[p].todo /\ caller'[p].key = caller[p].key
      /\ caller'[p].seen = caller[p].seen
  BY <1>1, GoEffect
<1>3. TodoFacts'
  <2> SUFFICES ASSUME NEW q \in Reviewers, caller'[q].pc \in Steps
               PROVE  /\ caller'[q].pc \in Early \union {"row", "approval", "learning"}
                           => caller'[q].todo = Keys
                      /\ caller'[q].pc = "providers" /\ caller'[q].key # None
                           => caller'[q].key \in caller'[q].todo
    BY DEF TodoFacts
  <2>1. CASE q # p
    BY <1>2, <2>1 DEF CountInv, TodoFacts
  <2>2. CASE q = p
    <3>1. caller[p].key \in Keys \union {None}
      BY <1>1 DEF Call
    <3> QED BY <1>2, <2>2, <3>1 DEF CountInv, TodoFacts
  <2> QED BY <2>1, <2>2
<1>4. \A q \in Reviewers : caller'[q].pc \in Steps =>
        /\ caller[q].pc \in Steps /\ caller'[q].run = caller[q].run
        /\ caller'[q].todo \subseteq caller[q].todo
  BY <1>2
<1>5. ASSUME NEW k \in Keys, NEW stat \in Stat, Fits(stat, k)
      PROVE  Fits(stat, k)'
  <2>1. \A r \in Counted(k) : r \in Counted(k)' /\ row'[r] = row[r]
    BY <1>4, CountedGrows
  <2> QED BY <1>5, <2>1, FitsOn
<1>6. ASSUME NEW k \in Keys PROVE Fits(stats[k], k)'
  <2>1. stats[k] \in Stat /\ Fits(stats[k], k) /\ stats'[k] = stats[k]
    BY <1>1 DEF CountInv
  <2>2. \A stat \in Stat : Fits(stat, k) => Fits(stat, k)'
    BY <1>5
  <2> QED BY <2>1, <2>2 DEF Fits
<1>7. ASSUME NEW k \in Keys, NEW q \in Reviewers PROVE Fits(caller[q].seen[k], k)'
  <2>1. caller[q].seen[k] \in Stat /\ caller'[q].seen[k] = caller[q].seen[k]
    BY <1>1, <1>2 DEF Call
  <2>2. Fits(caller[q].seen[k], k)
    BY DEF CountInv
  <2>3. \A stat \in Stat : Fits(stat, k) => Fits(stat, k)'
    BY <1>5
  <2> QED BY <2>1, <2>2, <2>3 DEF Fits
<1> QED BY <1>3, <1>6, <1>7 DEF CountInv

\* What a step that reads statistics takes over, and what is left to count.
LEMMA ReadEffect ==
  ASSUME CountInv, NEW p \in Reviewers, ReadProvider(p) \/ LoadFeedback(p)
  PROVE  /\ \A k \in Keys : caller'[p].seen[k] \in {caller[p].seen[k], stats[k], NoStat}
         /\ caller'[p].todo = caller[p].todo
         /\ caller'[p].pc = "providers" => caller'[p].key \in caller'[p].todo
         /\ stats' = stats
<1>1. caller \in [Reviewers -> Call]
  BY DEF CountInv, StoryInv, IInv, TypeOK, Call, Stat
<1>2. caller[p] \in Call /\ caller[p].seen \in [Keys -> Stat]
  BY <1>1 DEF Call
<1>3. CASE ReadProvider(p)
  <2>1. PICK k \in caller[p].todo \cap Providers :
          caller' = [caller EXCEPT ![p].key = k, ![p].seen[k] = stats[k]]
    BY <1>3 DEF ReadProvider
  <2>2. caller'[p] = [caller[p] EXCEPT !.key = k, !.seen[k] = stats[k]]
    BY <1>1, <2>1
  <2>3. /\ caller'[p].key = k /\ caller'[p].todo = caller[p].todo
        /\ caller'[p].seen = [caller[p].seen EXCEPT ![k] = stats[k]]
    BY <1>2, <2>2 DEF Call
  <2>4. \A i \in Keys : caller'[p].seen[i] \in {caller[p].seen[i], stats[i]}
    BY <1>2, <2>3
  <2> QED BY <1>3, <2>3, <2>4 DEF ReadProvider
<1>4. CASE LoadFeedback(p)
  <2> DEFINE loaded == [k \in Keys |-> IF k \in Combos THEN stats[k] ELSE NoStat]
  <2>1. caller' = [caller EXCEPT ![p].pc = "save", ![p].seen = loaded]
    BY <1>4 DEF LoadFeedback
  <2>2. /\ caller'[p].pc = "save" /\ caller'[p].todo = caller[p].todo
        /\ caller'[p].seen = loaded
    BY <1>1, <1>2, <2>1 DEF Call
  <2>3. \A k \in Keys : loaded[k] \in {stats[k], NoStat}
    OBVIOUS
  <2> QED BY <1>4, <2>2, <2>3 DEF LoadFeedback
<1> QED BY <1>3, <1>4

\* A step that saves a row of statistics counts the run in what was read of it.
LEMMA SaveEffect ==
  ASSUME CountInv, NEW p \in Reviewers, SaveProvider(p) \/ SaveFeedback(p)
  PROVE  \E k \in caller[p].todo :
           /\ stats' = [stats EXCEPT ![k] = Count(caller[p].seen[k], k, p)]
           /\ caller'[p].todo = caller[p].todo \ {k}
           /\ \A i \in Keys : caller'[p].seen[i] \in {caller[p].seen[i], NoStat}
           /\ caller'[p].pc = "providers" => caller'[p].key = None
<1>1. caller \in [Reviewers -> Call]
  BY DEF CountInv, StoryInv, IInv, TypeOK, Call, Stat
<1>2. caller[p] \in Call /\ caller[p].seen \in [Keys -> Stat]
  BY <1>1 DEF Call
<1>3. CASE SaveProvider(p)
  <2> DEFINE k == caller[p].key
             rest == caller[p].todo \ {k}
             c == [caller[p] EXCEPT !.key = None, !.todo = rest, !.seen[k] = NoStat,
                     !.pc = IF rest \cap Providers = {} THEN "feedback" ELSE "providers"]
  <2>1. /\ caller' = [caller EXCEPT ![p] = c]
        /\ stats' = [stats EXCEPT ![k] = Count(caller[p].seen[k], k, p)]
    BY <1>3 DEF SaveProvider
  <2>2. k \in caller[p].todo
    BY <1>3 DEF SaveProvider, At, CountInv, TodoFacts, Steps
  <2> HIDE DEF k, rest
  <2>3. /\ c.key = None /\ c.todo = rest
        /\ c.seen = [caller[p].seen EXCEPT ![k] = NoStat]
    BY <1>2 DEF Call
  <2>4. \A i \in Keys : c.seen[i] \in {caller[p].seen[i], NoStat}
    BY <1>2, <2>3
  <2>5. caller'[p] = c
    BY <1>1, <2>1
  <2> HIDE DEF c
  <2> QED BY <2>1, <2>2, <2>3, <2>4, <2>5 DEF rest
<1>4. CASE SaveFeedback(p)
  <2>1. PICK k \in caller[p].todo :
          /\ stats' = [stats EXCEPT ![k] = Count(caller[p].seen[k], k, p)]
          /\ caller' = [caller EXCEPT ![p] =
               [@ EXCEPT !.todo = caller[p].todo \ {k}, !.seen[k] = NoStat,
                         !.pc = IF caller[p].todo \ {k} = {} THEN "memory" ELSE "save"]]
    BY <1>4 DEF SaveFeedback
  <2> DEFINE rest == caller[p].todo \ {k}
             c == [caller[p] EXCEPT !.todo = rest, !.seen[k] = NoStat,
                     !.pc = IF rest = {} THEN "memory" ELSE "save"]
  <2>2. caller'[p] = c
    BY <1>1, <2>1
  <2> HIDE DEF rest
  <2>3. /\ c.todo = rest /\ c.pc # "providers"
        /\ c.seen = [caller[p].seen EXCEPT ![k] = NoStat]
    BY <1>2 DEF Call
  <2>4. \A i \in Keys : c.seen[i] \in {caller[p].seen[i], NoStat}
    BY <1>2, <2>3
  <2> HIDE DEF c
  <2> QED BY <2>1, <2>2, <2>3, <2>4 DEF rest
<1> QED BY <1>3, <1>4

\* What a call has yet to count is its own affair.
LEMMA TodoMoves ==
  ASSUME TodoFacts, NEW p \in Reviewers,
         \A q \in Reviewers \ {p} : caller'[q] = caller[q],
         caller'[p].pc \in Early \union {"row", "approval", "learning"} => caller'[p].todo = Keys,
         caller'[p].pc = "providers" /\ caller'[p].key # None => caller'[p].key \in caller'[p].todo
  PROVE  TodoFacts'
<1> SUFFICES ASSUME NEW q \in Reviewers, caller'[q].pc \in Steps
             PROVE  /\ caller'[q].pc \in Early \union {"row", "approval", "learning"}
                         => caller'[q].todo = Keys
                    /\ caller'[q].pc = "providers" /\ caller'[q].key # None
                         => caller'[q].key \in caller'[q].todo
  BY DEF TodoFacts
<1>1. CASE q # p
  BY <1>1 DEF TodoFacts
<1> QED BY <1>1

LEMMA StatsCount ==
  ASSUME CountInv, StoryInv', NEW p \in Reviewers,
         ReadProvider(p) \/ SaveProvider(p) \/ LoadFeedback(p) \/ SaveFeedback(p)
  PROVE  CountInv'
<1>1. /\ caller \in [Reviewers -> Call] /\ stats \in [Keys -> Stat]
      /\ caller[p].seen \in [Keys -> Stat] /\ caller[p].todo \subseteq Keys
  BY DEF CountInv, StoryInv, IInv, TypeOK, Call, Stat
<1>2. /\ caller[p].pc \in {"providers", "feedback", "save"}
      /\ caller'[p].pc \in {"providers", "feedback", "save", "memory"}
      /\ \A q \in Reviewers \ {p} : caller'[q] = caller[q]
      /\ caller'[p].run = caller[p].run /\ row' = row
  BY StatsCalls DEF CountInv
<1>3. caller[p].pc \in Steps /\ caller[p].pc \in PastRow
  BY <1>2 DEF Steps, PastRow, PastApproval, PastLearning
<1>4. caller'[p].todo \subseteq caller[p].todo
      /\ (caller'[p].pc = "providers" /\ caller'[p].key # None
            => caller'[p].key \in caller'[p].todo)
  <2>1. CASE ReadProvider(p) \/ LoadFeedback(p)
    BY <2>1, ReadEffect
  <2>2. CASE SaveProvider(p) \/ SaveFeedback(p)
    BY <2>2, SaveEffect
  <2> QED BY <2>1, <2>2
<1>5. TodoFacts'
  BY <1>2, <1>4, TodoMoves DEF CountInv, Early
<1>6. \A q \in Reviewers : caller'[q].pc \in Steps =>
        /\ caller[q].pc \in Steps /\ caller'[q].run = caller[q].run
        /\ caller'[q].todo \subseteq caller[q].todo
  BY <1>2, <1>3, <1>4
<1>7. ASSUME NEW k \in Keys
      PROVE  \A r \in Counted(k) : r \in Counted(k)' /\ row'[r] = row[r]
  BY <1>2, <1>6, CountedGrows
<1>8. ASSUME NEW k \in Keys, NEW stat \in Stat, Fits(stat, k)
      PROVE  Fits(stat, k)'
  BY <1>7, <1>8, FitsOn
<1>9. NoStat \in Stat /\ \A k \in Keys : Fits(NoStat, k)
  BY NoStatFits DEF NoStat, Stat
<1>10. ASSUME NEW k \in Keys, NEW q \in Reviewers
       PROVE  Fits(caller[q].seen[k], k)'
  <2>1. \A stat \in Stat : Fits(stat, k) => Fits(stat, k)'
    BY <1>8
  <2>2. caller[q].seen[k] \in Stat /\ Fits(caller[q].seen[k], k)
        /\ stats[k] \in Stat /\ Fits(stats[k], k)
    BY <1>1 DEF CountInv, Call
  <2>3. caller'[q].seen[k] \in {caller[q].seen[k], stats[k], NoStat}
    <3>1. CASE q # p
      BY <1>2, <3>1
    <3>2. CASE q = p /\ (ReadProvider(p) \/ LoadFeedback(p))
      BY <3>2, ReadEffect
    <3>3. CASE q = p /\ (SaveProvider(p) \/ SaveFeedback(p))
      BY <3>3, SaveEffect
    <3> QED BY <3>1, <3>2, <3>3
  <2> QED BY <1>9, <2>1, <2>2, <2>3 DEF Fits
<1>11. ASSUME NEW k \in Keys
       PROVE  Fits(stats[k], k)'
  <2>1. \A stat \in Stat : Fits(stat, k) => Fits(stat, k)'
    BY <1>8
  <2>2. stats[k] \in Stat /\ Fits(stats[k], k)
    BY <1>1 DEF CountInv
  <2>3. CASE stats'[k] = stats[k]
    BY <2>1, <2>2, <2>3 DEF Fits
  <2>4. CASE stats'[k] # stats[k]
    <3>1. SaveProvider(p) \/ SaveFeedback(p)
      BY <2>4, ReadEffect
    <3>2. PICK i \in caller[p].todo :
            /\ stats' = [stats EXCEPT ![i] = Count(caller[p].seen[i], i, p)]
            /\ caller'[p].todo = caller[p].todo \ {i}
      BY <3>1, SaveEffect
    <3>3. i = k /\ stats'[k] = Count(caller[p].seen[k], k, p)
      BY <1>1, <2>4, <3>2
    <3>4. PICK s \in Runs : s = caller[p].run
      BY <1>3, AtItsStep DEF CountInv
    <3>5. caller[p].kind \in Kinds /\ row[s] = caller[p].kind
      BY <1>3, <3>4, AtItsStep DEF CountInv, RunProgress
    <3>6. s \notin Counted(k)
      BY <1>3, <3>2, <3>3, <3>4 DEF Counted
    <3>7. s \in Counted(k)'
      <4>1. row'[s] # "none"
        BY <1>2, <3>5 DEF Kinds
      <4>2. ASSUME NEW q \in Reviewers, caller'[q].pc \in Steps, caller'[q].run = s
            PROVE  k \notin caller'[q].todo
        <5>1. q = p
          BY <1>3, <1>6, <3>4, <4>2 DEF CountInv, StoryInv, IInv, OneCallPerJob, Job
        <5> QED BY <3>2, <3>3, <5>1
      <4> QED BY <4>1, <4>2 DEF Counted
    <3>8. caller[p].seen[k] \in Stat /\ Fits(caller[p].seen[k], k)
      BY <1>1 DEF CountInv
    <3>9. \A counted : counted = Count(caller[p].seen[k], k, p) => Fits(counted, k)'
      <4>1. PICK stat \in Stat : stat = caller[p].seen[k]
        BY <3>8
      <4>2. Fits(stat, k)
        BY <3>8, <4>1
      <4>3. ASSUME NEW counted, counted = Count(stat, k, p) PROVE Fits(counted, k)'
        BY <1>2, <1>7, <3>5, <3>6, <3>7, <4>2, <4>3, CountsOne
      <4> QED BY <4>1, <4>3
    <3> QED BY <3>3, <3>9 DEF Fits
  <2> QED BY <2>3, <2>4
<1> QED BY <1>5, <1>10, <1>11 DEF CountInv

\* A call that begins has everything to count, for a run that nobody has counted.
LEMMA ResolveCount ==
  ASSUME CountInv, StoryInv', NEW p \in Reviewers, NEW r \in Runs, NEW kind \in Kinds,
         NEW combo \in Combos \union {None}, NEW provider \in Providers \union {None},
         Resolve(p, r, kind, combo, provider)
  PROVE  CountInv'
<1> DEFINE c == [caller[p] EXCEPT !.pc = IF Approves(kind) THEN "candidate" ELSE "record",
                                  !.run = r, !.kind = kind, !.combo = combo,
                                  !.provider = provider, !.todo = Keys]
<1>1. /\ row' = row /\ stats' = stats
      /\ caller' = [caller EXCEPT ![p] = c]
      /\ record[JobOf[r]].kind = "none"
  BY DEF Resolve, Starts
<1>2. caller \in [Reviewers -> Call] /\ stats \in [Keys -> Stat]
  BY DEF CountInv, StoryInv, IInv, TypeOK, Call, Stat
<1>3. c.todo = Keys /\ c.pc \in Early /\ c.seen = caller[p].seen /\ c.run = r
  BY <1>2 DEF Call, Early
<1>4. \A q \in Reviewers : caller'[q] = IF q = p THEN c ELSE caller[q]
  BY <1>1, <1>2
<1>5. TodoFacts'
  <2>1. c.pc # "providers"
    BY <1>3 DEF Early
  <2> HIDE DEF c
  <2> QED BY <1>3, <1>4, <2>1, TodoMoves DEF CountInv
<1>6. row[r] = "none"
  BY <1>1 DEF CountInv, StoryInv, IInv, EffectsFollowRecord
<1> HIDE DEF c
<1>7. ASSUME NEW k \in Keys
      PROVE  \A i \in Counted(k) : i \in Counted(k)' /\ row'[i] = row[i]
  BY <1>1, <1>3, <1>4, <1>6 DEF Counted
<1>8. ASSUME NEW k \in Keys, NEW stat \in Stat, Fits(stat, k)
      PROVE  Fits(stat, k)'
  BY <1>7, <1>8, FitsOn
<1>9. ASSUME NEW k \in Keys PROVE Fits(stats[k], k)'
  <2>1. stats[k] \in Stat /\ Fits(stats[k], k) /\ stats'[k] = stats[k]
    BY <1>1, <1>2 DEF CountInv
  <2>2. \A stat \in Stat : Fits(stat, k) => Fits(stat, k)'
    BY <1>8
  <2> QED BY <2>1, <2>2 DEF Fits
<1>10. ASSUME NEW k \in Keys, NEW q \in Reviewers PROVE Fits(caller[q].seen[k], k)'
  <2>1. caller[q].seen[k] \in Stat /\ caller'[q].seen[k] = caller[q].seen[k]
    BY <1>2, <1>3, <1>4 DEF Call
  <2>2. Fits(caller[q].seen[k], k)
    BY DEF CountInv
  <2>3. \A stat \in Stat : Fits(stat, k) => Fits(stat, k)'
    BY <1>8
  <2> QED BY <2>1, <2>2, <2>3 DEF Fits
<1> QED BY <1>5, <1>9, <1>10 DEF CountInv

\* Every step keeps the counts within the runs that are counted.
LEMMA NextCount == CountInv /\ ~Racing /\ [Next]_vars => CountInv'
<1> SUFFICES ASSUME CountInv, ~Racing, [Next]_vars PROVE CountInv'
  OBVIOUS
<1>0. StoryInv'
  BY NextStory DEF CountInv
<1>1. CASE UNCHANGED vars \/ \E r \in Runs : SaveDraft(r)
  <2>1. caller' = caller /\ row' = row /\ stats' = stats
    BY <1>1 DEF vars, SaveDraft
  <2>2. TodoFacts'
    BY <2>1 DEF CountInv, TodoFacts
  <2>3. \A k \in Keys : Counted(k)' = Counted(k)
    BY <2>1 DEF Counted
  <2> QED BY <1>0, <2>1, <2>2, <2>3 DEF CountInv, Fits
<1>2. CASE \E p \in Reviewers, r \in Runs, kind \in Kinds, combo \in Combos \union {None},
             provider \in Providers \union {None} : Resolve(p, r, kind, combo, provider)
  BY <1>0, <1>2, ResolveCount
<1>3. ASSUME NEW p \in Reviewers, Step(p) PROVE CountInv'
  <2>1. CASE SaveRow(p) \/ Rerow(p)
    <3>1. \A r \in Runs : row[r] # "none" => row'[r] = row[r]
      BY <2>1, RowStays DEF CountInv
    <3>2. CASE SaveRow(p)
      <4>1. PICK step \in {"approval", "providers"} : Go(p, step)
        BY <3>2 DEF SaveRow
      <4>2. caller[p].pc = "row" /\ stats' = stats
        BY <3>2 DEF SaveRow, At
      <4>3. caller[p].pc \in Steps /\ caller[p].pc \in {"row", "approval", "learning"}
        BY <4>2 DEF Steps
      <4> QED BY <1>0, <3>1, <4>1, <4>2, <4>3, GoCount
    <3>3. CASE Rerow(p)
      <4>1. Go(p, "discard") /\ caller[p].pc \in Steps /\ stats' = stats
        BY <3>3 DEF Rerow, At, Steps
      <4> QED BY <1>0, <3>1, <4>1, GoCount DEF Early
    <3> QED BY <2>1, <3>2, <3>3
  <2>2. CASE SaveCandidate(p) \/ WriteRecord(p) \/ WriteApproval(p) \/ WriteLearning(p)
    <3>1. PICK step \in {"record", "row", "learning", "providers"} : Go(p, step)
      BY <2>2 DEF SaveCandidate, WriteRecord, WriteApproval, WriteLearning
    <3>2. row' = row /\ stats' = stats
      BY <2>2 DEF SaveCandidate, WriteRecord, WriteApproval, WriteLearning
    <3>3. caller[p].pc \in {"candidate", "record", "approval", "learning"}
      BY <2>2 DEF SaveCandidate, WriteRecord, WriteApproval, WriteLearning, At
    <3>4. step = "providers" => caller[p].pc \in {"approval", "learning"}
      <4>1. caller \in [Reviewers -> Call]
        BY DEF CountInv, StoryInv, IInv, TypeOK, Call, Stat
      <4>2. caller'[p].pc = step
        BY <3>1, <4>1, GoEffect
      <4>3. CASE SaveCandidate(p) \/ WriteRecord(p)
        <5>1. PICK t \in {"record", "row"} : Go(p, t)
          BY <4>3 DEF SaveCandidate, WriteRecord
        <5>2. caller'[p].pc = t
          BY <4>1, <5>1, GoEffect
        <5> QED BY <4>2, <5>2
      <4>4. CASE WriteApproval(p) \/ WriteLearning(p)
        BY <4>4 DEF WriteApproval, WriteLearning, At
      <4> QED BY <2>2, <4>3, <4>4
    <3>5. caller[p].pc \in Steps /\ caller[p].pc \in Early \union {"row", "approval", "learning"}
      BY <3>3 DEF Steps, Early
    <3>6. step = "providers" => caller[p].pc \in {"row", "approval", "learning"}
      BY <3>4
    <3> QED BY <1>0, <3>1, <3>2, <3>5, <3>6, GoCount
  <2>3. CASE \/ Publish(p) \/ Export(p) \/ DiscardDraft(p) \/ StageBatch(p)
             \/ ConsolidateBatch(p) \/ UpdateLink(p) \/ Settle(p) \/ WriteManifest(p)
             \/ Rerecord(p)
    <3> DEFINE Further == {"exports", "manifest", "settle", "consolidate", "publish", "rerecord",
                           "discard", "done", "link", "rerow"}
    <3>1. PICK step \in Further : Go(p, step)
      BY <2>3 DEF Publish, Export, DiscardDraft, StageBatch, ConsolidateBatch, UpdateLink, Settle,
                  WriteManifest, Rerecord
    <3>2. row' = row /\ stats' = stats
      BY <2>3 DEF Publish, Export, DiscardDraft, StageBatch, ConsolidateBatch, UpdateLink, Settle,
                  WriteManifest, Rerecord
    <3>3. caller[p].pc \in Steps
      BY <2>3 DEF Publish, Export, DiscardDraft, StageBatch, ConsolidateBatch, UpdateLink, Settle,
                  WriteManifest, Rerecord, At, Steps
    <3>4. step \notin Early \union {"row", "approval", "learning"} /\ step # "providers"
      BY DEF Early
    <3> QED BY <1>0, <3>1, <3>2, <3>3, <3>4, GoCount
  <2>4. CASE ReadProvider(p) \/ SaveProvider(p) \/ LoadFeedback(p) \/ SaveFeedback(p)
    BY <1>0, <2>4, StatsCount
  <2> QED BY <1>3, <2>1, <2>2, <2>3, <2>4 DEF Step
<1>4. ASSUME NEW p \in Reviewers, Dies(p) PROVE CountInv'
  <2>1. /\ Go(p, "dead") /\ caller[p].pc \in Steps /\ row' = row /\ stats' = stats
    BY <1>4 DEF Dies
  <2> QED BY <1>0, <2>1, GoCount DEF Early
<1> QED BY <1>1, <1>2, <1>3, <1>4 DEF Next

\* No review is counted twice for a provider or a combo, though the rows are read and
\* written back unlocked while another job is resolved: counts get lost, none is made
\* up (review_flow.py: _update_provider_quality_stats, _update_translation_feedback_stats).
THEOREM NoReviewCountedTwice == Racing = FALSE => (Spec => []CountedAtMostOnce)
<1> SUFFICES ASSUME Racing = FALSE PROVE Spec => []CountedAtMostOnce
  OBVIOUS
<1>1. CountInv /\ [Next]_vars => CountInv'
  BY NextCount
<1>2. CountInv => CountedAtMostOnce
  <2> SUFFICES ASSUME CountInv, NEW k \in Keys
               PROVE  /\ Counts(stats[k]) <= Cardinality({r \in Runs : row[r] # "none"})
                      /\ stats[k].approved <= Cardinality({r \in Runs : Approves(row[r])})
                      /\ stats[k].rejected <= Cardinality({r \in Runs : row[r] = "rejected_all"})
    BY DEF CountedAtMostOnce
  <2> DEFINE Rows == {r \in Runs : row[r] # "none"}
             Approved == {r \in Runs : Approves(row[r])}
             Rejected == {r \in Runs : row[r] = "rejected_all"}
             CountedApproved == {r \in Counted(k) : Approves(row[r])}
             CountedRejected == {r \in Counted(k) : row[r] = "rejected_all"}
  <2>1. /\ Counted(k) \subseteq Rows /\ CountedApproved \subseteq Approved
        /\ CountedRejected \subseteq Rejected
    BY DEF Counted
  <2>2. Rows \subseteq Runs /\ Approved \subseteq Runs /\ Rejected \subseteq Runs
    OBVIOUS
  <2>3. /\ Counts(stats[k]) <= Cardinality(Counted(k))
        /\ stats[k].approved <= Cardinality(CountedApproved)
        /\ stats[k].rejected <= Cardinality(CountedRejected)
    BY DEF CountInv, Fits
  <2>4. stats[k] \in Stat
    BY DEF CountInv, StoryInv, IInv, TypeOK, Stat
  <2>5. /\ stats[k].approved \in Nat /\ stats[k].rejected \in Nat /\ Counts(stats[k]) \in Nat
    BY <2>4 DEF Stat, Counts
  <2> HIDE DEF Rows, Approved, Rejected, CountedApproved, CountedRejected
  <2>6. /\ IsFiniteSet(Rows) /\ Cardinality(Rows) \in Nat
        /\ IsFiniteSet(Approved) /\ Cardinality(Approved) \in Nat
        /\ IsFiniteSet(Rejected) /\ Cardinality(Rejected) \in Nat
    BY <2>2, CountedFinite
  <2>7. /\ Cardinality(Counted(k)) <= Cardinality(Rows)
        /\ Cardinality(CountedApproved) <= Cardinality(Approved)
        /\ Cardinality(CountedRejected) <= Cardinality(Rejected)
    BY <2>1, <2>6, FS_Subset
  <2>8. /\ Cardinality(Counted(k)) \in Nat /\ Cardinality(CountedApproved) \in Nat
        /\ Cardinality(CountedRejected) \in Nat
    BY <2>1, <2>6, FS_Subset, FS_CardinalityType
  <2> QED BY <2>3, <2>5, <2>6, <2>7, <2>8 DEF Rows, Approved, Rejected
<1> QED BY <1>1, <1>2, InitCount, PTL DEF Spec
=============================================================================
