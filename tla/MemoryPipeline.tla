--------------------------- MODULE MemoryPipeline ---------------------------
(***************************************************************************)
(* What the runs remember: nodes/memory_pipeline.py and the reference       *)
(* backends of memory/.                                                    *)
(*                                                                         *)
(* A run stages a batch of memories for its transcript decision and one    *)
(* for its translation decision, under ids it shares with every other run  *)
(* of its job, and may stage and consolidate one for its reference         *)
(* evaluation.  After the graph it drains the batches it has staged itself: *)
(* it copies those not yet consolidated, stores their memories one by one, *)
(* and only then saves each batch as consolidated or failed.  A memory is stored under its     *)
(* batch and slot, and is looked up by a dedupe key before; the table      *)
(* keeps the keys unique.                                                  *)
(***************************************************************************)
EXTENDS Sequences, SequencesExt, JobRuns

CONSTANT
    MemoryWorkloads \* bound: what the runs may be, see task

ASSUME MemoryAssumption ==
    \A t \in MemoryWorkloads :
        /\ DOMAIN t.jobs \subseteq Runs /\ \A r \in DOMAIN t.jobs : t.jobs[r] \in Jobs
        /\ ~t.overlap => t.live = 1

NoWinner == "no winner"
Undecided == "undecided"

\* A batch belongs to a stage of a job, or to a run's evaluation; a memory
\* to the slot of a batch ("semantic", "episodic" or "procedural").

VARIABLES
    decision,  \* the translation decision of each job
    batches,   \* the table memory_batches
    entries,   \* the table memory_entries: the dedupe key of each memory
    at,        \* how far each run is
    staged,    \* the batches each run knows it has staged, those of its graph only
    work,      \* the batches it has copied and not yet saved
    looked,    \* whether it has looked for the key of the next memory in vain
    task       \* the job of every run and the id of every job (a job of another
               \* project may have the same one), how their translations can end, which of
               \* them evaluate a reference, how many run at a time, and whether
               \* they overlap; it never changes

memoryVars == <<decision, batches, entries, at, staged, work, looked, task>>

JobOf(r) == task.jobs[r]
Busy == {r \in Runs : at[r] \notin {"new", "ended", "aborted", "dead"}}
Working == {"evaluating", "draining"}

MemoryInit ==
    /\ decision = [j \in Jobs |-> Undecided]
    /\ batches = [b \in {} |-> <<>>]
    /\ entries = [m \in {} |-> <<>>]
    /\ at = [r \in Runs |-> "new"]
    /\ staged = [r \in Runs |-> {}]
    /\ work = [r \in Runs |-> <<>>]
    /\ looked = [r \in Runs |-> FALSE]
    /\ task \in MemoryWorkloads

----------------------------------------------------------------------------
(* The memories of a batch, in the order they are stored.                  *)

Memory(slot, stage, owner, what) == [slot |-> slot, key |-> <<slot, stage, owner, what>>]

TranscriptMemories(j) ==
    <<Memory("semantic", "transcript", task.names[j], "artifact"),
      Memory("episodic", "transcript", task.names[j], "finalized")>>

\* A translation without a winner leaves only the memory of its failure.
TranslationMemories(j, winner) ==
    IF winner = NoWinner
    THEN <<Memory("episodic", "translation", task.names[j], "failed")>>
    ELSE <<Memory("semantic", "translation", task.names[j], winner),
           Memory("episodic", "translation", task.names[j], "finalized"),
           Memory("procedural", "translation", task.names[j], winner)>>

\* An evaluation remembers under its medium, not under its run.
EvaluationMemories(m, patterns, proposals) ==
    (IF patterns THEN <<Memory("semantic", "evaluation", m, "pattern")>> ELSE <<>>)
    \o <<Memory("episodic", "evaluation", m, "done")>>
    \o (IF proposals THEN <<Memory("procedural", "evaluation", m, "proposal")>> ELSE <<>>)

\* The table with the row under key k replaced or added.
Upsert(table, k, row) == [x \in DOMAIN table \cup {k} |-> IF x = k THEN row ELSE table[x]]

Batch(status, memories) == [status |-> status, memories |-> memories]

\* Plausible bug: a batch that is staged again keeps what it has.
SaveBatchOnce(b, batch) ==
    batches' = IF b \in DOMAIN batches /\ batch.status = "pending"
               THEN batches ELSE Upsert(batches, b, batch)

SaveBatch(b, batch) == batches' = Upsert(batches, b, batch)

\* A batch a run works on: its memories, those it has still to store, and
\* whether storing them failed.
Copy(b) == [id |-> b, memories |-> batches[b].memories, left |-> batches[b].memories, failed |-> FALSE]

----------------------------------------------------------------------------
(* The steps of a run.                                                     *)

Move(r, from, to) == at[r] = from /\ at' = [at EXCEPT ![r] = to]
Stages(r, b) == staged' = [staged EXCEPT ![r] = @ \cup {b}]
Rest == UNCHANGED <<entries, looked, task>>

\* The run stages the memories of its transcript decision.
StageTranscript(r) ==
    /\ r \in DOMAIN task.jobs /\ \A x \in Runs : x < r => at[x] # "new"
    /\ Cardinality(Busy) < task.live
    /\ Move(r, "new", "transcript")
    /\ SaveBatch(<<"transcript", JobOf(r)>>, Batch("pending", TranscriptMemories(JobOf(r))))
    /\ Stages(r, <<"transcript", JobOf(r)>>)
    /\ UNCHANGED <<decision, work>> /\ Rest

\* It decides on its translation, or its transcript has failed and it skips it.
Decide(r, winner) ==
    /\ Move(r, "transcript", "decided")
    /\ decision' = [decision EXCEPT ![JobOf(r)] = winner]
    /\ UNCHANGED <<batches, staged, work>> /\ Rest

SkipTranslation(r) ==
    /\ Move(r, "transcript", "finalized")
    /\ UNCHANGED <<decision, batches, staged, work>> /\ Rest

\* It reads the job's decision again to stage its memories.
StageTranslation(r) ==
    /\ Move(r, "decided", "finalized")
    /\ LET j == JobOf(r)
       IN  /\ SaveBatch(<<"translation", j>>, Batch("pending", TranslationMemories(j, decision[j])))
           /\ Stages(r, <<"translation", j>>)
    /\ UNCHANGED <<decision, work>> /\ Rest

\* The evaluation stages the memories of its findings and consolidates them.
StageEvaluation(r) ==
    /\ r \in task.evaluates
    /\ Move(r, "finalized", "evaluating")
    /\ \E patterns, proposals \in BOOLEAN :
          /\ patterns \/ proposals
          /\ LET b == <<"evaluation", r>>
                 memories == EvaluationMemories(MediumOf[JobOf(r)], patterns, proposals)
             IN  /\ SaveBatch(b, Batch("pending", memories))
                 /\ work' = [work EXCEPT ![r] =
                        <<[id |-> b, memories |-> memories, left |-> memories, failed |-> FALSE]>>]
    /\ UNCHANGED <<decision, staged>> /\ Rest

\* Of the batches it has staged, the transcript's first, those the run finds not
\* consolidated: what an earlier run of its job has left open is not its business.
Open(b) == b \in DOMAIN batches /\ batches[b].status \in {"pending", "failed"}
ToDrain(r) ==
    LET IfOpen(b) == IF b \in staged[r] /\ Open(b) THEN <<b>> ELSE <<>>
    IN  IfOpen(<<"transcript", JobOf(r)>>) \o IfOpen(<<"translation", JobOf(r)>>)

\* The drain copies the batches; an evaluation that finds nothing stages nothing.
StartDrain(r) ==
    /\ Move(r, "finalized", "draining") \/ Move(r, "evaluated", "draining")
    /\ work' = [work EXCEPT ![r] = [k \in DOMAIN ToDrain(r) |-> Copy(ToDrain(r)[k])]]
    /\ UNCHANGED <<decision, batches, staged>> /\ Rest

\* The first of its batches with memories to store.
Current(r) == SelectInSeq(work[r], LAMBDA c : c.left # <<>>)
Storing(r) == at[r] \in Working /\ Current(r) # 0
NextMemory(r) == Head(work[r][Current(r)].left)
Stored(key) == \E m \in DOMAIN entries : entries[m] = key

Advance(r) == work' = [work EXCEPT ![r][Current(r)].left = Tail(@)]
GiveUp(r) == work' = [work EXCEPT ![r][Current(r)].left = <<>>, ![r][Current(r)].failed = TRUE]

\* It looks for the key of the next memory and skips one that is stored.
Look(r) ==
    /\ Storing(r) /\ ~looked[r]
    /\ IF Stored(NextMemory(r).key)
       THEN Advance(r) /\ UNCHANGED looked
       ELSE looked' = [looked EXCEPT ![r] = TRUE] /\ UNCHANGED work
    /\ UNCHANGED <<decision, batches, entries, at, staged, task>>

\* The memory replaces what was stored under its id; a key that another memory
\* has by now is refused, and the batch fails.
Put(r, m, key) ==
    IF \E other \in DOMAIN entries \ {m} : entries[other] = key
    THEN UNCHANGED entries /\ GiveUp(r)
    ELSE entries' = Upsert(entries, m, key) /\ Advance(r)

PutNext(r) ==
    /\ Storing(r) /\ looked[r]
    /\ Put(r, <<work[r][Current(r)].id, NextMemory(r).slot>>, NextMemory(r).key)
    /\ looked' = [looked EXCEPT ![r] = FALSE]
    /\ UNCHANGED <<decision, batches, at, staged, task>>

\* The store refuses the memory: the batch fails, the others go on.
PutFails(r) ==
    /\ Storing(r)
    /\ GiveUp(r)
    /\ looked' = [looked EXCEPT ![r] = FALSE]
    /\ UNCHANGED <<decision, batches, entries, at, staged, task>>

\* Plausible bug: the outcome of a batch is not looked at.
OutcomeIgnored(c) == "consolidated"

Outcome(c) == IF c.failed THEN "failed" ELSE "consolidated"

\* All its batches are through: the drain saves the first of them as its copy
\* with the outcome, or as failed when publishing what it learned fails.
SaveOutcome(r) ==
    /\ at[r] = "draining" /\ Current(r) = 0 /\ work[r] # <<>>
    /\ LET c == Head(work[r])
       IN  \E result \in {Outcome(c), "failed"} : SaveBatch(c.id, Batch(result, c.memories))
    /\ work' = [work EXCEPT ![r] = Tail(@)]
    /\ UNCHANGED <<decision, at, staged>> /\ Rest

\* Even that cannot be saved: the drain is abandoned, the run ends well.
AbandonDrain(r) ==
    /\ Current(r) = 0 /\ work[r] # <<>>
    /\ Move(r, "draining", "aborted")
    /\ work' = [work EXCEPT ![r] = <<>>]
    /\ UNCHANGED <<decision, batches, staged>> /\ Rest

EndDrain(r) ==
    /\ work[r] = <<>>
    /\ Move(r, "draining", "ended")
    /\ UNCHANGED <<decision, batches, staged, work>> /\ Rest

\* The evaluation saves its batch, unless storing failed: then it stays pending,
\* and so it does when saving fails.
EndEvaluation(r) ==
    /\ Current(r) = 0
    /\ Move(r, "evaluating", "evaluated")
    /\ LET c == work[r][1]
       IN  \/ ~c.failed /\ SaveBatch(c.id, Batch("consolidated", c.memories))
           \/ UNCHANGED batches
    /\ work' = [work EXCEPT ![r] = <<>>]
    /\ UNCHANGED <<decision, staged>> /\ Rest

\* The process of a run dies.
RunDies(r) ==
    /\ r \in Busy
    /\ at' = [at EXCEPT ![r] = "dead"]
    /\ staged' = [staged EXCEPT ![r] = {}]
    /\ work' = [work EXCEPT ![r] = <<>>]
    /\ looked' = [looked EXCEPT ![r] = FALSE]
    /\ UNCHANGED <<decision, batches, entries, task>>

\* Nothing is left to do.
AllOver ==
    /\ \A r \in DOMAIN task.jobs : at[r] # "new" /\ r \notin Busy
    /\ UNCHANGED memoryVars

MemoryNext ==
    \/ \E r \in Runs :
          \/ StageTranscript(r) \/ StageTranslation(r) \/ SkipTranslation(r)
          \/ \E winner \in task.ends : Decide(r, winner)
          \/ StageEvaluation(r) \/ EndEvaluation(r)
          \/ StartDrain(r) \/ Look(r) \/ PutNext(r) \/ PutFails(r)
          \/ SaveOutcome(r) \/ AbandonDrain(r) \/ EndDrain(r)
          \/ RunDies(r)
    \/ AllOver

MemorySpec == MemoryInit /\ [][MemoryNext]_memoryVars

----------------------------------------------------------------------------
(* Properties.                                                             *)

Unshared == \A j, k \in Jobs : task.names[j] = task.names[k] => j = k
AllStored(b) == \A k \in DOMAIN batches[b].memories : Stored(batches[b].memories[k].key)

\* What a batch calls consolidated is in the memory store, also after a rerun
\* of a job has replaced its memories, after deaths and after a failure of any
\* store, as long as runs do not overlap and no two jobs have one id
\* (memory_pipeline.py drain_background_memory).
ConsolidatedIsStored ==
    (~task.overlap /\ Unshared) =>
        \A b \in DOMAIN batches : batches[b].status = "consolidated" => AllStored(b)

\* The run got through its drain and no later run of its job has started; and
\* so did all the runs of the job before.
LaterRuns(r) == {x \in DOMAIN task.jobs : JobOf(x) = JobOf(r) /\ x > r}
LastOfJob(r) == at[r] = "ended" /\ \A x \in LaterRuns(r) : at[x] = "new"
NoneDied(j) == \A x \in DOMAIN task.jobs : JobOf(x) = j => at[x] \in {"new", "ended"}

\* A run that ends leaves no batch pending that it has staged. Where no run of the job
\* has died or abandoned its drain, nothing of the job is pending at all, and a settled
\* translation batch tells of the decision that stands. What a dead run has staged may
\* stay pending for ever: a rerun that skips its translation does not look at it
\* (memory_pipeline.py background_memory_pipeline and drain_background_memory).
Settled ==
    ~task.overlap =>
        \A r \in DOMAIN task.jobs : LastOfJob(r) =>
            LET j == JobOf(r)
                b == <<"translation", j>>
            IN  /\ \A own \in DOMAIN batches :
                      own[2] = j /\ own[1] # "evaluation" /\ (own \in staged[r] \/ NoneDied(j))
                        => batches[own].status # "pending"
                /\ (NoneDied(j) /\ b \in DOMAIN batches) =>
                      batches[b].memories = TranslationMemories(j, decision[j])

============================================================================
