-------------------------- MODULE WorkflowRunProofs --------------------------
(***************************************************************************)
(* Proofs about WorkflowRun, for any number of runs, jobs, providers and   *)
(* faults: what a run records about itself agrees with what it published,  *)
(* and a run that got as far as an outcome leaves a transcript with its    *)
(* decision, however many processes run at one time; and, for processes    *)
(* that run one after another, the decision describes the transcript and   *)
(* the transcript uses every candidate.                                    *)
(***************************************************************************)
EXTENDS WorkflowRun, FiniteSetTheorems, TLAPS

Kinds == {"none", "fresh", "translation", "transcription"}
Outcomes == {"none", "complete", "blocked"}
Files == {"audio", "transcript", "translation", "srt", "translation-failed"}
Pcs == Live \union {"off", "done", "failed", "dead", "torn"}

Row == [status : Terminal \union {"none", "bootstrapped", "running"}, kind : Kinds,
        job : Jobs \union {NoJob}, root : Jobs \union {NoJob}, source : Runs \union {NoJob},
        failed : SUBSET Providers, linked : BOOLEAN]

State == [pc : Pcs, todo : SUBSET Candidates, adapters : SUBSET Providers,
          staged : SUBSET Providers, ids : SUBSET Candidates, basis : SUBSET Candidates,
          transcript : Outcomes, decision : Outcomes, transcriptFailed : BOOLEAN,
          translations : BOOLEAN, decided : BOOLEAN, winner : BOOLEAN,
          humanReview : BOOLEAN, translationFailed : BOOLEAN, degraded : BOOLEAN]

Record == [transcript : Outcomes, decision : Outcomes, files : SUBSET Files]

TypeOK ==
  /\ run \in [Runs -> Row]
  /\ proc \in [Runs -> State]
  /\ rows \in [Candidates -> Jobs \union {NoJob}]
  /\ store \in [Jobs -> Record]
  /\ faults \in Nat

\* What a process knows, from one part of the graph to the next.
Early == {"off", "seeding", "start", "ingest", "extract_audio", "fanout", "normalize",
          "spans", "materialize", "decide"}
Late == {"finalize", "link", "record", "done"}

Undecided(p) == ~p.decided /\ ~p.transcriptFailed /\ ~p.humanReview /\ ~p.winner
Untried(p) == Undecided(p) /\ ~p.translations /\ ~p.translationFailed
Tried(p) ==
  Undecided(p) /\ p.transcript # "none" /\ p.translationFailed = ~p.translations
Blocked(p) ==
  /\ p.transcriptFailed /\ p.transcript = "blocked"
  /\ ~p.decided /\ ~p.humanReview /\ ~p.winner
  /\ ~p.translations /\ ~p.translationFailed
Adjudicated(p) ==
  /\ p.decided /\ ~p.transcriptFailed /\ p.transcript # "none"
  /\ p.winner = ~p.humanReview
  /\ p.translationFailed = ~p.translations
  /\ p.humanReview \/ p.translations

\* The flags of the state fit the node the process has come to: the two ways out
\* of the graph are a blocked transcript and an adjudicated translation.
Coherent(p) ==
  /\ p.pc = "off" => p = IdleProc
  /\ p.pc \in Early \union {"translate"} => Untried(p)
  /\ p.pc = "memory" => (Untried(p) /\ p.transcript # "none") \/ Blocked(p) \/ Adjudicated(p)
  /\ p.pc \in {"review", "adjudicate"} => Tried(p)
  /\ p.pc \in Late => Blocked(p) \/ Adjudicated(p)

\* A run is launched once: from then on it has a row, a job and, when it is
\* resumed, a job of its own and a source that was launched before it.
Launched(r) ==
  /\ run[r].status = "none" <=> At(r, "off")
  /\ run[r].status = "none" => Job(r) = NoJob /\ run[r].kind = "none"
  /\ run[r].status # "none" =>
       \/ run[r].kind = "fresh" /\ Job(r) \in FreshJobs
       \/ /\ run[r].kind \in {"translation", "transcription"}
          /\ Job(r) = r
          /\ run[r].source \in Runs
          /\ run[run[r].source].status # "none"

\* A run that has its job to itself finds there what it published, and only that.
FilesFit(p, files) ==
  /\ p.pc \in (Live \ Late) \union {"finalize"} => files \subseteq {"audio"}
  /\ p.pc \in Late \ {"finalize"} => files \ {"audio"} = PublishedFiles(p)

FilesFollow(r) == Alone(r) => FilesFit(proc[r], store[Job(r)].files)

\* A transcript that a process goes by is in the store, and so is its decision,
\* unless it is the one the process has just written.
TranscriptKept(r) ==
  /\ proc[r].transcript # "none" =>
       store[Job(r)].transcript # "none" /\ store[Job(r)].decision # "none"
  /\ At(r, "decide") => store[Job(r)].transcript # "none" /\ proc[r].decision # "none"

\* The job of a resumed run is empty of transcripts until its seeding is done.
SeedsEmptyJob(r) == At(r, "seeding") => Job(r) = r /\ store[r].transcript = "none"

StatusFollows(r) == At(r, "done") => run[r].status = FinalStatus(proc[r])

UnusedJobsEmpty ==
  \A j \in Jobs : (\A r \in Runs : Job(r) # j) =>
    store[j].files = {} /\ store[j].transcript = "none" /\ store[j].decision = "none"

IInv ==
  /\ TypeOK
  /\ UnusedJobsEmpty
  /\ \A r \in Runs : /\ Launched(r)
                     /\ Coherent(proc[r])
                     /\ TranscriptKept(r)
                     /\ SeedsEmptyJob(r)
                     /\ StatusFollows(r)
                     /\ FilesFollow(r)
-----------------------------------------------------------------------------
LEMMA InitInv == Init => IInv
<1> SUFFICES ASSUME Init PROVE IInv
  OBVIOUS
<1>1. TypeOK
  BY DEF Init, TypeOK, Row, State, Record, IdleProc, Kinds, Outcomes, Files, Pcs
<1>2. UnusedJobsEmpty
  BY DEF Init, UnusedJobsEmpty
<1>3. ASSUME NEW r \in Runs
      PROVE  Launched(r) /\ Coherent(proc[r]) /\ TranscriptKept(r) /\ SeedsEmptyJob(r)
               /\ StatusFollows(r) /\ FilesFollow(r)
  BY DEF Init, IdleProc, Launched, Coherent, Untried, Undecided, TranscriptKept, SeedsEmptyJob,
         StatusFollows, FilesFollow, FilesFit, At, Job, Live, Nodes, Late, Early
<1> QED BY <1>1, <1>2, <1>3 DEF IInv

\* The job of a launched run is a job, and no unlaunched run has one.
LEMMA JobType ==
  ASSUME IInv, NEW r \in Runs
  PROVE  /\ run[r].status # "none" => Job(r) \in Jobs
         /\ run[r].status = "none" => Job(r) = NoJob
         /\ Job(r) \in Runs => Job(r) = r
         /\ run[r].status # "none" <=> ~At(r, "off")
BY WorkflowAssumption DEF IInv, Launched, Jobs

\* A resumed run has a job of its own and a source with one.
LEMMA KindsJob ==
  ASSUME IInv, NEW r \in Runs, run[r].kind \in {"translation", "transcription"}
  PROVE  /\ run[r].status # "none" /\ Job(r) = r /\ r \in Jobs
         /\ run[r].source \in Runs /\ run[run[r].source].status # "none"
         /\ Job(run[r].source) \in Jobs
         /\ \A s \in Runs : Job(s) = r => s = r
<1>1. run[r].status # "none" /\ Job(r) = r /\ r \in Jobs
      /\ run[r].source \in Runs /\ run[run[r].source].status # "none"
  BY WorkflowAssumption DEF IInv, Launched, Jobs
<1> QED BY <1>1, JobType

\* What the nodes write into the state keeps its type.
LEMMA StateType ==
  ASSUME NEW p \in State, NEW pc \in Pcs
  PROVE  /\ \A todo, ids \in SUBSET Candidates :
              [p EXCEPT !.todo = todo, !.ids = ids] \in State
         /\ \A ok \in SUBSET Providers, d \in BOOLEAN :
              [p EXCEPT !.pc = pc, !.staged = ok, !.degraded = d] \in State
         /\ \A ids \in SUBSET Candidates :
              /\ [p EXCEPT !.pc = pc, !.ids = ids] \in State
              /\ [p EXCEPT !.pc = pc, !.basis = ids] \in State
         /\ \A t \in Outcomes : /\ [p EXCEPT !.pc = pc, !.transcript = t] \in State
                              /\ [p EXCEPT !.pc = pc, !.decision = t] \in State
         /\ \A t \in Outcomes, b \in BOOLEAN :
              [p EXCEPT !.pc = pc, !.transcript = t, !.transcriptFailed = b] \in State
         /\ \A some, failed \in BOOLEAN :
              [p EXCEPT !.pc = pc, !.translations = some, !.translationFailed = failed]
                \in State
         /\ \A winner, human, failed \in BOOLEAN :
              [p EXCEPT !.pc = pc, !.decided = TRUE, !.winner = winner,
                        !.humanReview = human, !.translationFailed = failed] \in State
<1>1. ASSUME NEW todo \in SUBSET Candidates, NEW ids \in SUBSET Candidates
      PROVE  [p EXCEPT !.todo = todo, !.ids = ids] \in State
  BY DEF State
<1>2. ASSUME NEW ok \in SUBSET Providers, NEW d \in BOOLEAN
      PROVE  [p EXCEPT !.pc = pc, !.staged = ok, !.degraded = d] \in State
  BY DEF State
<1>3. ASSUME NEW ids \in SUBSET Candidates
      PROVE  [p EXCEPT !.pc = pc, !.ids = ids] \in State
  BY DEF State
<1>4. ASSUME NEW ids \in SUBSET Candidates
      PROVE  [p EXCEPT !.pc = pc, !.basis = ids] \in State
  BY DEF State
<1>5. ASSUME NEW t \in Outcomes
      PROVE  /\ [p EXCEPT !.pc = pc, !.transcript = t] \in State
             /\ [p EXCEPT !.pc = pc, !.decision = t] \in State
  BY DEF State
<1>6. ASSUME NEW t \in Outcomes, NEW b \in BOOLEAN
      PROVE  [p EXCEPT !.pc = pc, !.transcript = t, !.transcriptFailed = b] \in State
  BY DEF State
<1>7. ASSUME NEW some \in BOOLEAN, NEW failed \in BOOLEAN
      PROVE  [p EXCEPT !.pc = pc, !.translations = some, !.translationFailed = failed]
               \in State
  BY DEF State
<1>8. ASSUME NEW winner \in BOOLEAN, NEW human \in BOOLEAN, NEW failed \in BOOLEAN
      PROVE  [p EXCEPT !.pc = pc, !.decided = TRUE, !.winner = winner,
                       !.humanReview = human, !.translationFailed = failed] \in State
  BY DEF State
<1> QED BY <1>1, <1>2, <1>3, <1>4, <1>5, <1>6, <1>7, <1>8

\* A step of one process that stays with its job, leaves all other jobs alone and
\* ends in a state that fits what is in the store under its own.
LEMMA ProcessMoves ==
  ASSUME IInv, NEW r \in Runs, NEW q \in State, ~At(r, "off"),
         proc' = [proc EXCEPT ![r] = q],
         q.pc # "off", Coherent(q),
         run' \in [Runs -> Row], \A s \in Runs \ {r} : run'[s] = run[s],
         run'[r].kind = run[r].kind, run'[r].job = run[r].job,
         run'[r].source = run[r].source, run'[r].status # "none",
         q.pc = "done" => run'[r].status = FinalStatus(q),
         rows' \in [Candidates -> Jobs \union {NoJob}], faults' \in Nat,
         store' \in [Jobs -> Record],
         \A j \in Jobs \ {Job(r)} : store'[j] = store[j],
         store[Job(r)].transcript # "none" =>
           /\ store'[Job(r)].transcript # "none"
           /\ store[Job(r)].decision # "none" => store'[Job(r)].decision # "none",
         q.transcript # "none" =>
           store'[Job(r)].transcript # "none" /\ store'[Job(r)].decision # "none",
         q.pc = "decide" => store'[Job(r)].transcript # "none" /\ q.decision # "none",
         q.pc = "seeding" => Job(r) = r /\ store'[r].transcript = "none",
         Alone(r) => FilesFit(q, store'[Job(r)].files)
  PROVE  IInv'
<1>0. proc \in [Runs -> State]
  BY DEF IInv, TypeOK
<1>1. \A s \in Runs : proc'[s] = IF s = r THEN q ELSE proc[s]
  BY <1>0
<1>2. TypeOK'
  BY <1>0 DEF IInv, TypeOK
<1>3. run[r].status # "none" /\ Job(r) \in Jobs
  BY JobType
<1>4. \A s \in Runs : /\ Job(s)' = Job(s) /\ run'[s].kind = run[s].kind
                      /\ run'[s].source = run[s].source
                      /\ run'[s].status = "none" <=> run[s].status = "none"
  BY <1>3 DEF Job
<1>5. \A s \in Runs : Alone(s)' <=> Alone(s)
  BY <1>4 DEF Alone
<1>6. UnusedJobsEmpty'
  BY <1>4 DEF IInv, UnusedJobsEmpty
<1>7. ASSUME NEW s \in Runs
      PROVE  (Launched(s) /\ Coherent(proc[s]) /\ TranscriptKept(s) /\ SeedsEmptyJob(s)
               /\ StatusFollows(s) /\ FilesFollow(s))'
  <2>1. Launched(s)'
    <3>1. Launched(s) /\ ~At(r, "off")
      BY DEF IInv
    <3>2. At(s, "off")' <=> At(s, "off")
      BY <1>1 DEF At
    <3>3. run'[s].source \in Runs =>
            (run'[run'[s].source].status = "none" <=> run[run[s].source].status = "none")
      BY <1>4
    <3> QED BY <1>4, <3>1, <3>2, <3>3 DEF Launched
  <2>2. Coherent(proc[s])'
    BY <1>1 DEF IInv, Coherent, Untried, Tried, Undecided, Blocked, Adjudicated
  <2>3. TranscriptKept(s)'
    <3>1. CASE s = r
      BY <3>1, <1>1, <1>4 DEF TranscriptKept, At
    <3>2. CASE s # r
      <4>1. TranscriptKept(s) /\ proc'[s] = proc[s] /\ Job(s)' = Job(s)
        BY <3>2, <1>1, <1>4 DEF IInv
      <4>2. CASE Job(s) = Job(r)
        BY <4>1, <4>2, <1>4 DEF TranscriptKept, At
      <4>3. CASE Job(s) # Job(r) /\ Job(s) \in Jobs
        BY <4>1, <4>3, <1>4 DEF TranscriptKept, At
      <4>4. CASE Job(s) \notin Jobs
        <5>1. At(s, "off")
          BY <4>4, JobType
        <5> QED BY <5>1, <4>1 DEF TranscriptKept, IInv, Coherent, At, IdleProc
      <4> QED BY <4>2, <4>3, <4>4
    <3> QED BY <3>1, <3>2
  <2>4. StatusFollows(s)'
    BY <1>1 DEF IInv, StatusFollows, At, FinalStatus
  <2>5. FilesFollow(s)'
    <3>1. CASE s = r
      BY <3>1, <1>1, <1>4, <1>5 DEF FilesFollow, FilesFit, PublishedFiles
    <3>2. CASE s # r
      <4>1. FilesFollow(s) /\ proc'[s] = proc[s] /\ Job(s)' = Job(s)
        BY <3>2, <1>1, <1>4 DEF IInv
      <4>2. SUFFICES ASSUME Alone(s) PROVE FilesFit(proc[s], store'[Job(s)].files)
        BY <4>1, <1>5 DEF FilesFollow, FilesFit, PublishedFiles
      <4>3. Job(s) # Job(r)
        BY <3>2, <4>2 DEF Alone
      <4>4. CASE Job(s) \in Jobs
        BY <4>1, <4>2, <4>3, <4>4 DEF FilesFollow
      <4>5. CASE Job(s) \notin Jobs
        <5>1. proc[s].pc = "off"
          BY <4>5, JobType DEF At
        <5> QED BY <5>1 DEF FilesFit, Live, Nodes, Late
      <4> QED BY <4>4, <4>5
    <3> QED BY <3>1, <3>2
  <2>6. SeedsEmptyJob(s)'
    <3>1. CASE s = r
      BY <3>1, <1>1, <1>4 DEF SeedsEmptyJob, At
    <3>2. CASE s # r
      <4>1. SeedsEmptyJob(s) /\ proc'[s] = proc[s] /\ Job(s)' = Job(s)
        BY <3>2, <1>1, <1>4 DEF IInv
      <4>2. Job(s) = s => s # Job(r) /\ s \in Jobs
        BY <3>2, JobType DEF Jobs
      <4> QED BY <4>1, <4>2 DEF SeedsEmptyJob, At
    <3> QED BY <3>1, <3>2
  <2> QED BY <2>1, <2>2, <2>3, <2>4, <2>5, <2>6
<1> QED BY <1>2, <1>6, <1>7 DEF IInv
-----------------------------------------------------------------------------
\* What is known of a run whose process has been launched.
LEMMA AtWork ==
  ASSUME IInv, NEW r \in Runs, ~At(r, "off")
  PROVE  /\ proc[r] \in State /\ run[r] \in Row /\ run[r].status # "none"
         /\ Job(r) \in Jobs /\ store[Job(r)] \in Record
         /\ Coherent(proc[r]) /\ TranscriptKept(r) /\ SeedsEmptyJob(r)
         /\ Alone(r) => FilesFit(proc[r], store[Job(r)].files)
BY JobType DEF IInv, TypeOK, FilesFollow

\* The nodes whose work leaves the transcript as it is, up to the publication.
Onward == (Live \ (Late \union {"seeding", "decide"})) \union {"finalize"}

\* A step to the next node that leaves the store and its row's status alone.
LEMMA NodeMoves ==
  ASSUME IInv, NEW r \in Runs, NEW q \in State, proc[r].pc \in Live \ Late,
         proc' = [proc EXCEPT ![r] = q],
         q.pc \in Onward \union ({proc[r].pc} \ {"decide"}), Coherent(q),
         q.transcript = proc[r].transcript,
         run' \in [Runs -> Row], \A s \in Runs \ {r} : run'[s] = run[s],
         run'[r].kind = run[r].kind, run'[r].job = run[r].job,
         run'[r].source = run[r].source, run'[r].status # "none",
         rows' \in [Candidates -> Jobs \union {NoJob}],
         UNCHANGED <<store, faults>>
  PROVE  IInv'
<1>1. /\ ~At(r, "off") /\ q.pc # "off" /\ q.pc # "done" /\ q.pc # "decide"
      /\ q.pc \notin Late \ {"finalize"}
  BY DEF At, Live, Nodes, Late, Onward
<1>2. Alone(r) => FilesFit(q, store'[Job(r)].files)
  BY <1>1, AtWork DEF FilesFit
<1>3. q.transcript # "none" =>
           store'[Job(r)].transcript # "none" /\ store'[Job(r)].decision # "none"
  BY <1>1, AtWork DEF TranscriptKept
<1>4. store' \in [Jobs -> Record] /\ faults' \in Nat /\ \A j \in Jobs : store'[j] = store[j]
  BY DEF IInv, TypeOK
<1>5. q.pc = "seeding" => Job(r) = r /\ store'[r].transcript = "none"
  BY <1>1, AtWork DEF SeedsEmptyJob, At, Onward
<1> QED BY <1>1, <1>2, <1>3, <1>4, <1>5, ProcessMoves

\* The process is gone, and what its run recorded so far stays; or it is recorded
\* as failed.
LEMMA GoneInv ==
  ASSUME IInv, NEW r \in Runs, NEW how \in {"failed", "dead"}, ~At(r, "off"),
         Gone(r, how),
         UNCHANGED run \/ run' = [run EXCEPT ![r].status = "failed"]
           \/ \E f \in SUBSET Providers :
                run' = [run EXCEPT ![r].failed = f, ![r].status = "failed"],
         UNCHANGED <<rows, store>>, faults' \in Nat
  PROVE  IInv'
<1> DEFINE left == IF At(r, "decide") THEN "torn" ELSE how
           q == [IdleProc EXCEPT !.pc = left]
<1>1. proc' = [proc EXCEPT ![r] = q]
  BY DEF Gone
<1>2. /\ q \in State /\ q.pc \notin {"off", "done", "seeding", "decide"}
      /\ q.transcript = "none" /\ q.pc = left /\ left \in {"failed", "dead", "torn"}
  BY DEF IdleProc, State, Outcomes, Pcs
<1>3. Coherent(q) /\ FilesFit(q, store'[Job(r)].files)
  <2> HIDE DEF left
  <2> QED BY <1>2 DEF Coherent, FilesFit, Live, Nodes, Late, Early
<1>4. /\ run' \in [Runs -> Row] /\ \A s \in Runs \ {r} : run'[s] = run[s]
      /\ run'[r].kind = run[r].kind /\ run'[r].job = run[r].job
      /\ run'[r].source = run[r].source /\ run'[r].status # "none"
  <2>1. CASE UNCHANGED run
    BY <2>1, AtWork DEF IInv, TypeOK
  <2>2. CASE run' = [run EXCEPT ![r].status = "failed"]
    BY <2>2, AtWork DEF IInv, TypeOK, Row, Terminal
  <2>3. ASSUME NEW f \in SUBSET Providers,
               run' = [run EXCEPT ![r].failed = f, ![r].status = "failed"]
        PROVE  /\ run' \in [Runs -> Row] /\ \A s \in Runs \ {r} : run'[s] = run[s]
               /\ run'[r].kind = run[r].kind /\ run'[r].job = run[r].job
               /\ run'[r].source = run[r].source /\ run'[r].status # "none"
    <3> DEFINE w == [run[r] EXCEPT !.failed = f, !.status = "failed"]
    <3>1. run' = [run EXCEPT ![r] = w]
      BY <2>3
    <3>2. w \in Row /\ w.kind = run[r].kind /\ w.job = run[r].job
          /\ w.source = run[r].source /\ w.status # "none"
      BY AtWork DEF Row, Terminal
    <3> HIDE DEF w
    <3> QED BY <3>1, <3>2 DEF IInv, TypeOK
  <2> QED BY <2>1, <2>2, <2>3
<1>5. /\ store' \in [Jobs -> Record] /\ \A j \in Jobs : store'[j] = store[j]
      /\ rows' \in [Candidates -> Jobs \union {NoJob}]
  BY DEF IInv, TypeOK
<1> HIDE DEF q, left
<1> QED BY <1>1, <1>2, <1>3, <1>4, <1>5, AtWork, ProcessMoves

\* A step to the next node that changes nothing but the process.
LEMMA OnlyProcessMoves ==
  ASSUME IInv, NEW r \in Runs, NEW q \in State, proc[r].pc \in Live \ Late,
         proc' = [proc EXCEPT ![r] = q],
         q.pc \in Onward \union ({proc[r].pc} \ {"decide"}), Coherent(q),
         q.transcript = proc[r].transcript,
         UNCHANGED <<run, rows, store, faults>>
  PROVE  IInv'
<1>1. ~At(r, "off")
  BY DEF At, Live, Nodes, Late, Onward
<1>2. /\ run' \in [Runs -> Row] /\ \A s \in Runs \ {r} : run'[s] = run[s]
      /\ run'[r].kind = run[r].kind /\ run'[r].job = run[r].job
      /\ run'[r].source = run[r].source /\ run'[r].status # "none"
      /\ rows' \in [Candidates -> Jobs \union {NoJob}]
  BY <1>1, AtWork DEF IInv, TypeOK
<1> QED BY <1>2, NodeMoves

LEMMA IngestInv ==
  ASSUME IInv, NEW r \in Runs, Ingest(r)
  PROVE  IInv'
<1> DEFINE q == [proc[r] EXCEPT !.pc = "extract_audio"]
<1>1. proc[r].pc \in Live \ Late /\ ~At(r, "off")
  BY DEF Ingest, At, Live, Nodes, Late, Onward
<1>2. q \in State /\ Coherent(q)
  BY <1>1, AtWork DEF Ingest, At, State, Pcs, Live, Nodes, Coherent, Early, Late, Untried, Undecided
<1>3. /\ proc' = [proc EXCEPT ![r] = q] /\ q.transcript = proc[r].transcript
      /\ q.pc \in Onward
  BY <1>1, AtWork DEF Ingest, Go, State, Live, Nodes, Late, Onward
<1> HIDE DEF q
<1> QED BY <1>1, <1>2, <1>3, OnlyProcessMoves DEF Ingest

LEMMA MemoryInv ==
  ASSUME IInv, NEW r \in Runs, MemoryPipeline(r)
  PROVE  IInv'
<1> DEFINE q == [proc[r] EXCEPT !.pc = Route(proc[r])]
<1>1. proc[r].pc \in Live \ Late /\ ~At(r, "off")
  BY DEF MemoryPipeline, At, Live, Nodes, Late, Onward
<1>2. q \in State /\ Coherent(q)
  BY <1>1, AtWork DEF MemoryPipeline, At, State, Pcs, Live, Nodes, Coherent, Early, Late,
     Untried, Undecided, Route, Blocked, Adjudicated
<1>3. /\ proc' = [proc EXCEPT ![r] = q] /\ q.transcript = proc[r].transcript
      /\ q.pc \in Onward
  BY <1>1, AtWork DEF MemoryPipeline, Go, State, Live, Nodes, Late, Route, Onward
<1> HIDE DEF q
<1> QED BY <1>1, <1>2, <1>3, OnlyProcessMoves DEF MemoryPipeline

\* A negated flag is a flag.
LEMMA NotType == ASSUME NEW b PROVE (~b) \in BOOLEAN
OBVIOUS

LEMMA TranslateInv ==
  ASSUME IInv, NEW r \in Runs, GenerateTranslations(r)
  PROVE  IInv'
<1>1. proc[r].pc \in Live \ Late /\ ~At(r, "off") /\ proc[r].pc = "translate"
  BY DEF GenerateTranslations, At, Live, Nodes, Late, Onward
<1>2. CASE proc[r].transcript = "none"
  <2>1. Gone(r, "failed") /\ run' = [run EXCEPT ![r].status = "failed"]
          /\ UNCHANGED <<rows, store, faults>>
    BY <1>2 DEF GenerateTranslations, Fails
  <2>2. faults' \in Nat
    BY <2>1 DEF IInv, TypeOK
  <2> QED BY <1>1, <2>1, <2>2, GoneInv
<1>3. CASE proc[r].transcript # "none"
  <2>1. PICK some \in BOOLEAN :
          proc' = [proc EXCEPT ![r].pc = "review", ![r].translations = some,
                               ![r].translationFailed = ~some]
    BY <1>3 DEF GenerateTranslations
  <2> DEFINE q == [proc[r] EXCEPT !.pc = "review", !.translations = some,
                                  !.translationFailed = ~some]
  <2>2. proc' = [proc EXCEPT ![r] = q]
    BY <2>1
  <2>3. /\ q.pc = "review" /\ q.transcript = proc[r].transcript
        /\ q.pc \in Onward
    BY <1>1, AtWork DEF State, Pcs, Live, Nodes, Late, Onward
  <2>3a. q \in State
    <3>1. "review" \in Pcs /\ (~some) \in BOOLEAN
      BY NotType DEF Pcs, Live, Nodes
    <3> QED BY <1>1, <3>1, AtWork, StateType
  <2>4. Coherent(q)
    BY <1>1, <1>3, AtWork DEF State, Coherent, Early, Late, Untried, Undecided, Tried
  <2>5. UNCHANGED <<run, rows, store, faults>>
    BY <1>3 DEF GenerateTranslations
  <2> HIDE DEF q
  <2> QED BY <1>1, <2>2, <2>3, <2>3a, <2>4, <2>5, OnlyProcessMoves
<1> QED BY <1>2, <1>3

LEMMA ReviewInv ==
  ASSUME IInv, NEW r \in Runs, ReviewTranslations(r)
  PROVE  IInv'
<1> DEFINE q == [proc[r] EXCEPT !.pc = "adjudicate"]
<1>1. proc[r].pc \in Live \ Late /\ ~At(r, "off")
  BY DEF ReviewTranslations, At, Live, Nodes, Late, Onward
<1>2. q \in State /\ Coherent(q)
  BY <1>1, AtWork DEF ReviewTranslations, At, State, Pcs, Live, Nodes, Coherent, Early, Late,
     Tried, Undecided
<1>3. /\ proc' = [proc EXCEPT ![r] = q] /\ q.transcript = proc[r].transcript
      /\ q.pc \in Onward
  BY <1>1, AtWork DEF ReviewTranslations, Go, State, Live, Nodes, Late, Onward
<1> HIDE DEF q
<1> QED BY <1>1, <1>2, <1>3, OnlyProcessMoves DEF ReviewTranslations

LEMMA AdjudicateInv ==
  ASSUME IInv, NEW r \in Runs, AdjudicateTranslation(r)
  PROVE  IInv'
<1>1. proc[r].pc \in Live \ Late /\ ~At(r, "off") /\ proc[r].pc = "adjudicate"
  BY DEF AdjudicateTranslation, At, Live, Nodes, Late, Onward
<1>2. PICK human \in BOOLEAN :
        /\ human \/ proc[r].translations
        /\ proc' = [proc EXCEPT ![r].pc = "memory", ![r].decided = TRUE,
                                ![r].winner = ~human, ![r].humanReview = human,
                                ![r].translationFailed = ~proc[r].translations]
  BY DEF AdjudicateTranslation
<1> DEFINE q == [proc[r] EXCEPT !.pc = "memory", !.decided = TRUE,
                                !.winner = ~human, !.humanReview = human,
                                !.translationFailed = ~proc[r].translations]
<1>3. proc' = [proc EXCEPT ![r] = q]
  BY <1>2
<1>4. /\ q.pc = "memory" /\ q.transcript = proc[r].transcript
      /\ q.pc \in Onward
  BY <1>1, AtWork DEF State, Pcs, Live, Nodes, Late, Onward
<1>4a. q \in State
  <2>1. "memory" \in Pcs /\ (~human) \in BOOLEAN /\ (~proc[r].translations) \in BOOLEAN
    BY NotType DEF Pcs, Live, Nodes
  <2> QED BY <1>1, <2>1, AtWork, StateType
<1>5. Coherent(q)
  BY <1>1, <1>2, AtWork DEF State, Coherent, Early, Late, Tried, Undecided, Adjudicated
<1> HIDE DEF q
<1> QED BY <1>1, <1>3, <1>4, <1>4a, <1>5, OnlyProcessMoves DEF AdjudicateTranslation
-----------------------------------------------------------------------------
\* The steps before a transcript is decided.
LEMMA CopyInv ==
  ASSUME IInv, NEW r \in Runs, CopyCandidate(r)
  PROVE  IInv'
<1>1. proc[r].pc \in Live \ Late /\ ~At(r, "off") /\ proc[r].pc = "seeding"
  BY DEF CopyCandidate, At, Live, Nodes, Late, Onward
<1>2. PICK c \in proc[r].todo :
        /\ rows' = [rows EXCEPT ![c] = Job(r)]
        /\ proc' = [proc EXCEPT ![r].todo = @ \ {c}, ![r].ids = @ \union {c}]
  BY DEF CopyCandidate
<1> DEFINE q == [proc[r] EXCEPT !.todo = @ \ {c}, !.ids = @ \union {c}]
<1>3. proc' = [proc EXCEPT ![r] = q]
  BY <1>2
<1>4. q.pc = "seeding" /\ q.transcript = proc[r].transcript
  BY <1>1, AtWork DEF State
<1>4a. q \in State
  <2>1. /\ proc[r].todo \ {c} \in SUBSET Candidates
        /\ proc[r].ids \union {c} \in SUBSET Candidates
        /\ "seeding" \in Pcs
    BY <1>1, AtWork DEF State, Pcs, Live
  <2> QED BY <1>1, <2>1, AtWork, StateType
<1>5. Coherent(q)
  BY <1>1, AtWork DEF State, Coherent, Early, Late, Untried, Undecided
<1>6. rows' \in [Candidates -> Jobs \union {NoJob}]
  BY <1>1, <1>2, AtWork DEF IInv, TypeOK
<1>7. run' = run /\ run \in [Runs -> Row] /\ UNCHANGED <<store, faults>>
        /\ run[r].status # "none"
  BY <1>1, AtWork DEF CopyCandidate, IInv, TypeOK
<1>8. q.pc \in Onward \union ({proc[r].pc} \ {"decide"})
  BY <1>1, <1>4
<1> HIDE DEF q
<1> QED BY <1>1, <1>3, <1>4, <1>4a, <1>5, <1>6, <1>7, <1>8, NodeMoves

LEMMA StartInv ==
  ASSUME IInv, NEW r \in Runs, Start(r)
  PROVE  IInv'
<1>1. proc[r].pc \in Live \ Late /\ ~At(r, "off") /\ proc[r].pc = "start"
  BY DEF Start, At, Live, Nodes, Late, Onward
<1>2. run[r].kind \in {"fresh", "translation", "transcription"}
  BY <1>1, AtWork DEF IInv, Launched
<1>3. PICK pc \in {"ingest", "fanout", "translate"} : proc' = [proc EXCEPT ![r].pc = pc]
  BY <1>2 DEF Start, Go
<1> DEFINE q == [proc[r] EXCEPT !.pc = pc]
<1>4. proc' = [proc EXCEPT ![r] = q]
  BY <1>3
<1>5. /\ q \in State /\ q.transcript = proc[r].transcript
      /\ q.pc \in Onward
  BY <1>1, AtWork DEF State, Pcs, Live, Nodes, Late, Onward
<1>6. Coherent(q)
  BY <1>1, AtWork DEF State, Coherent, Early, Late, Untried, Undecided
<1>7. /\ run' \in [Runs -> Row] /\ \A s \in Runs \ {r} : run'[s] = run[s]
      /\ run'[r].kind = run[r].kind /\ run'[r].job = run[r].job
      /\ run'[r].source = run[r].source /\ run'[r].status # "none"
  BY <1>1, AtWork DEF Start, IInv, TypeOK, Row
<1>8. rows' \in [Candidates -> Jobs \union {NoJob}] /\ UNCHANGED <<store, faults>>
  BY DEF Start, IInv, TypeOK
<1> HIDE DEF q
<1> QED BY <1>1, <1>4, <1>5, <1>6, <1>7, <1>8, NodeMoves

LEMMA FanoutInv ==
  ASSUME IInv, NEW r \in Runs, FanoutTranscription(r)
  PROVE  IInv'
<1>1. proc[r].pc \in Live \ Late /\ ~At(r, "off") /\ proc[r].pc = "fanout"
  BY DEF FanoutTranscription, At, Live, Nodes, Late, Onward
<1>2. PICK ok \in SUBSET proc[r].adapters :
       /\ run' = [run EXCEPT ![r].failed = proc[r].adapters \ ok,
                             ![r].status = IF ok = {} THEN "failed" ELSE @]
       /\ \/ ok = {} /\ Gone(r, "failed")
          \/ ok # {} /\ proc' = [proc EXCEPT ![r].pc = "normalize", ![r].staged = ok,
                                            ![r].degraded = proc[r].adapters # ok]
  BY DEF FanoutTranscription
<1>3. proc[r].adapters \ ok \in SUBSET Providers /\ ok \in SUBSET Providers
  BY <1>1, AtWork DEF State
<1>4. UNCHANGED <<rows, store, faults>>
  BY DEF FanoutTranscription
<1>5. CASE ok = {}
  <2>1. run' = [run EXCEPT ![r].failed = proc[r].adapters \ ok, ![r].status = "failed"]
    BY <1>2, <1>5
  <2>2. Gone(r, "failed") /\ faults' \in Nat
    BY <1>2, <1>4, <1>5 DEF IInv, TypeOK
  <2> QED BY <1>1, <1>3, <1>4, <2>1, <2>2, GoneInv
<1>6. CASE ok # {}
  <2> DEFINE q == [proc[r] EXCEPT !.pc = "normalize", !.staged = ok,
                                  !.degraded = proc[r].adapters # ok]
             w == [run[r] EXCEPT !.failed = proc[r].adapters \ ok]
  <2>1. proc' = [proc EXCEPT ![r] = q]
    BY <1>2, <1>6
  <2>2. /\ q.pc = "normalize" /\ q.transcript = proc[r].transcript
        /\ q.pc \in Onward
    BY <1>1, AtWork DEF State, Live, Nodes, Late, Onward
  <2>3. q \in State
    <3>1. "normalize" \in Pcs /\ (proc[r].adapters # ok) \in BOOLEAN
      BY DEF Pcs, Live, Nodes
    <3> QED BY <1>1, <1>3, <3>1, AtWork, StateType
  <2>4. Coherent(q)
    BY <1>1, AtWork DEF State, Coherent, Early, Late, Untried, Undecided
  <2>5. run' = [run EXCEPT ![r] = w]
    BY <1>1, <1>2, <1>6, AtWork DEF Row, IInv, TypeOK
  <2>6. /\ w \in Row /\ w.kind = run[r].kind /\ w.job = run[r].job
        /\ w.source = run[r].source /\ w.status # "none"
    BY <1>1, <1>3, AtWork DEF Row
  <2>7. run \in [Runs -> Row] /\ rows' \in [Candidates -> Jobs \union {NoJob}]
    BY <1>4 DEF IInv, TypeOK
  <2> HIDE DEF q, w
  <2> QED BY <1>1, <1>4, <2>1, <2>2, <2>3, <2>4, <2>5, <2>6, <2>7, NodeMoves
<1> QED BY <1>5, <1>6

LEMMA NormalizeInv ==
  ASSUME IInv, NEW r \in Runs, NormalizeTranscripts(r)
  PROVE  IInv'
<1> DEFINE new == {<<Job(r), p>> : p \in proc[r].staged}
           q == [proc[r] EXCEPT !.pc = "spans", !.ids = @ \union new]
<1>1. proc[r].pc \in Live \ Late /\ ~At(r, "off") /\ proc[r].pc = "normalize"
  BY DEF NormalizeTranscripts, At, Live, Nodes, Late, Onward
<1>2. proc' = [proc EXCEPT ![r] = q]
        /\ rows' = [c \in Candidates |-> IF c \in new THEN Job(r) ELSE rows[c]]
  BY DEF NormalizeTranscripts
<1>3. new \subseteq Candidates
  BY <1>1, AtWork DEF State, Candidates
<1>4. /\ q.pc = "spans" /\ q.transcript = proc[r].transcript
      /\ q.pc \in Onward
  BY <1>1, <1>3, AtWork DEF State, Pcs, Live, Nodes, Late, Onward
<1>4a. q \in State
  <2> HIDE DEF new
  <2>1. "spans" \in Pcs /\ proc[r].ids \union new \in SUBSET Candidates
    BY <1>1, <1>3, AtWork DEF Pcs, Live, Nodes, State
  <2> QED BY <1>1, <2>1, AtWork, StateType
<1>5. Coherent(q)
  BY <1>1, AtWork DEF State, Coherent, Early, Late, Untried, Undecided
<1>6. rows' \in [Candidates -> Jobs \union {NoJob}]
  <2> HIDE DEF new
  <2> QED BY <1>1, <1>2, AtWork DEF IInv, TypeOK
<1>7. run' = run /\ run \in [Runs -> Row] /\ UNCHANGED <<store, faults>>
        /\ run[r].status # "none"
  BY <1>1, AtWork DEF NormalizeTranscripts, IInv, TypeOK
<1> HIDE DEF q, new
<1> QED BY <1>1, <1>2, <1>4, <1>4a, <1>5, <1>6, <1>7, NodeMoves

LEMMA SpansInv ==
  ASSUME IInv, NEW r \in Runs, BuildSpans(r)
  PROVE  IInv'
<1> DEFINE found == proc[r].ids \cap Rows(Job(r))
           q == [proc[r] EXCEPT !.pc = "materialize", !.basis = found]
<1>1. proc[r].pc \in Live \ Late /\ ~At(r, "off") /\ proc[r].pc = "spans"
  BY DEF BuildSpans, At, Live, Nodes, Late, Onward
<1>2. UNCHANGED <<rows, store, faults>>
  BY DEF BuildSpans
<1>3. CASE found # {}
  <2>1. proc' = [proc EXCEPT ![r] = q] /\ UNCHANGED run
    BY <1>3 DEF BuildSpans
  <2>2. found \subseteq Candidates
    BY DEF Rows
  <2>3. /\ q.pc = "materialize" /\ q.transcript = proc[r].transcript
        /\ q.pc \in Onward
    BY <1>1, <2>2, AtWork DEF State, Pcs, Live, Nodes, Late, Onward
  <2>3a. q \in State
    <3> HIDE DEF found
    <3>1. "materialize" \in Pcs
      BY DEF Pcs, Live, Nodes
    <3> QED BY <1>1, <2>2, <3>1, AtWork, StateType
  <2>4. Coherent(q)
    BY <1>1, AtWork DEF State, Coherent, Early, Late, Untried, Undecided
  <2> HIDE DEF q, found
  <2> QED BY <1>1, <1>2, <2>1, <2>3, <2>3a, <2>4, OnlyProcessMoves
<1>4. CASE found = {}
  <2>1. Gone(r, "failed") /\ run' = [run EXCEPT ![r].status = "failed"]
    BY <1>4 DEF BuildSpans, Fails
  <2>2. faults' \in Nat
    BY <1>2 DEF IInv, TypeOK
  <2> HIDE DEF found, q
  <2> QED BY <1>1, <1>2, <2>1, <2>2, GoneInv
<1> QED BY <1>3, <1>4
-----------------------------------------------------------------------------
\* The steps that write to the store of the run's job, or to its outcome.
LEMMA ExtractInv ==
  ASSUME IInv, NEW r \in Runs, ExtractAudio(r)
  PROVE  IInv'
<1> DEFINE q == [proc[r] EXCEPT !.pc = "fanout"]
           f == store[Job(r)].files \union {"audio"}
           w == [store[Job(r)] EXCEPT !.files = f]
<1>1. proc[r].pc \in Live \ Late /\ ~At(r, "off") /\ proc[r].pc = "extract_audio"
  BY DEF ExtractAudio, At, Live, Nodes, Late, Onward
<1>2. proc' = [proc EXCEPT ![r] = q] /\ UNCHANGED <<run, rows, faults>>
  BY DEF ExtractAudio, Go
<1>3. q \in State /\ q.pc = "fanout" /\ q.transcript = proc[r].transcript
  BY <1>1, AtWork DEF State, Pcs, Live, Nodes
<1>4. Coherent(q)
  BY <1>1, AtWork DEF State, Coherent, Early, Late, Untried, Undecided
<1>5. store' = [store EXCEPT ![Job(r)] = w]
  BY <1>1, AtWork DEF ExtractAudio
<1>6. /\ w \in Record /\ w.transcript = store[Job(r)].transcript
      /\ w.decision = store[Job(r)].decision /\ w.files = f
  BY <1>1, AtWork DEF Record, Files
<1>7. store' \in [Jobs -> Record] /\ store'[Job(r)] = w
        /\ \A j \in Jobs \ {Job(r)} : store'[j] = store[j]
  <2> HIDE DEF w
  <2> QED BY <1>1, <1>5, <1>6, AtWork DEF IInv, TypeOK
<1>8. Alone(r) => FilesFit(q, store'[Job(r)].files)
  BY <1>1, <1>3, <1>6, <1>7, AtWork DEF FilesFit, Live, Nodes, Late, Onward
<1>9. /\ run' \in [Runs -> Row] /\ rows' \in [Candidates -> Jobs \union {NoJob}]
      /\ faults' \in Nat /\ run'[r].status # "none" /\ run' = run
  BY <1>1, <1>2, AtWork DEF IInv, TypeOK
<1>10. TranscriptKept(r)
  BY <1>1, AtWork
<1> HIDE DEF q, w, f
<1> QED BY <1>1, <1>2, <1>3, <1>4, <1>6, <1>7, <1>8, <1>9, <1>10, ProcessMoves
        DEF TranscriptKept

LEMMA MaterializeInv ==
  ASSUME IInv, NEW r \in Runs, MaterializeTranscript(r)
  PROVE  IInv'
<1>1. proc[r].pc \in Live \ Late /\ ~At(r, "off") /\ proc[r].pc = "materialize"
  BY DEF MaterializeTranscript, At, Live, Nodes, Late, Onward
<1>2. PICK outcome \in {"complete", "blocked"} :
       /\ store' = [store EXCEPT ![Job(r)].transcript = outcome]
       /\ proc' = [proc EXCEPT ![r].pc = "decide", ![r].decision = outcome]
  BY DEF MaterializeTranscript
<1> DEFINE q == [proc[r] EXCEPT !.pc = "decide", !.decision = outcome]
           w == [store[Job(r)] EXCEPT !.transcript = outcome]
<1>3. proc' = [proc EXCEPT ![r] = q] /\ UNCHANGED <<run, rows, faults>>
  BY <1>2 DEF MaterializeTranscript
<1>4. q \in State
  <2>1. "decide" \in Pcs /\ outcome \in Outcomes
    BY DEF Pcs, Live, Nodes, Outcomes
  <2> QED BY <1>1, <2>1, AtWork, StateType
<1>5. /\ Coherent(q) /\ q.pc = "decide" /\ q.decision # "none"
      /\ q.transcript = proc[r].transcript
  BY <1>1, AtWork DEF State, Coherent, Early, Late, Untried, Undecided
<1>6. store' = [store EXCEPT ![Job(r)] = w]
  BY <1>1, <1>2, AtWork
<1>7. /\ w \in Record /\ w.transcript # "none" /\ w.decision = store[Job(r)].decision
      /\ w.files = store[Job(r)].files
  BY <1>1, AtWork DEF Record, Outcomes
<1>8. store' \in [Jobs -> Record] /\ store'[Job(r)] = w
        /\ \A j \in Jobs \ {Job(r)} : store'[j] = store[j]
  <2> HIDE DEF w
  <2> QED BY <1>1, <1>6, <1>7, AtWork DEF IInv, TypeOK
<1>9. Alone(r) => FilesFit(q, store'[Job(r)].files)
  BY <1>1, <1>5, <1>7, <1>8, AtWork DEF FilesFit, Live, Nodes, Late, Onward
<1>10. /\ run' \in [Runs -> Row] /\ rows' \in [Candidates -> Jobs \union {NoJob}]
       /\ faults' \in Nat /\ run'[r].status # "none" /\ run' = run
  BY <1>1, <1>3, AtWork DEF IInv, TypeOK
<1>11. TranscriptKept(r)
  BY <1>1, AtWork
<1> HIDE DEF q, w
<1> QED BY <1>1, <1>3, <1>4, <1>5, <1>7, <1>8, <1>9, <1>10, <1>11, ProcessMoves
        DEF TranscriptKept

LEMMA SaveDecisionInv ==
  ASSUME IInv, NEW r \in Runs, SaveTranscriptDecision(r)
  PROVE  IInv'
<1> DEFINE d == proc[r].decision
           q == [proc[r] EXCEPT !.pc = "memory", !.transcript = d,
                               !.transcriptFailed = (d = "blocked")]
           w == [store[Job(r)] EXCEPT !.decision = d]
<1>1. proc[r].pc \in Live \ Late /\ ~At(r, "off") /\ proc[r].pc = "decide"
  BY DEF SaveTranscriptDecision, At, Live, Nodes, Late, Onward
<1>2. d \in Outcomes \ {"none"} /\ store[Job(r)].transcript # "none"
  BY <1>1, AtWork DEF TranscriptKept, At, State
<1>3. proc' = [proc EXCEPT ![r] = q] /\ UNCHANGED <<run, rows, faults>>
  BY DEF SaveTranscriptDecision
<1>4. q \in State
  <2>1. "memory" \in Pcs /\ (d = "blocked") \in BOOLEAN
    BY DEF Pcs, Live, Nodes
  <2> HIDE DEF d
  <2> QED BY <1>1, <1>2, <2>1, AtWork, StateType
<1>5. Coherent(q) /\ q.pc = "memory"
  BY <1>1, <1>2, AtWork DEF State, Coherent, Early, Late, Untried, Undecided, Blocked, Outcomes
<1>6. store' = [store EXCEPT ![Job(r)] = w]
  BY <1>1, AtWork DEF SaveTranscriptDecision
<1>7. /\ w \in Record /\ w.transcript # "none" /\ w.decision # "none"
      /\ w.files = store[Job(r)].files
  <2> HIDE DEF d
  <2> QED BY <1>1, <1>2, AtWork DEF Record
<1>8. store' \in [Jobs -> Record] /\ store'[Job(r)] = w
        /\ \A j \in Jobs \ {Job(r)} : store'[j] = store[j]
  <2> HIDE DEF w
  <2> QED BY <1>1, <1>6, <1>7, AtWork DEF IInv, TypeOK
<1>9. Alone(r) => FilesFit(q, store'[Job(r)].files)
  BY <1>1, <1>5, <1>7, <1>8, AtWork DEF FilesFit, Live, Nodes, Late, Onward
<1>10. /\ run' \in [Runs -> Row] /\ rows' \in [Candidates -> Jobs \union {NoJob}]
       /\ faults' \in Nat /\ run'[r].status # "none" /\ run' = run
  BY <1>1, <1>3, AtWork DEF IInv, TypeOK
<1> HIDE DEF q, w, d
<1> QED BY <1>1, <1>3, <1>4, <1>5, <1>7, <1>8, <1>9, <1>10, ProcessMoves

LEMMA FinalizeInv ==
  ASSUME IInv, NEW r \in Runs, FinalizeOutputs(r)
  PROVE  IInv'
<1> DEFINE files == PublishedFiles(proc[r])
           q == [proc[r] EXCEPT !.pc = "link"]
           f == (store[Job(r)].files \ {"srt"}) \union files
           w == [store[Job(r)] EXCEPT !.files = f]
           v == [run[r] EXCEPT !.linked = @ \/ "translation" \in files]
<1>1. proc[r].pc \in Live /\ ~At(r, "off") /\ proc[r].pc = "finalize"
  BY DEF FinalizeOutputs, At, Live, Nodes
<1>2. proc' = [proc EXCEPT ![r] = q] /\ UNCHANGED <<rows, faults>>
        /\ run' = [run EXCEPT ![r] = v]
  BY DEF FinalizeOutputs, Go
<1>3. q \in State /\ q.pc = "link" /\ q.transcript = proc[r].transcript
  BY <1>1, AtWork DEF State, Pcs, Live, Nodes
<1>4. Coherent(q)
  BY <1>1, AtWork DEF State, Coherent, Early, Late, Blocked, Adjudicated
<1>5. store' = [store EXCEPT ![Job(r)] = w]
  BY <1>1, AtWork DEF FinalizeOutputs
<1>6. files \subseteq Files \ {"audio"} /\ PublishedFiles(q) = files
  BY <1>1, AtWork DEF PublishedFiles, Files, State
<1>7. /\ w \in Record /\ w.transcript = store[Job(r)].transcript
      /\ w.decision = store[Job(r)].decision /\ w.files = f
  <2> HIDE DEF files
  <2> QED BY <1>1, <1>6, AtWork DEF Record
<1>8. store' \in [Jobs -> Record] /\ store'[Job(r)] = w
        /\ \A j \in Jobs \ {Job(r)} : store'[j] = store[j]
  <2> HIDE DEF w
  <2> QED BY <1>1, <1>5, <1>7, AtWork DEF IInv, TypeOK
<1>9. Alone(r) => FilesFit(q, store'[Job(r)].files)
  <2>1. Alone(r) => store[Job(r)].files \subseteq {"audio"}
    BY <1>1, AtWork DEF FilesFit, Late
  <2> HIDE DEF files
  <2>2. Alone(r) => f \ {"audio"} = files
    BY <2>1, <1>6
  <2> HIDE DEF q, w, f
  <2> QED BY <1>3, <1>6, <1>7, <1>8, <2>2 DEF FilesFit, Live, Nodes, Late, Onward
<1>10. /\ v \in Row /\ v.kind = run[r].kind /\ v.job = run[r].job
       /\ v.source = run[r].source /\ v.status # "none"
  <2> HIDE DEF files
  <2>1. ("translation" \in files) \in BOOLEAN
    OBVIOUS
  <2> QED BY <1>1, <2>1, AtWork DEF Row
<1>11. /\ run' \in [Runs -> Row] /\ rows' \in [Candidates -> Jobs \union {NoJob}]
       /\ faults' \in Nat /\ run'[r] = v /\ \A s \in Runs \ {r} : run'[s] = run[s]
  <2> HIDE DEF v
  <2> QED BY <1>1, <1>2, <1>10, AtWork DEF IInv, TypeOK
<1>12. TranscriptKept(r)
  BY <1>1, AtWork
<1> HIDE DEF q, w, f, v, files
<1> QED BY <1>1, <1>2, <1>3, <1>4, <1>7, <1>8, <1>9, <1>10, <1>11, <1>12, ProcessMoves
        DEF TranscriptKept

\* The two last steps of a run leave the store alone.
LEMMA LinkInv ==
  ASSUME IInv, NEW r \in Runs, UpsertLink(r)
  PROVE  IInv'
<1> DEFINE b == ~proc[r].translationFailed /\ ~proc[r].humanReview
           q == [proc[r] EXCEPT !.pc = "record"]
           v == [run[r] EXCEPT !.linked = @ \/ b]
<1>1. proc[r].pc \in Live /\ ~At(r, "off") /\ proc[r].pc = "link"
  BY DEF UpsertLink, At, Live, Nodes
<1>2. proc' = [proc EXCEPT ![r] = q] /\ UNCHANGED <<rows, store, faults>>
        /\ run' = [run EXCEPT ![r] = v]
  BY DEF UpsertLink, Go
<1>3. /\ q \in State /\ q.pc = "record" /\ q.transcript = proc[r].transcript
      /\ PublishedFiles(q) = PublishedFiles(proc[r])
  BY <1>1, AtWork DEF State, Pcs, Live, Nodes, PublishedFiles
<1>4. Coherent(q)
  BY <1>1, AtWork DEF State, Coherent, Early, Late, Blocked, Adjudicated
<1>5. Alone(r) => FilesFit(q, store'[Job(r)].files)
  BY <1>1, <1>2, <1>3, AtWork DEF FilesFit, Live, Nodes, Late, Onward
<1>6. /\ v \in Row /\ v.kind = run[r].kind /\ v.job = run[r].job
      /\ v.source = run[r].source /\ v.status # "none"
  <2>1. b \in BOOLEAN
    BY NotType
  <2> HIDE DEF b
  <2> QED BY <1>1, <2>1, AtWork DEF Row
<1>7. /\ run' \in [Runs -> Row] /\ rows' \in [Candidates -> Jobs \union {NoJob}]
      /\ faults' \in Nat /\ run'[r] = v /\ \A s \in Runs \ {r} : run'[s] = run[s]
      /\ store' \in [Jobs -> Record] /\ store' = store
  <2> HIDE DEF v
  <2> QED BY <1>1, <1>2, <1>6, AtWork DEF IInv, TypeOK
<1>8. TranscriptKept(r)
  BY <1>1, AtWork
<1> HIDE DEF q, v, b
<1> QED BY <1>1, <1>2, <1>3, <1>4, <1>5, <1>6, <1>7, <1>8, ProcessMoves DEF TranscriptKept

LEMMA RecordInv ==
  ASSUME IInv, NEW r \in Runs, RecordOutcome(r)
  PROVE  IInv'
<1> DEFINE q == [proc[r] EXCEPT !.pc = "done"]
           v == [run[r] EXCEPT !.status = FinalStatus(proc[r])]
<1>1. proc[r].pc \in Live /\ ~At(r, "off") /\ proc[r].pc = "record"
  BY DEF RecordOutcome, At, Live
<1>2. proc' = [proc EXCEPT ![r] = q] /\ UNCHANGED <<rows, store, faults>>
        /\ run' = [run EXCEPT ![r] = v]
  BY DEF RecordOutcome, Go
<1>3. /\ q \in State /\ q.pc = "done" /\ q.transcript = proc[r].transcript
      /\ PublishedFiles(q) = PublishedFiles(proc[r])
      /\ FinalStatus(q) = FinalStatus(proc[r])
  BY <1>1, AtWork DEF State, Pcs, PublishedFiles, FinalStatus
<1>4. Coherent(q)
  BY <1>1, AtWork DEF State, Coherent, Early, Late, Blocked, Adjudicated
<1>5. Alone(r) => FilesFit(q, store'[Job(r)].files)
  BY <1>1, <1>2, <1>3, AtWork DEF FilesFit, Live, Nodes, Late, Onward
<1>6. /\ v \in Row /\ v.kind = run[r].kind /\ v.job = run[r].job
      /\ v.source = run[r].source /\ v.status # "none"
      /\ v.status = FinalStatus(proc[r])
  <2>1. FinalStatus(proc[r]) \in Terminal
    BY DEF FinalStatus, Terminal, Completed
  <2> QED BY <1>1, <2>1, AtWork DEF Row, Terminal, Completed
<1>7. /\ run' \in [Runs -> Row] /\ rows' \in [Candidates -> Jobs \union {NoJob}]
      /\ faults' \in Nat /\ run'[r] = v /\ \A s \in Runs \ {r} : run'[s] = run[s]
      /\ store' \in [Jobs -> Record] /\ store' = store
  <2> HIDE DEF v
  <2> QED BY <1>1, <1>2, <1>6, AtWork DEF IInv, TypeOK
<1>8. TranscriptKept(r)
  BY <1>1, AtWork
<1> HIDE DEF q, v
<1> QED BY <1>1, <1>2, <1>3, <1>4, <1>5, <1>6, <1>7, <1>8, ProcessMoves DEF TranscriptKept
-----------------------------------------------------------------------------
\* The copies of a seeding that makes it to the end.
LEMMA SeedInv ==
  ASSUME IInv, NEW r \in Runs, FinishSeeding(r)
  PROVE  IInv'
<1> DEFINE from == store[Job(run[r].source)]
           copied == IF proc[r].decision = "none" THEN "none" ELSE from.transcript
           q == [proc[r] EXCEPT !.pc = "start"]
           qc == [proc[r] EXCEPT !.pc = "start", !.transcript = copied]
           w == [store[r] EXCEPT !.transcript = copied, !.decision = proc[r].decision]
<1>1. /\ proc[r].pc \in Live \ Late /\ ~At(r, "off") /\ proc[r].pc = "seeding"
      /\ UNCHANGED <<run, rows, faults>>
  BY DEF FinishSeeding, At, Live, Nodes, Late, Onward
<1>2. CASE run[r].kind = "transcription" /\ Go(r, "start") /\ UNCHANGED store
  <2>1. /\ q \in State /\ q.transcript = proc[r].transcript
        /\ q.pc \in Onward
    BY <1>1, AtWork DEF State, Pcs, Live, Nodes, Late, Onward
  <2>2. Coherent(q)
    BY <1>1, AtWork DEF State, Coherent, Early, Late, Untried, Undecided
  <2>3. proc' = [proc EXCEPT ![r] = q]
    BY <1>2 DEF Go
  <2> HIDE DEF q
  <2> QED BY <1>1, <1>2, <2>1, <2>2, <2>3, OnlyProcessMoves
<1>3. CASE /\ run[r].kind = "translation"
           /\ store' = [store EXCEPT ![r].transcript = copied,
                                     ![r].decision = proc[r].decision]
           /\ proc' = [proc EXCEPT ![r].pc = "start", ![r].transcript = copied]
  <2>1. Job(r) = r /\ Job(run[r].source) \in Jobs /\ r \in Jobs
    BY <1>1, <1>3, AtWork, JobType DEF IInv, Launched
  <2>2. from \in Record /\ copied \in Outcomes /\ proc[r].decision \in Outcomes
    BY <1>1, <2>1, AtWork DEF IInv, TypeOK, Record, Outcomes, State
  <2>3. copied # "none" => proc[r].decision # "none"
    OBVIOUS
  <2>4. proc' = [proc EXCEPT ![r] = qc] /\ store' = [store EXCEPT ![r] = w]
    BY <1>3, <2>1 DEF IInv, TypeOK
  <2> HIDE DEF copied
  <2>5. qc \in State
    <3>1. "start" \in Pcs
      BY DEF Pcs, Live
    <3> QED BY <1>1, <2>2, <3>1, AtWork, StateType
  <2>6. qc.pc = "start" /\ qc.transcript = copied /\ Coherent(qc)
    BY <1>1, AtWork DEF State, Coherent, Early, Late, Untried, Undecided
  <2>7. /\ w \in Record /\ w.transcript = copied /\ w.decision = proc[r].decision
        /\ w.files = store[r].files
    BY <2>1, <2>2 DEF Record, IInv, TypeOK
  <2>8. store' \in [Jobs -> Record] /\ store'[r] = w
          /\ \A j \in Jobs \ {r} : store'[j] = store[j]
    <3> HIDE DEF w
    <3> QED BY <2>1, <2>4, <2>7 DEF IInv, TypeOK
  <2>9. Alone(r) => FilesFit(qc, store'[Job(r)].files)
    BY <1>1, <2>1, <2>6, <2>7, <2>8, AtWork DEF FilesFit, Live, Nodes, Late, Onward
  <2>10. /\ run' \in [Runs -> Row] /\ rows' \in [Candidates -> Jobs \union {NoJob}]
         /\ faults' \in Nat /\ run'[r].status # "none" /\ run' = run
    BY <1>1, AtWork DEF IInv, TypeOK
  <2>11. store[Job(r)].transcript = "none"
    BY <1>1, <2>1, AtWork DEF SeedsEmptyJob, At
  <2> HIDE DEF qc, w
  <2> QED BY <1>1, <2>1, <2>3, <2>4, <2>5, <2>6, <2>7, <2>8, <2>9, <2>10, <2>11, ProcessMoves
<1>4. CASE Gone(r, "dead") /\ UNCHANGED store
  <2>1. faults' \in Nat
    BY <1>1 DEF IInv, TypeOK
  <2> QED BY <1>1, <1>4, <2>1, GoneInv
<1> QED BY <1>2, <1>3, <1>4 DEF FinishSeeding

\* A fault ends the process, wherever it is.
LEMMA FaultInv ==
  ASSUME IInv, NEW r \in Runs, Raises(r) \/ Dies(r)
  PROVE  IInv'
<1>1. ~At(r, "off") /\ faults' \in Nat /\ UNCHANGED <<rows, store>>
  BY DEF Raises, Dies, At, Live, Nodes, IInv, TypeOK
<1>2. CASE Raises(r)
  BY <1>1, <1>2, GoneInv DEF Raises, Fails
<1>3. CASE Dies(r)
  BY <1>1, <1>3, GoneInv DEF Dies
<1> QED BY <1>2, <1>3
-----------------------------------------------------------------------------
\* A new run gets a job that nobody had, or that only fresh runs have; a resumed
\* run may find the source's audio there.
LEMMA LaunchInv ==
  ASSUME IInv, NEW r \in Runs, run[r].status = "none",
         NEW q \in State, proc' = [proc EXCEPT ![r] = q],
         q.pc \in {"start", "seeding", "dead"}, Untried(q), q.transcript = "none",
         NEW w \in Row, run' = [run EXCEPT ![r] = w], w.status # "none",
         \/ w.kind = "fresh" /\ w.job \in FreshJobs /\ q.pc # "seeding"
         \/ /\ w.kind \in {"translation", "transcription"} /\ w.job = r
            /\ w.source \in Runs /\ run[w.source].status # "none",
         store' \in [Jobs -> Record],
         \A j \in Jobs : /\ store'[j].transcript = store[j].transcript
                         /\ store'[j].decision = store[j].decision
                         /\ j # w.job => store'[j].files = store[j].files
                         /\ store'[j].files \subseteq store[j].files \union {"audio"},
         UNCHANGED <<rows, faults>>
  PROVE  IInv'
<1>0. proc \in [Runs -> State] /\ run \in [Runs -> Row]
  BY DEF IInv, TypeOK
<1>1. \A s \in Runs : /\ proc'[s] = IF s = r THEN q ELSE proc[s]
                      /\ run'[s] = IF s = r THEN w ELSE run[s]
  BY <1>0
<1>2. TypeOK'
  BY <1>0 DEF IInv, TypeOK
<1>3. Job(r) = NoJob /\ Job(r)' = w.job /\ w.job \in Jobs /\ w.job # NoJob
  BY <1>1, JobType, WorkflowAssumption DEF Job, Jobs
<1>4. \A s \in Runs \ {r} : Job(s)' = Job(s) /\ proc'[s] = proc[s] /\ run'[s] = run[s]
  BY <1>1 DEF Job
<1>5. \A s \in Runs \ {r} : Alone(s)' /\ Job(s) \in Jobs => Alone(s) /\ Job(s) # w.job
  BY <1>3, <1>4, WorkflowAssumption DEF Alone
<1>6. w.job = r => \A s \in Runs : Job(s) # r
  BY <1>3, JobType, WorkflowAssumption DEF Jobs
<1>7. UnusedJobsEmpty'
  <2> SUFFICES ASSUME NEW j \in Jobs, \A s \in Runs : Job(s)' # j
               PROVE  /\ store'[j].files = {} /\ store'[j].transcript = "none"
                      /\ store'[j].decision = "none"
    BY DEF UnusedJobsEmpty
  <2>1. \A s \in Runs : Job(s) # j
    BY <1>3, <1>4, WorkflowAssumption
  <2>2. j # w.job
    BY <1>3
  <2> QED BY <2>1, <2>2 DEF IInv, UnusedJobsEmpty
<1>8. ASSUME NEW s \in Runs
      PROVE  (Launched(s) /\ Coherent(proc[s]) /\ TranscriptKept(s) /\ SeedsEmptyJob(s)
               /\ StatusFollows(s) /\ FilesFollow(s))'
  <2>1. CASE s = r
    <3>1. Launched(r)'
      <4>1. ~At(r, "off")'
        BY <1>1 DEF At
      <4>2. w.source \in Runs /\ run[w.source].status # "none" =>
              run'[w.source].status # "none"
        BY <1>1
      <4> QED BY <1>1, <1>3, <4>1, <4>2 DEF Launched
    <3>2. Coherent(proc[r])'
      BY <1>1 DEF Coherent, Untried, Undecided, Late
    <3>3. TranscriptKept(r)' /\ StatusFollows(r)'
      BY <1>1 DEF TranscriptKept, StatusFollows, At
    <3>4. SeedsEmptyJob(r)'
      <4>1. w.job = r => store[r].transcript = "none" /\ r \in Jobs
        BY <1>3, <1>6 DEF IInv, UnusedJobsEmpty
      <4> QED BY <1>1, <1>3, <4>1, WorkflowAssumption DEF SeedsEmptyJob, At, Jobs
    <3>5. FilesFollow(r)'
      <4> SUFFICES ASSUME Alone(r)' PROVE FilesFit(q, store'[w.job].files)
        BY <1>1, <1>3 DEF FilesFollow, FilesFit, PublishedFiles
      <4>1. \A u \in Runs : Job(u) # w.job
        BY <1>3, <1>4 DEF Alone
      <4>2. store[w.job].files = {}
        BY <1>3, <4>1 DEF IInv, UnusedJobsEmpty
      <4>3. store'[w.job].files \subseteq {"audio"}
        BY <1>3, <4>2
      <4> QED BY <4>3 DEF FilesFit, Late
    <3> QED BY <2>1, <3>1, <3>2, <3>3, <3>4, <3>5
  <2>2. CASE s # r
    <3>1. /\ Launched(s) /\ Coherent(proc[s]) /\ TranscriptKept(s) /\ SeedsEmptyJob(s)
          /\ StatusFollows(s) /\ FilesFollow(s)
      BY DEF IInv
    <3>2. Job(s)' = Job(s) /\ proc'[s] = proc[s] /\ run'[s] = run[s]
      BY <2>2, <1>4
    <3>3. Launched(s)'
      <4>1. \A u \in Runs : run[u].status # "none" => run'[u].status # "none"
        BY <1>1
      <4> QED BY <3>1, <3>2, <4>1 DEF Launched, At
    <3>4. Coherent(proc[s])' /\ StatusFollows(s)'
      BY <3>1, <3>2 DEF StatusFollows, At, FinalStatus, Coherent, Untried, Tried, Undecided,
         Blocked, Adjudicated
    <3>5. CASE Job(s) \in Jobs
      <4>1. TranscriptKept(s)' /\ SeedsEmptyJob(s)'
        BY <3>1, <3>2, <3>5 DEF TranscriptKept, SeedsEmptyJob, At, Jobs
      <4>2. FilesFollow(s)'
        <5> SUFFICES ASSUME Alone(s)' PROVE FilesFit(proc[s], store'[Job(s)].files)
          BY <3>2 DEF FilesFollow, FilesFit, PublishedFiles
        <5> QED BY <2>2, <1>5, <3>1, <3>5 DEF FilesFollow
      <4> QED BY <3>3, <3>4, <4>1, <4>2
    <3>6. CASE Job(s) \notin Jobs
      <4>1. proc'[s].pc = "off" /\ proc'[s].transcript = "none"
        BY <3>1, <3>2, <3>6, JobType DEF At, Coherent, IdleProc
      <4>2. TranscriptKept(s)' /\ SeedsEmptyJob(s)' /\ FilesFollow(s)'
        BY <4>1 DEF TranscriptKept, SeedsEmptyJob, FilesFollow, FilesFit, At, Live, Nodes, Late
      <4> QED BY <3>3, <3>4, <4>2
    <3> QED BY <3>5, <3>6
  <2> QED BY <2>1, <2>2
<1> QED BY <1>2, <1>7, <1>8 DEF IInv

\* A run that has no row yet has an idle process.
LEMMA Unlaunched ==
  ASSUME IInv, NEW r \in Runs, run[r].status = "none"
  PROVE  proc[r] = IdleProc /\ run[r] \in Row
BY DEF IInv, TypeOK, Launched, Coherent, At

LEMMA RunJobInv ==
  ASSUME IInv, NEW r \in Runs, NEW j \in FreshJobs, RunJob(r, j)
  PROVE  IInv'
<1> DEFINE q == [IdleProc EXCEPT !.pc = "start", !.adapters = Providers]
           w == [run[r] EXCEPT !.status = "bootstrapped", !.kind = "fresh",
                               !.job = j, !.root = j]
<1>1. run[r].status = "none" /\ proc[r] = IdleProc /\ run[r] \in Row
        /\ UNCHANGED <<rows, store, faults>>
  BY Unlaunched DEF RunJob, CanLaunch
<1>2. proc' = [proc EXCEPT ![r] = q] /\ run' = [run EXCEPT ![r] = w]
  BY <1>1 DEF RunJob
<1>3. /\ q \in State /\ q.pc = "start" /\ Untried(q) /\ q.transcript = "none"
  BY DEF IdleProc, State, Outcomes, Pcs, Live, Untried, Undecided
<1>4. w \in Row /\ w.status # "none" /\ w.kind = "fresh" /\ w.job = j
  BY <1>1 DEF Row, Kinds, Jobs
<1>5. store' \in [Jobs -> Record] /\ store' = store
  BY <1>1 DEF IInv, TypeOK
<1> HIDE DEF q, w
<1> QED BY <1>1, <1>2, <1>3, <1>4, <1>5, LaunchInv

LEMMA ResumeTranslationInv ==
  ASSUME IInv, NEW r \in Runs, NEW s \in Runs, ResumeTranslation(r, s)
  PROVE  IInv'
<1> DEFINE q == [IdleProc EXCEPT !.pc = "seeding", !.todo = Rows(Job(s)),
                                 !.decision = store[Job(s)].decision]
           w == [run[r] EXCEPT !.status = "bootstrapped", !.kind = "translation",
                               !.job = r, !.root = run[s].root, !.source = s]
<1>1. /\ run[r].status = "none" /\ proc[r] = IdleProc /\ run[r] \in Row
      /\ UNCHANGED <<rows, store, faults>> /\ run[s].status # "none"
  BY Unlaunched DEF ResumeTranslation, CanLaunch
<1>2. proc' = [proc EXCEPT ![r] = q] /\ run' = [run EXCEPT ![r] = w]
  BY <1>1 DEF ResumeTranslation
<1>3. Job(s) \in Jobs /\ store[Job(s)].decision \in Outcomes /\ Rows(Job(s)) \subseteq Candidates
      /\ run[s].root \in Jobs \union {NoJob}
  BY <1>1, JobType DEF IInv, TypeOK, Record, Rows, Row
<1>4. /\ q \in State /\ q.pc = "seeding" /\ Untried(q) /\ q.transcript = "none"
  BY <1>3 DEF IdleProc, State, Outcomes, Pcs, Live, Untried, Undecided
<1>5. w \in Row /\ w.status # "none" /\ w.kind = "translation" /\ w.job = r /\ w.source = s
  BY <1>1, <1>3 DEF Row, Kinds, Jobs
<1>6. store' \in [Jobs -> Record] /\ store' = store
  BY <1>1 DEF IInv, TypeOK
<1> HIDE DEF q, w
<1> QED BY <1>1, <1>2, <1>4, <1>5, <1>6, LaunchInv

LEMMA ResumeTranscriptionInv ==
  ASSUME IInv, NEW r \in Runs, NEW s \in Runs, NEW requested \in SUBSET Providers,
         ResumeTranscription(r, s, requested)
  PROVE  IInv'
<1> DEFINE retry == IF requested # {} THEN requested ELSE run[s].failed
           q == [IdleProc EXCEPT !.pc = "seeding", !.adapters = retry,
                                 !.todo = {c \in Rows(Job(s)) : c[2] \notin retry}]
           qd == [IdleProc EXCEPT !.pc = "dead"]
           w == [run[r] EXCEPT !.status = "bootstrapped", !.kind = "transcription",
                               !.job = r, !.root = run[s].root, !.source = s]
           x == [store[r] EXCEPT !.files = {"audio"}]
<1>1. /\ run[r].status = "none" /\ proc[r] = IdleProc /\ run[r] \in Row
      /\ UNCHANGED <<rows, faults>> /\ run[s].status # "none" /\ r \in Jobs
  BY Unlaunched DEF ResumeTranscription, CanLaunch, Jobs
<1>2. run' = [run EXCEPT ![r] = w]
  BY <1>1 DEF ResumeTranscription
<1>3. /\ retry \subseteq Providers /\ {c \in Rows(Job(s)) : c[2] \notin retry} \subseteq Candidates
      /\ run[s].root \in Jobs \union {NoJob}
  BY <1>1 DEF IInv, TypeOK, Rows, Row
<1>4. w \in Row /\ w.status # "none" /\ w.kind = "transcription" /\ w.job = r /\ w.source = s
  BY <1>1, <1>3 DEF Row, Kinds, Jobs
<1>5. CASE "audio" \in store[Job(s)].files
  <2>1. proc' = [proc EXCEPT ![r] = q] /\ store' = [store EXCEPT ![r] = x]
    BY <1>1, <1>5 DEF ResumeTranscription, IInv, TypeOK
  <2>2. /\ q \in State /\ q.pc = "seeding" /\ Untried(q) /\ q.transcript = "none"
    <3> HIDE DEF retry
    <3> QED BY <1>3 DEF IdleProc, State, Outcomes, Pcs, Live, Untried, Undecided
  <2>3. /\ x \in Record /\ x.transcript = store[r].transcript
        /\ x.decision = store[r].decision /\ x.files = {"audio"}
    BY <1>1 DEF IInv, TypeOK, Record, Files
  <2>4. /\ store' \in [Jobs -> Record]
        /\ \A j \in Jobs : store'[j] = IF j = r THEN x ELSE store[j]
    <3> HIDE DEF x
    <3> QED BY <1>1, <2>1, <2>3 DEF IInv, TypeOK
  <2> HIDE DEF q, w, x, retry, qd
  <2>5. \A j \in Jobs : /\ store'[j].transcript = store[j].transcript
                        /\ store'[j].decision = store[j].decision
                        /\ j # w.job => store'[j].files = store[j].files
                        /\ store'[j].files \subseteq store[j].files \union {"audio"}
    BY <1>4, <2>3, <2>4
  <2>6. proc' = [proc EXCEPT ![r] = q] /\ store' \in [Jobs -> Record]
    BY <2>1, <2>4
  <2> QED BY <1>1, <1>2, <1>4, <2>2, <2>5, <2>6, LaunchInv
<1>6. CASE "audio" \notin store[Job(s)].files
  <2>1. proc' = [proc EXCEPT ![r] = qd] /\ store' = store
    BY <1>1, <1>6 DEF ResumeTranscription, Gone, At, IdleProc
  <2>2. /\ qd \in State /\ qd.pc = "dead" /\ Untried(qd) /\ qd.transcript = "none"
    BY DEF IdleProc, State, Outcomes, Pcs, Live, Untried, Undecided
  <2>3. store' \in [Jobs -> Record]
    BY <2>1 DEF IInv, TypeOK
  <2> HIDE DEF q, w, x, retry, qd
  <2> QED BY <1>1, <1>2, <1>4, <2>1, <2>2, <2>3, LaunchInv
<1> QED BY <1>5, <1>6
-----------------------------------------------------------------------------
\* Every step of every process keeps the invariant.
LEMMA NextInv == IInv /\ [Next]_vars => IInv'
<1> SUFFICES ASSUME IInv, [Next]_vars PROVE IInv'
  OBVIOUS
<1>1. CASE UNCHANGED vars
  <2>1. run' = run /\ proc' = proc /\ rows' = rows /\ store' = store /\ faults' = faults
    BY <1>1 DEF vars
  <2>2. TypeOK' /\ UnusedJobsEmpty'
    BY <2>1 DEF IInv, TypeOK, UnusedJobsEmpty, Job
  <2>3. ASSUME NEW r \in Runs
        PROVE  (Launched(r) /\ Coherent(proc[r]) /\ TranscriptKept(r) /\ SeedsEmptyJob(r)
                 /\ StatusFollows(r) /\ FilesFollow(r))'
    <3>1. Launched(r)' /\ TranscriptKept(r)' /\ SeedsEmptyJob(r)' /\ StatusFollows(r)'
      BY <2>1 DEF IInv, Launched, TranscriptKept, SeedsEmptyJob, StatusFollows, FinalStatus,
         Job, At
    <3>2. Coherent(proc[r])'
      BY <2>1 DEF IInv, Coherent, Untried, Tried, Undecided, Blocked, Adjudicated
    <3>3. FilesFollow(r)'
      BY <2>1 DEF IInv, FilesFollow, FilesFit, PublishedFiles, Alone, Job
    <3> QED BY <3>1, <3>2, <3>3
  <2> QED BY <2>2, <2>3 DEF IInv
<1>2. ASSUME NEW r \in Runs, NEW j \in FreshJobs, RunJob(r, j) PROVE IInv'
  BY <1>2, RunJobInv
<1>3. ASSUME NEW r \in Runs, NEW s \in Runs, ResumeTranslation(r, s) PROVE IInv'
  BY <1>3, ResumeTranslationInv
<1>4. ASSUME NEW r \in Runs, NEW s \in Runs, NEW requested \in SUBSET Providers,
             ResumeTranscription(r, s, requested)
      PROVE  IInv'
  BY <1>4, ResumeTranscriptionInv
<1>5. ASSUME NEW r \in Runs, Step(r) PROVE IInv'
  BY <1>5, CopyInv, SeedInv, StartInv, IngestInv, ExtractInv, FanoutInv, NormalizeInv,
     SpansInv, MaterializeInv, SaveDecisionInv, MemoryInv, TranslateInv, ReviewInv, AdjudicateInv,
     FinalizeInv, LinkInv, RecordInv DEF Step
<1>6. ASSUME NEW r \in Runs, Raises(r) \/ Dies(r) PROVE IInv'
  BY <1>6, FaultInv
<1>7. CASE Finished
  BY <1>1, <1>7 DEF Finished
<1> QED BY <1>1, <1>2, <1>3, <1>4, <1>5, <1>6, <1>7 DEF Next

LEMMA InvariantHolds == Spec => []IInv
<1> QED BY InitInv, NextInv, PTL DEF Spec

\* The type invariant, and what a run's state says about the node it is at.
THEOREM TypeCorrect == Spec => []TypeOK
<1>1. IInv => TypeOK
  BY DEF IInv
<1> QED BY <1>1, InvariantHolds, PTL

\* The status a run records agrees with what a reader finds under its job, however
\* many other runs are at work, resumed or crashed at the same time.
THEOREM OutcomePublished == Spec => []OutcomeMatchesPublication
<1>1. IInv => OutcomeMatchesPublication
  <2> SUFFICES ASSUME IInv, NEW r \in Runs, At(r, "done"), Alone(r)
               PROVE  LET files == store[Job(r)].files
                          status == run[r].status
                      IN
                      /\ "translation" \in files <=> status \in Completed
                      /\ "srt" \in files <=> status \in Completed
                      /\ "translation-failed" \in files <=> status = "translation_failed"
                      /\ "translation-failed" \in files
                           <=> proc[r].decided /\ ~proc[r].translations
                      /\ "transcript" \in files
    BY DEF OutcomeMatchesPublication
  <2>1. store[Job(r)].files \ {"audio"} = PublishedFiles(proc[r])
    BY AtWork DEF At, FilesFit, Late
  <2>2. run[r].status = FinalStatus(proc[r])
    BY DEF IInv, StatusFollows
  <2>3. Blocked(proc[r]) \/ Adjudicated(proc[r])
    BY DEF IInv, Coherent, At, Late
  <2>4. \A f \in Files \ {"audio"} :
          f \in store[Job(r)].files <=> f \in PublishedFiles(proc[r])
    BY <2>1
  <2>5. CASE Blocked(proc[r])
    <3>1. run[r].status = "transcript_failed" /\ PublishedFiles(proc[r]) = {"transcript"}
      BY <2>2, <2>5 DEF FinalStatus, Blocked, PublishedFiles
    <3> QED BY <2>4, <2>5, <3>1 DEF Completed, Files, Blocked
  <2>6. CASE Adjudicated(proc[r]) /\ ~proc[r].translations
    <3>1. /\ run[r].status = "translation_failed"
          /\ PublishedFiles(proc[r]) = {"transcript", "translation-failed"}
      BY <2>2, <2>6 DEF FinalStatus, Adjudicated, PublishedFiles
    <3> QED BY <2>4, <2>6, <3>1 DEF Completed, Files, Adjudicated
  <2>7. CASE Adjudicated(proc[r]) /\ proc[r].translations /\ proc[r].humanReview
    <3>1. /\ run[r].status = "human_review_required"
          /\ PublishedFiles(proc[r]) = {"transcript"}
      BY <2>2, <2>7 DEF FinalStatus, Adjudicated, PublishedFiles
    <3> QED BY <2>4, <2>7, <3>1 DEF Completed, Files, Adjudicated
  <2>8. CASE Adjudicated(proc[r]) /\ proc[r].translations /\ ~proc[r].humanReview
    <3>1. /\ run[r].status \in Completed
          /\ PublishedFiles(proc[r]) = {"transcript", "translation", "srt"}
      BY <2>2, <2>8 DEF FinalStatus, Adjudicated, PublishedFiles, Completed
    <3> QED BY <2>4, <2>8, <3>1 DEF Completed, Files, Adjudicated
  <2> QED BY <2>3, <2>5, <2>6, <2>7, <2>8
<1> QED BY <1>1, InvariantHolds, PTL

\* A run that got as far as an outcome has a transcript and a decision under its job.
TranscriptRecorded ==
  \A r \in Runs : At(r, "done") =>
    store[Job(r)].transcript # "none" /\ store[Job(r)].decision # "none"

THEOREM OutcomeLeavesTranscript == Spec => []TranscriptRecorded
<1>1. IInv => TranscriptRecorded
  BY DEF IInv, TranscriptRecorded, Coherent, Late, Blocked, Adjudicated, TranscriptKept, At
<1> QED BY <1>1, InvariantHolds, PTL
-----------------------------------------------------------------------------
(***************************************************************************)
(* Processes that run one after another (MaxLive = 1).                     *)
(***************************************************************************)

\* Until its spans are built a process has used no candidate.
Unbuilt == Early \ {"materialize", "decide"}

\* Where a run is that makes a transcript of its own, or was when it went.
Making == {"ingest", "extract_audio", "fanout", "normalize", "spans", "materialize",
           "decide", "torn"}

OneAtATime == \A r, s \in Runs : proc[r].pc \in Live /\ proc[s].pc \in Live => r = s

\* A run of the job went between its two writes.
Torn(j) == \E r \in Runs : Job(r) = j /\ At(r, "torn")

\* A resumed run shares the root of its source, and any other is its own.
Rooted(r) ==
  /\ run[r].kind = "fresh" => run[r].root = Job(r)
  /\ run[r].kind \in {"translation", "transcription"} => run[r].root = run[run[r].source].root

\* A resumed transcription saves its decision once, and a resumed translation has
\* its source's.
DecidesOnce(r) ==
  /\ run[r].kind = "translation" => proc[r].pc \notin Making
  /\ run[r].kind = "transcription" /\ proc[r].pc \in Early \union {"torn"} =>
       store[Job(r)].decision = "none"

\* The decision about to be saved describes the transcript just written.
AboutToDecide(r) ==
  At(r, "decide") => proc[r].decision = store[Job(r)].transcript

\* What explains that the decision of job j does not describe its transcript: a
\* process is between its two writes, or one went there; or both were copied from
\* a job where that had happened.
Excused(j) ==
  \/ Torn(j)
  \/ \E s \in Runs : Job(s) = j /\ At(s, "decide")
  \/ \E s \in Runs : Job(s) = j /\ run[s].kind = "translation" /\ Torn(run[s].root)

Describes(j) == store[j].decision = store[j].transcript \/ Excused(j)

\* What a process read from its source still stands there.
SeedsReadDecision ==
  \A r \in Runs : At(r, "seeding") /\ run[r].kind = "translation" =>
    proc[r].decision = store[Job(run[r].source)].decision

\* The rows of the candidates a process lists are its job's until it has built on them.
OwnsItsRows ==
  \A r \in Runs :
    /\ proc[r].pc \in Early \cap Live => \A c \in proc[r].ids : rows[c] = Job(r)
    /\ proc[r].pc \in Unbuilt => proc[r].basis = {}
    /\ proc[r].basis # {} => proc[r].basis = proc[r].ids

SInv ==
  /\ IInv
  /\ OneAtATime
  /\ \A j \in Jobs : Describes(j)
  /\ \A r \in Runs : Rooted(r) /\ DecidesOnce(r) /\ AboutToDecide(r)
  /\ SeedsReadDecision
  /\ OwnsItsRows

LEMMA InitSInv == Init => SInv
<1> SUFFICES ASSUME Init PROVE SInv
  OBVIOUS
<1>1. OneAtATime /\ SeedsReadDecision /\ OwnsItsRows
  BY DEF Init, IdleProc, OneAtATime, SeedsReadDecision, OwnsItsRows, At, Live, Nodes
<1>2. \A j \in Jobs : Describes(j)
  BY DEF Init, Describes
<1>3. \A r \in Runs : Rooted(r) /\ DecidesOnce(r) /\ AboutToDecide(r)
  BY DEF Init, IdleProc, Rooted, DecidesOnce, AboutToDecide, At
<1> QED BY <1>1, <1>2, <1>3, InitInv DEF SInv

\* What step of r to state q makes of the transcript and the decision of its job.
Decides(r, q) ==
  LET j == Job(r) IN
  /\ \/ store'[j].decision = store'[j].transcript
     \/ q.pc \in {"decide", "torn"}
     \/ /\ proc[r].pc # "decide"
        /\ store'[j].decision = store[j].decision /\ store'[j].transcript = store[j].transcript
     \/ run[r].kind = "translation" /\ Torn(run[r].root)
  /\ q.pc = "decide" => q.decision = store'[j].transcript
  /\ run[r].kind = "translation" => q.pc \notin Making
  /\ run[r].kind = "transcription" /\ q.pc \in Early \union {"torn"} =>
       store'[j].decision = "none"

\* A step of the one process at work: the facts about its next state are enough.
LEMMA SerialMoves ==
  ASSUME SInv, IInv', NEW r \in Runs, NEW q, proc[r].pc \in Live,
         proc' = [proc EXCEPT ![r] = q],
         \A s \in Runs : run'[s].job = run[s].job /\ run'[s].kind = run[s].kind
                         /\ run'[s].source = run[s].source /\ run'[s].root = run[s].root,
         \A j \in Jobs \ {Job(r)} : store'[j].transcript = store[j].transcript
                                    /\ store'[j].decision = store[j].decision,
         Decides(r, q),
         q.pc = "seeding" => proc[r].pc = "seeding" /\ q.decision = proc[r].decision
                               /\ store' = store,
         q.pc \in Early \cap Live => \A c \in q.ids : rows'[c] = Job(r),
         q.pc \in Unbuilt => q.basis = {},
         q.basis # {} => q.basis = q.ids
  PROVE  SInv'
<1>0. proc \in [Runs -> State]
  BY DEF SInv, IInv, TypeOK
<1>1. \A s \in Runs : /\ proc'[s] = IF s = r THEN q ELSE proc[s]
                      /\ Job(s)' = Job(s)
  BY <1>0 DEF Job
<1>2. \A s \in Runs \ {r} : proc[s].pc \notin Live
  BY DEF SInv, OneAtATime
<1>3. OneAtATime'
  BY <1>1, <1>2 DEF OneAtATime
<1>4. SeedsReadDecision'
  <2> SUFFICES ASSUME NEW s \in Runs, (At(s, "seeding") /\ run[s].kind = "translation")'
               PROVE  (proc[s].decision = store[Job(run[s].source)].decision)'
    BY DEF SeedsReadDecision
  <2>1. s = r /\ proc[r].pc = "seeding" /\ proc'[s].decision = proc[r].decision /\ store' = store
    BY <1>1, <1>2 DEF Live, At
  <2>2. proc[r].decision = store[Job(run[r].source)].decision
    BY <2>1 DEF SInv, SeedsReadDecision, At
  <2>3. run'[run'[r].source].job = Job(run[r].source)
    <3>1. run[r].source \in Runs
      <4>1. run[r].status # "none"
        BY <2>1, JobType DEF SInv, At
      <4> QED BY <2>1, <4>1 DEF SInv, IInv, Launched
    <3> QED BY <3>1 DEF Job
  <2> QED BY <2>1, <2>2, <2>3 DEF Job
<1>5. OwnsItsRows'
  <2> SUFFICES ASSUME NEW s \in Runs
               PROVE  /\ proc'[s].pc \in Early \cap Live =>
                           \A c \in proc'[s].ids : rows'[c] = Job(s)'
                      /\ proc'[s].pc \in Unbuilt => proc'[s].basis = {}
                      /\ proc'[s].basis # {} => proc'[s].basis = proc'[s].ids
    BY DEF OwnsItsRows
  <2> QED BY <1>1, <1>2 DEF SInv, OwnsItsRows
<1>6. \A j : Torn(j) => Torn(j)'
  <2> SUFFICES ASSUME NEW j, NEW s \in Runs, Job(s) = j, At(s, "torn") PROVE Torn(j)'
    BY DEF Torn
  <2>1. s # r
    BY DEF At, Live, Nodes
  <2> QED BY <2>1, <1>1 DEF Torn, At
<1>7. ASSUME NEW j \in Jobs PROVE Describes(j)'
  <2>1. \A s \in Runs : At(s, "decide") => s = r
    BY <1>2 DEF At, Live, Nodes
  <2>2. \A s \in Runs : /\ run'[s].kind = run[s].kind
                        /\ Torn(run[s].root) => Torn(run[s].root)'
    <3> SUFFICES ASSUME NEW s \in Runs, Torn(run[s].root) PROVE Torn(run[s].root)'
      OBVIOUS
    <3>1. Torn(run'[s].root)
      OBVIOUS
    <3> QED BY <3>1, <1>6
  <2>3. CASE Torn(j) \/ \E s \in Runs : Job(s) = j /\ run[s].kind = "translation" /\ Torn(run[s].root)
    <3>1. Excused(j)'
      BY <1>1, <1>6, <2>2, <2>3 DEF Excused
    <3> QED BY <3>1 DEF Describes
  <2>4. CASE j # Job(r) /\ store[j].decision = store[j].transcript
    BY <2>4 DEF Describes
  <2>5. CASE j = Job(r) /\ store'[j].decision = store'[j].transcript
    BY <2>5 DEF Describes
  <2>6. CASE j = Job(r) /\ q.pc \in {"decide", "torn"}
    <3>1. Excused(j)'
      BY <1>1, <2>6 DEF Excused, Torn, At
    <3> QED BY <3>1 DEF Describes
  <2>7. CASE /\ j = Job(r) /\ store[j].decision = store[j].transcript
             /\ store'[j].decision = store[j].decision
             /\ store'[j].transcript = store[j].transcript
    BY <2>7 DEF Describes
  <2>8. Describes(j)
    BY DEF SInv
  <2>9. CASE j # Job(r)
    BY <2>1, <2>3, <2>4, <2>8, <2>9 DEF Describes, Excused
  <2>10. CASE j = Job(r)
    <3>1. CASE proc[r].pc # "decide" /\ store'[j].decision = store[j].decision
                 /\ store'[j].transcript = store[j].transcript
      BY <2>1, <2>3, <2>7, <2>8, <2>10, <3>1 DEF Describes, Excused, At
    <3> QED BY <2>3, <2>5, <2>6, <2>10, <3>1 DEF Decides
  <2> QED BY <2>9, <2>10
<1>8. ASSUME NEW s \in Runs PROVE Rooted(s)' /\ DecidesOnce(s)' /\ AboutToDecide(s)'
  <2>1. Rooted(s)'
    <3>1. Rooted(s)
      BY DEF SInv
    <3>2. run[s].kind \in {"translation", "transcription"} => run[s].source \in Runs
      BY KindsJob DEF SInv
    <3> QED BY <1>1, <3>1, <3>2 DEF Rooted
  <2>2. CASE s = r
    BY <2>1, <2>2, <1>1 DEF DecidesOnce, AboutToDecide, Decides, At
  <2>3. CASE s # r
    <3>1. AboutToDecide(s)'
      BY <2>3, <1>1, <1>2 DEF AboutToDecide, At, Live, Nodes
    <3>2. DecidesOnce(s)
      BY DEF SInv
    <3>3. run[s].kind = "transcription" => Job(s) \in Jobs /\ Job(s) # Job(r)
      BY <2>3, KindsJob DEF SInv
    <3>4. DecidesOnce(s)'
      BY <2>3, <1>1, <3>2, <3>3 DEF DecidesOnce
    <3> QED BY <2>1, <3>1, <3>4
  <2> QED BY <2>2, <2>3
<1> QED BY <1>3, <1>4, <1>5, <1>7, <1>8 DEF SInv

\* The steps that touch no candidate and no transcript.
Quiet(r) ==
  \/ Ingest(r) \/ ExtractAudio(r) \/ FanoutTranscription(r) \/ MemoryPipeline(r)
  \/ GenerateTranslations(r) \/ ReviewTranslations(r) \/ AdjudicateTranslation(r)
  \/ FinalizeOutputs(r) \/ UpsertLink(r) \/ RecordOutcome(r)
  \/ Raises(r) \/ Dies(r) \/ Start(r)

\* The candidates of the state stay, or all go with the process; and the process
\* keeps to the part of the graph that its kind of run goes through.
KeepsCandidates(kind, p, q) ==
  /\ q.pc \notin {"seeding", "decide"}
  /\ q.pc \in Early => p.pc \in Unbuilt /\ q.pc # "materialize"
  /\ p.pc = "decide" <=> q.pc = "torn"
  /\ q.pc \in Making => p.pc \in Making \/ kind # "translation"
  /\ \/ q.ids = p.ids /\ q.basis = p.basis
     \/ q.ids = {} /\ q.basis = {}

OneKeeps(r) == /\ proc' = [proc EXCEPT ![r] = proc'[r]]
               /\ KeepsCandidates(run[r].kind, proc[r], proc'[r])

LEMMA QuietShape ==
  ASSUME SInv, NEW r \in Runs, Quiet(r)
  PROVE  /\ proc[r].pc \in Live
         /\ rows' = rows
         /\ OneKeeps(r)
<1>0. proc \in [Runs -> State] /\ proc[r] \in State
  BY DEF SInv, IInv, TypeOK
<1>1. proc[r].pc \in Live /\ ~At(r, "off")
  BY DEF Quiet, Live, Nodes, At, Ingest, ExtractAudio, FanoutTranscription, MemoryPipeline,
     GenerateTranslations, ReviewTranslations, AdjudicateTranslation, FinalizeOutputs,
     UpsertLink, RecordOutcome, Raises, Dies, Start
<1>2. rows' = rows
  BY DEF Quiet, Ingest, ExtractAudio, FanoutTranscription, MemoryPipeline,
     GenerateTranslations, ReviewTranslations, AdjudicateTranslation, FinalizeOutputs,
     UpsertLink, RecordOutcome, Raises, Dies, Start
<1> SUFFICES OneKeeps(r)
  BY <1>1, <1>2
<1>2a. ASSUME NEW q, proc' = [proc EXCEPT ![r] = q], KeepsCandidates(run[r].kind, proc[r], q)
      PROVE  OneKeeps(r)
  BY <1>0, <1>2a DEF OneKeeps
<1>3. ASSUME NEW how \in {"failed", "dead"}, Gone(r, how)
      PROVE  OneKeeps(r)
  <2> DEFINE left == IF At(r, "decide") THEN "torn" ELSE how
             q == [IdleProc EXCEPT !.pc = left]
  <2>1. /\ q.pc = left /\ q.ids = {} /\ q.basis = {}
        /\ left \notin {"seeding", "decide"} \union Early
        /\ proc[r].pc = "decide" <=> left = "torn"
    BY <1>3 DEF IdleProc, At, Early
  <2>2. left \in Making => proc[r].pc \in Making
    BY <1>3 DEF At, Making
  <2>3. proc' = [proc EXCEPT ![r] = q]
    BY <1>3 DEF Gone
  <2> HIDE DEF left, q
  <2>4. KeepsCandidates(run[r].kind, proc[r], q)
    BY <2>1, <2>2 DEF KeepsCandidates
  <2> QED BY <1>2a, <2>3, <2>4
<1>4. ASSUME NEW pc, Go(r, pc), pc \notin {"seeding", "decide", "torn"},
             proc[r].pc # "decide",
             pc \in Early => proc[r].pc \in Unbuilt /\ pc # "materialize",
             pc \in Making => proc[r].pc \in Making \/ run[r].kind # "translation"
      PROVE  OneKeeps(r)
  BY <1>0, <1>4 DEF Go, State, KeepsCandidates, OneKeeps
<1>5. CASE Ingest(r) \/ ExtractAudio(r)
  <2>1. proc[r].pc \in Unbuilt \cap Making /\ proc[r].pc # "decide"
    BY <1>5 DEF Ingest, ExtractAudio, At, Early, Unbuilt, Making
  <2>2. Go(r, "extract_audio") \/ Go(r, "fanout")
    BY <1>5 DEF Ingest, ExtractAudio
  <2> QED BY <1>4, <2>1, <2>2
<1>6. CASE ReviewTranslations(r) \/ FinalizeOutputs(r) \/ UpsertLink(r) \/ RecordOutcome(r)
  <2>1. \E pc \in {"adjudicate", "link", "record", "done"} : Go(r, pc)
    BY <1>6 DEF ReviewTranslations, FinalizeOutputs, UpsertLink, RecordOutcome
  <2>2. proc[r].pc # "decide"
    BY <1>6 DEF ReviewTranslations, FinalizeOutputs, UpsertLink, RecordOutcome, At
  <2> QED BY <1>4, <2>1, <2>2 DEF Early, Making
<1>7. CASE MemoryPipeline(r)
  <2>1. Go(r, Route(proc[r])) /\ Route(proc[r]) \in {"finalize", "translate"}
    BY <1>7 DEF MemoryPipeline, Route
  <2>2. proc[r].pc # "decide"
    BY <1>7 DEF MemoryPipeline, At
  <2> QED BY <1>4, <2>1, <2>2 DEF Early, Making
<1>8. CASE Start(r)
  <2>1. run[r].kind \in {"fresh", "translation", "transcription"}
    BY <1>1, AtWork DEF SInv, IInv, Launched
  <2>2. PICK pc \in {"ingest", "fanout", "translate"} :
          Go(r, pc) /\ (pc # "translate" => run[r].kind # "translation")
    BY <1>8, <2>1 DEF Start
  <2>3. proc[r].pc \in Unbuilt /\ proc[r].pc # "decide"
    BY <1>8 DEF Start, At, Early, Unbuilt
  <2>4. pc \in Making => run[r].kind # "translation"
    BY <2>2 DEF Making
  <2> QED BY <1>4, <2>2, <2>3, <2>4
<1>9. CASE Raises(r) \/ Dies(r)
  <2>1. Gone(r, "failed") \/ Gone(r, "dead")
    BY <1>9 DEF Raises, Dies, Fails
  <2> QED BY <1>3, <2>1
<1>10. CASE FanoutTranscription(r)
  <2>1. PICK ok \in SUBSET proc[r].adapters :
          \/ Gone(r, "failed")
          \/ proc' = [proc EXCEPT ![r].pc = "normalize", ![r].staged = ok,
                                  ![r].degraded = proc[r].adapters # ok]
    BY <1>10 DEF FanoutTranscription
  <2>2. proc[r].pc \in Unbuilt \cap Making /\ proc[r].pc # "decide"
    BY <1>10 DEF FanoutTranscription, At, Early, Unbuilt, Making
  <2>3. CASE proc' = [proc EXCEPT ![r].pc = "normalize", ![r].staged = ok,
                                  ![r].degraded = proc[r].adapters # ok]
    <3> DEFINE q == [proc[r] EXCEPT !.pc = "normalize", !.staged = ok,
                                    !.degraded = proc[r].adapters # ok]
    <3>1. KeepsCandidates(run[r].kind, proc[r], q)
      BY <1>0, <2>2 DEF State, KeepsCandidates
    <3>2. proc' = [proc EXCEPT ![r] = q]
      BY <2>3
    <3> HIDE DEF q
    <3> QED BY <1>2a, <3>1, <3>2
  <2> QED BY <1>3, <2>1, <2>3
<1>11. CASE GenerateTranslations(r)
  <2>1. CASE Gone(r, "failed")
    BY <1>3, <2>1
  <2>2. ASSUME NEW some \in BOOLEAN,
               proc' = [proc EXCEPT ![r].pc = "review", ![r].translations = some,
                                    ![r].translationFailed = ~some]
        PROVE  OneKeeps(r)
    <3> DEFINE q == [proc[r] EXCEPT !.pc = "review", !.translations = some,
                                    !.translationFailed = ~some]
    <3>1. KeepsCandidates(run[r].kind, proc[r], q)
      BY <1>0, <1>11 DEF State, KeepsCandidates, Early, Making, GenerateTranslations, At
    <3>2. proc' = [proc EXCEPT ![r] = q]
      BY <2>2
    <3> HIDE DEF q
    <3> QED BY <1>2a, <3>1, <3>2
  <2> QED BY <1>11, <2>1, <2>2 DEF GenerateTranslations, Fails
<1>12. CASE AdjudicateTranslation(r)
  <2>1. PICK human \in BOOLEAN :
          proc' = [proc EXCEPT ![r].pc = "memory", ![r].decided = TRUE,
                               ![r].winner = ~human, ![r].humanReview = human,
                               ![r].translationFailed = ~proc[r].translations]
    BY <1>12 DEF AdjudicateTranslation
  <2> DEFINE q == [proc[r] EXCEPT !.pc = "memory", !.decided = TRUE,
                                  !.winner = ~human, !.humanReview = human,
                                  !.translationFailed = ~proc[r].translations]
  <2>2. KeepsCandidates(run[r].kind, proc[r], q)
    BY <1>0, <1>12 DEF State, KeepsCandidates, Early, Making, AdjudicateTranslation, At
  <2>3. proc' = [proc EXCEPT ![r] = q]
    BY <2>1
  <2> HIDE DEF q
  <2> QED BY <1>2a, <2>2, <2>3
<1> QED
  BY <1>5, <1>6, <1>7, <1>8, <1>9, <1>10, <1>11, <1>12 DEF Quiet

\* None of them changes what a run is about, or a transcript or a decision.
LEMMA QuietStores ==
  ASSUME SInv, NEW r \in Runs, Quiet(r)
  PROVE  /\ \A s \in Runs : run'[s].job = run[s].job /\ run'[s].kind = run[s].kind
                            /\ run'[s].source = run[s].source /\ run'[s].root = run[s].root
         /\ \A j \in Jobs : store'[j].transcript = store[j].transcript
                            /\ store'[j].decision = store[j].decision
<1>0. run \in [Runs -> Row] /\ store \in [Jobs -> Record] /\ run[r] \in Row
  BY DEF SInv, IInv, TypeOK
<1>1. CASE UNCHANGED <<run, store>>
  BY <1>1
<1>2. CASE Ingest(r) \/ MemoryPipeline(r) \/ ReviewTranslations(r) \/ AdjudicateTranslation(r)
  BY <1>1, <1>2 DEF Ingest, MemoryPipeline, ReviewTranslations, AdjudicateTranslation
<1>3. ASSUME UNCHANGED store,
             \/ run' = run
             \/ \E x : run' = [run EXCEPT ![r].status = x]
             \/ \E x : run' = [run EXCEPT ![r].linked = x]
      PROVE  /\ \A s \in Runs : run'[s].job = run[s].job /\ run'[s].kind = run[s].kind
                                /\ run'[s].source = run[s].source /\ run'[s].root = run[s].root
             /\ \A j \in Jobs : store'[j].transcript = store[j].transcript
                                /\ store'[j].decision = store[j].decision
  BY <1>0, <1>3 DEF Row
<1>4. CASE Start(r) \/ GenerateTranslations(r) \/ RecordOutcome(r) \/ Raises(r) \/ Dies(r)
  BY <1>3, <1>4 DEF Start, GenerateTranslations, RecordOutcome, Raises, Dies, Fails
<1>5. CASE UpsertLink(r)
  BY <1>3, <1>5 DEF UpsertLink
<1>6. CASE FanoutTranscription(r)
  BY <1>0, <1>6 DEF FanoutTranscription, Row
<1>7. CASE ExtractAudio(r)
  BY <1>0, <1>7 DEF ExtractAudio, Record
<1>8. CASE FinalizeOutputs(r)
  <2>1. \E f : store' = [store EXCEPT ![Job(r)].files = f]
    BY <1>8 DEF FinalizeOutputs
  <2>2. \E x : run' = [run EXCEPT ![r].linked = x]
    BY <1>8 DEF FinalizeOutputs
  <2> QED BY <1>0, <2>1, <2>2 DEF Row, Record
<1> QED BY <1>2, <1>4, <1>5, <1>6, <1>7, <1>8 DEF Quiet

LEMMA QuietSerial ==
  ASSUME SInv, IInv', NEW r \in Runs, Quiet(r)
  PROVE  SInv'
<1> DEFINE q == proc'[r]
<1>1. proc[r].pc \in Live /\ rows' = rows /\ proc' = [proc EXCEPT ![r] = q]
        /\ KeepsCandidates(run[r].kind, proc[r], q)
  BY QuietShape DEF OneKeeps
<1>2. /\ \A j \in Jobs : store'[j].transcript = store[j].transcript
                         /\ store'[j].decision = store[j].decision
      /\ Job(r) \in Jobs
  BY <1>1, QuietStores, AtWork DEF SInv, At, Live, Nodes
<1>3. /\ proc[r].basis # {} => proc[r].basis = proc[r].ids
      /\ proc[r].pc \in Unbuilt =>
           proc[r].basis = {} /\ \A c \in proc[r].ids : rows[c] = Job(r)
  BY <1>1 DEF SInv, OwnsItsRows, Unbuilt
<1> HIDE DEF q
<1>4. /\ q.pc # "seeding"
      /\ q.pc \in Early \cap Live => \A c \in q.ids : rows'[c] = Job(r)
      /\ q.pc \in Unbuilt => q.basis = {}
      /\ q.basis # {} => q.basis = q.ids
  BY <1>1, <1>3 DEF KeepsCandidates, Unbuilt
<1>5. Decides(r, q)
  <2>1. DecidesOnce(r)
    BY DEF SInv
  <2>2. run[r].kind = "translation" => q.pc \notin Making
    BY <1>1, <2>1 DEF KeepsCandidates, DecidesOnce
  <2>3. run[r].kind = "transcription" /\ q.pc \in Early \union {"torn"} =>
          store'[Job(r)].decision = "none"
    BY <1>1, <1>2, <2>1 DEF KeepsCandidates, DecidesOnce, Unbuilt, Early
  <2>4. q.pc # "decide" /\ (q.pc = "torn" \/ proc[r].pc # "decide")
    BY <1>1 DEF KeepsCandidates
  <2> QED BY <1>2, <2>2, <2>3, <2>4 DEF Decides
<1> QED BY <1>1, <1>2, <1>4, <1>5, QuietStores, SerialMoves

\* A step from one early node to another that stores no transcript and no decision.
LEMMA EarlySteps ==
  ASSUME SInv, NEW r \in Runs, NEW q, UNCHANGED store,
         proc[r].pc \in Early \ {"decide"}, q.pc # "decide",
         q.pc \in Making => proc[r].pc \in Making
  PROVE  Decides(r, q)
<1>1. DecidesOnce(r)
  BY DEF SInv
<1> QED BY <1>1 DEF Decides, DecidesOnce

\* The copies and the normalization make the run's job the owner of what it lists.
LEMMA CopySerial ==
  ASSUME SInv, IInv', NEW r \in Runs, CopyCandidate(r)
  PROVE  SInv'
<1>0. proc[r] \in State /\ rows \in [Candidates -> Jobs \union {NoJob}] /\ proc[r].pc = "seeding"
  BY DEF SInv, IInv, TypeOK, CopyCandidate, At
<1>1. PICK c \in proc[r].todo :
        /\ rows' = [rows EXCEPT ![c] = Job(r)]
        /\ proc' = [proc EXCEPT ![r].todo = @ \ {c}, ![r].ids = @ \union {c}]
  BY DEF CopyCandidate
<1> DEFINE q == [proc[r] EXCEPT !.todo = @ \ {c}, !.ids = @ \union {c}]
<1>2. proc' = [proc EXCEPT ![r] = q]
  BY <1>1
<1>3. /\ q.pc = "seeding" /\ q.ids = proc[r].ids \union {c} /\ q.basis = proc[r].basis
      /\ q.decision = proc[r].decision
  BY <1>0 DEF State
<1>4. proc[r].basis = {} /\ \A d \in proc[r].ids : rows[d] = Job(r)
  BY <1>0 DEF SInv, OwnsItsRows, Unbuilt, Early, Live
<1>5. c \in Candidates /\ proc[r].ids \subseteq Candidates
  BY <1>0, <1>1 DEF State
<1>6. \A d \in q.ids : rows'[d] = Job(r)
  BY <1>0, <1>1, <1>3, <1>4, <1>5
<1>7. UNCHANGED <<run, store>>
  BY DEF CopyCandidate
<1>8. proc[r].pc \in Live /\ proc[r].pc \in Early \ {"decide"} /\ q.pc \notin Making
  BY <1>0, <1>3 DEF Live, Early, Making
<1> HIDE DEF q
<1>9. Decides(r, q)
  BY <1>3, <1>7, <1>8, EarlySteps
<1> QED BY <1>0, <1>2, <1>3, <1>4, <1>6, <1>7, <1>8, <1>9, SerialMoves

LEMMA NormalizeSerial ==
  ASSUME SInv, IInv', NEW r \in Runs, NormalizeTranscripts(r)
  PROVE  SInv'
<1> DEFINE new == {<<Job(r), p>> : p \in proc[r].staged}
           q == [proc[r] EXCEPT !.pc = "spans", !.ids = @ \union new]
<1>0. proc[r] \in State /\ proc[r].pc = "normalize"
  BY DEF SInv, IInv, TypeOK, NormalizeTranscripts, At
<1>1. proc' = [proc EXCEPT ![r] = q]
        /\ rows' = [c \in Candidates |-> IF c \in new THEN Job(r) ELSE rows[c]]
  BY DEF NormalizeTranscripts
<1>2. q.pc = "spans" /\ q.ids = proc[r].ids \union new /\ q.basis = proc[r].basis
  BY <1>0 DEF State
<1>3. proc[r].basis = {} /\ \A d \in proc[r].ids : rows[d] = Job(r)
  BY <1>0 DEF SInv, OwnsItsRows, Unbuilt, Early, Live, Nodes
<1>4. q.ids \subseteq Candidates
  <2>1. proc'[r] = q
    BY <1>1 DEF SInv, IInv, TypeOK
  <2>2. proc'[r] \in State
    BY DEF IInv, TypeOK
  <2> HIDE DEF q
  <2> QED BY <2>1, <2>2 DEF State
<1>5. \A d \in q.ids : rows'[d] = Job(r)
  <2> HIDE DEF new
  <2> QED BY <1>1, <1>2, <1>3, <1>4
<1>6. UNCHANGED <<run, store>>
  BY DEF NormalizeTranscripts
<1>7. proc[r].pc \in Live /\ proc[r].pc \in (Early \ {"decide"}) \cap Making
  BY <1>0 DEF Live, Nodes, Early, Making
<1> HIDE DEF q, new
<1>8. Decides(r, q)
  BY <1>2, <1>6, <1>7, EarlySteps
<1> QED BY <1>0, <1>1, <1>2, <1>3, <1>5, <1>6, <1>7, <1>8, SerialMoves

\* The spans are built on all of them.
LEMMA SpansSerial ==
  ASSUME SInv, IInv', NEW r \in Runs, BuildSpans(r)
  PROVE  SInv'
<1> DEFINE found == proc[r].ids \cap Rows(Job(r))
           q == [proc[r] EXCEPT !.pc = "materialize", !.basis = found]
           qf == [IdleProc EXCEPT !.pc = "failed"]
<1>0. proc[r] \in State /\ proc[r].pc = "spans" /\ proc[r].pc \in Live /\ run \in [Runs -> Row]
  BY DEF SInv, IInv, TypeOK, BuildSpans, At, Live, Nodes
<1>1. /\ \A d \in proc[r].ids : rows[d] = Job(r)
      /\ proc[r].ids \subseteq Candidates
  BY <1>0 DEF SInv, OwnsItsRows, Early, Live, Nodes, State
<1>2. found = proc[r].ids
  BY <1>1 DEF Rows
<1>3. UNCHANGED <<rows, store>> /\ proc[r].pc \in (Early \ {"decide"}) \cap Making
  BY <1>0 DEF BuildSpans, Early, Making
<1>4. CASE found # {}
  <2>1. proc' = [proc EXCEPT ![r] = q] /\ UNCHANGED run
    BY <1>4 DEF BuildSpans
  <2>2. q.pc = "materialize" /\ q.ids = proc[r].ids /\ q.basis = proc[r].ids
    <3> HIDE DEF found
    <3> QED BY <1>0, <1>2 DEF State
  <2> HIDE DEF q, found, qf
  <2>3. Decides(r, q)
    BY <1>3, <2>2, EarlySteps
  <2> QED BY <1>0, <1>1, <1>3, <2>1, <2>2, <2>3, SerialMoves DEF Unbuilt
<1>5. CASE found = {}
  <2>1. proc' = [proc EXCEPT ![r] = qf] /\ run' = [run EXCEPT ![r].status = "failed"]
    BY <1>0, <1>5 DEF BuildSpans, Fails, Gone, At
  <2>2. qf.pc = "failed" /\ qf.ids = {} /\ qf.basis = {} /\ qf.pc \notin Early
    BY DEF IdleProc, Early
  <2>3. \A s \in Runs : run'[s].job = run[s].job /\ run'[s].kind = run[s].kind
                        /\ run'[s].source = run[s].source /\ run'[s].root = run[s].root
    BY <1>0, <2>1 DEF Row
  <2> HIDE DEF q, found, qf
  <2>4. Decides(r, qf)
    BY <1>3, <2>2, EarlySteps
  <2> QED BY <1>0, <1>3, <2>1, <2>2, <2>3, <2>4, SerialMoves DEF Unbuilt
<1> QED BY <1>4, <1>5

\* A transcript is stored, and its decision is about to be ...
LEMMA MaterializeSerial ==
  ASSUME SInv, IInv', NEW r \in Runs, MaterializeTranscript(r)
  PROVE  SInv'
<1>0. /\ proc[r] \in State /\ proc[r].pc = "materialize" /\ proc[r].pc \in Live
      /\ store \in [Jobs -> Record] /\ Job(r) \in Jobs
  BY AtWork DEF SInv, IInv, TypeOK, MaterializeTranscript, At, Live, Nodes
<1>1. PICK outcome \in {"complete", "blocked"} :
       /\ store' = [store EXCEPT ![Job(r)].transcript = outcome]
       /\ proc' = [proc EXCEPT ![r].pc = "decide", ![r].decision = outcome]
  BY DEF MaterializeTranscript
<1> DEFINE q == [proc[r] EXCEPT !.pc = "decide", !.decision = outcome]
<1>2. proc' = [proc EXCEPT ![r] = q]
  BY <1>1
<1>3. /\ q.pc = "decide" /\ q.decision = outcome
      /\ q.basis = proc[r].basis /\ q.ids = proc[r].ids
  BY <1>0 DEF State
<1>4. /\ \A j \in Jobs \ {Job(r)} : store'[j] = store[j]
      /\ store'[Job(r)].transcript = outcome
      /\ store'[Job(r)].decision = store[Job(r)].decision
  BY <1>0, <1>1 DEF Record
<1>5. /\ proc[r].basis # {} => proc[r].basis = proc[r].ids
      /\ \A c \in proc[r].ids : rows[c] = Job(r)
  BY <1>0 DEF SInv, OwnsItsRows, Early
<1>6. UNCHANGED <<run, rows>>
  BY DEF MaterializeTranscript
<1> HIDE DEF q
<1>7. Decides(r, q)
  <2>1. DecidesOnce(r) /\ proc[r].pc \in Early \cap Making
    BY <1>0 DEF SInv, Early, Making
  <2> QED BY <1>3, <1>4, <2>1 DEF Decides, DecidesOnce
<1> QED BY <1>0, <1>2, <1>3, <1>4, <1>5, <1>6, <1>7, SerialMoves DEF Unbuilt

\* ... and then is.
LEMMA SaveDecisionSerial ==
  ASSUME SInv, IInv', NEW r \in Runs, SaveTranscriptDecision(r)
  PROVE  SInv'
<1>0. /\ proc[r] \in State /\ proc[r].pc = "decide" /\ proc[r].pc \in Live
      /\ store \in [Jobs -> Record] /\ Job(r) \in Jobs
  BY AtWork DEF SInv, IInv, TypeOK, SaveTranscriptDecision, At, Live, Nodes
<1> DEFINE q == [proc[r] EXCEPT !.pc = "memory", !.transcript = proc[r].decision,
                                !.transcriptFailed = (proc[r].decision = "blocked")]
<1>1. /\ proc' = [proc EXCEPT ![r] = q]
      /\ store' = [store EXCEPT ![Job(r)].decision = proc[r].decision]
      /\ UNCHANGED <<run, rows>>
  BY DEF SaveTranscriptDecision
<1>2. q.pc = "memory" /\ q.basis = proc[r].basis /\ q.ids = proc[r].ids
  BY <1>0 DEF State
<1>3. q.pc \notin Early \union Making \union {"seeding", "decide"}
  BY <1>2 DEF Early, Making
<1>4. proc[r].decision = store[Job(r)].transcript
  BY <1>0 DEF SInv, AboutToDecide, At
<1>5. /\ \A j \in Jobs \ {Job(r)} : store'[j] = store[j]
      /\ store'[Job(r)].decision = store'[Job(r)].transcript
  BY <1>0, <1>1, <1>4 DEF Record
<1>6. proc[r].basis # {} => proc[r].basis = proc[r].ids
  BY DEF SInv, OwnsItsRows
<1> HIDE DEF q
<1>7. Decides(r, q)
  BY <1>2, <1>3, <1>5 DEF Decides
<1> QED BY <1>0, <1>1, <1>2, <1>3, <1>5, <1>6, <1>7, SerialMoves DEF Unbuilt

\* ... and the copy of a transcript with the decision that was read before it: both
\* say the same of each other as they did in the source's job.
LEMMA SeedSerial ==
  ASSUME SInv, IInv', NEW r \in Runs, FinishSeeding(r)
  PROVE  SInv'
<1> DEFINE from == store[Job(run[r].source)]
           copied == IF proc[r].decision = "none" THEN "none" ELSE from.transcript
           q == [proc[r] EXCEPT !.pc = "start"]
           qc == [proc[r] EXCEPT !.pc = "start", !.transcript = copied]
           qf == [IdleProc EXCEPT !.pc = "dead"]
<1>0. /\ proc[r] \in State /\ proc[r].pc = "seeding" /\ proc[r].pc \in Live
      /\ store \in [Jobs -> Record] /\ UNCHANGED <<run, rows>>
  BY DEF SInv, IInv, TypeOK, FinishSeeding, At, Live
<1>1. /\ proc[r].basis = {}
      /\ \A d \in proc[r].ids : rows[d] = Job(r)
  BY <1>0 DEF SInv, OwnsItsRows, Unbuilt, Early, Live
<1>1a. proc[r].pc \in Early \ {"decide"} /\ "start" \notin Making /\ "dead" \notin Making
  BY <1>0 DEF Early, Making
<1>2. CASE Go(r, "start") /\ UNCHANGED store
  <2>1. proc' = [proc EXCEPT ![r] = q]
    BY <1>2 DEF Go
  <2>2. q.pc = "start" /\ q.basis = {} /\ q.ids = proc[r].ids
    BY <1>0, <1>1 DEF State
  <2> HIDE DEF q
  <2>3. Decides(r, q)
    BY <1>1a, <1>2, <2>2, EarlySteps
  <2> QED BY <1>0, <1>1, <1>2, <2>1, <2>2, <2>3, SerialMoves
<1>3. CASE /\ run[r].kind = "translation"
           /\ store' = [store EXCEPT ![r].transcript = copied,
                                     ![r].decision = proc[r].decision]
           /\ proc' = [proc EXCEPT ![r].pc = "start", ![r].transcript = copied]
  <2> DEFINE s == run[r].source
  <2>1. s \in Runs /\ Job(s) \in Jobs /\ Job(r) = r /\ r \in Jobs
        /\ run[s].status # "none"
    BY <1>3, KindsJob DEF SInv
  <2>2. proc[r].decision = from.decision
    BY <1>0, <1>3 DEF SInv, SeedsReadDecision, At
  <2>3. run[r].root = run[s].root
    BY <1>3 DEF SInv, Rooted
  <2> HIDE DEF s
  <2>4. copied = proc[r].decision \/ Torn(run[r].root)
    <3>1. Describes(Job(s))
      BY <2>1 DEF SInv
    <3>2. \A u \in Runs : ~At(u, "decide")
      BY <1>0 DEF SInv, OneAtATime, At, Live, Nodes
    <3>3. CASE store[Job(s)].decision = store[Job(s)].transcript
      BY <2>2, <3>3 DEF s
    <3>4. CASE Torn(Job(s))
      <4>1. CASE run[s].kind = "fresh"
        BY <2>1, <2>3, <3>4, <4>1 DEF SInv, Rooted
      <4>2. CASE run[s].kind \in {"translation", "transcription"}
        <5>1. At(s, "torn") /\ Job(s) = s
          BY <2>1, <3>4, <4>2, KindsJob DEF Torn, SInv
        <5>2. store[Job(s)].decision = "none"
          BY <2>1, <4>2, <5>1 DEF SInv, DecidesOnce, At, Making
        <5> QED BY <2>2, <5>2 DEF s
      <4> QED BY <2>1, <4>1, <4>2 DEF SInv, IInv, Launched
    <3>5. ASSUME NEW u \in Runs, Job(u) = Job(s), run[u].kind = "translation",
                 Torn(run[u].root)
          PROVE  Torn(run[r].root)
      <4>1. Job(u) = u /\ u \in Runs
        BY <3>5, KindsJob DEF SInv
      <4>2. u = s
        BY <2>1, <3>5, <4>1, JobType DEF SInv
      <4> QED BY <2>3, <3>5, <4>2
    <3> QED BY <3>1, <3>2, <3>3, <3>4, <3>5 DEF Describes, Excused
  <2> HIDE DEF copied
  <2>5. /\ store'[r].transcript = copied /\ store'[r].decision = proc[r].decision
        /\ \A j \in Jobs \ {r} : store'[j] = store[j]
    BY <1>0, <1>3, <2>1 DEF Record
  <2>6. proc' = [proc EXCEPT ![r] = qc]
    BY <1>3
  <2>7. qc.pc = "start" /\ qc.basis = {} /\ qc.ids = proc[r].ids
    BY <1>0, <1>1 DEF State
  <2> HIDE DEF qc
  <2>8. Decides(r, qc)
    BY <1>1a, <1>3, <2>1, <2>4, <2>5, <2>7 DEF Decides
  <2> QED BY <1>0, <1>1, <2>1, <2>5, <2>6, <2>7, <2>8, SerialMoves
<1>4. CASE Gone(r, "dead") /\ UNCHANGED store
  <2>1. proc' = [proc EXCEPT ![r] = qf]
    BY <1>0, <1>4 DEF Gone, At
  <2>2. qf.pc = "dead" /\ qf.ids = {} /\ qf.basis = {} /\ qf.pc \notin Early
    BY DEF IdleProc, Early
  <2> HIDE DEF qf
  <2>3. Decides(r, qf)
    BY <1>1a, <1>4, <2>2, EarlySteps
  <2> QED BY <1>0, <1>4, <2>1, <2>2, <2>3, SerialMoves DEF Unbuilt
<1> QED BY <1>2, <1>3, <1>4 DEF FinishSeeding

\* With room for one process a new one starts only when there is none.
LEMMA NobodyElse ==
  ASSUME MaxLive = 1, NEW r \in Runs, CanLaunch(r)
  PROVE  \A s \in Runs : proc[s].pc \notin Live
<1> DEFINE L == {s \in Runs : proc[s].pc \in Live}
<1>1. IsFiniteSet(L)
  BY FS_Subset, WorkflowAssumption
<1>2. Cardinality(L) \in Nat /\ Cardinality(L) < 1
  BY <1>1, FS_CardinalityType DEF CanLaunch
<1>3. L = {}
  BY <1>1, <1>2, FS_EmptySet
<1> QED BY <1>3

LEMMA LaunchSerial ==
  ASSUME SInv, IInv', MaxLive = 1, NEW r \in Runs, CanLaunch(r),
         NEW q, proc' = [proc EXCEPT ![r] = q],
         q.ids = {}, q.basis = {}, UNCHANGED rows, q.pc \in {"start", "seeding", "dead"},
         \A s \in Runs \ {r} : run'[s] = run[s],
         \/ run'[r].kind = "fresh" /\ run'[r].root = run'[r].job
         \/ /\ run'[r].kind \in {"translation", "transcription"} /\ run'[r].job = r
            /\ run'[r].source \in Runs \ {r} /\ run'[r].root = run[run'[r].source].root,
         \A j \in Jobs : store'[j].transcript = store[j].transcript
                         /\ store'[j].decision = store[j].decision,
         q.pc = "seeding" /\ run'[r].kind = "translation" =>
           /\ run'[r].source \in Runs \ {r} /\ Job(run'[r].source) \in Jobs
           /\ q.decision = store[Job(run'[r].source)].decision
  PROVE  SInv'
<1>0. proc \in [Runs -> State]
  BY DEF SInv, IInv, TypeOK
<1>1. \A s \in Runs : proc'[s] = IF s = r THEN q ELSE proc[s]
  BY <1>0
<1>2. \A s \in Runs : proc[s].pc \notin Live
  BY NobodyElse
<1>3. OneAtATime'
  BY <1>1, <1>2 DEF OneAtATime
<1>4. ASSUME NEW j \in Jobs PROVE Describes(j)'
  <2>1. /\ \A s \in Runs : At(s, "torn") => s # r
        /\ \A s \in Runs : ~At(s, "decide")
        /\ \A s \in Runs : run[s].kind = "translation" => s # r
    BY <1>2, Unlaunched, KindsJob DEF At, IdleProc, Live, Nodes, CanLaunch, SInv
  <2>2. \A s \in Runs \ {r} : /\ Job(s)' = Job(s) /\ (At(s, "torn") <=> At(s, "torn")')
                             /\ run'[s].kind = run[s].kind /\ run'[s].root = run[s].root
    BY <1>1 DEF Job, At
  <2>3. \A i : Torn(i) => Torn(i)'
    BY <2>1, <2>2 DEF Torn
  <2>4. Describes(j)
    BY DEF SInv
  <2>5. CASE Excused(j)
    <3>1. CASE Torn(j)
      BY <2>3, <3>1 DEF Describes, Excused
    <3>2. ASSUME NEW s \in Runs, Job(s) = j, run[s].kind = "translation", Torn(run[s].root)
          PROVE  Excused(j)'
      <4>1. s # r /\ Torn(run'[s].root)
        BY <2>1, <2>2, <3>2
      <4>2. Torn(run[s].root)'
        BY <2>3, <4>1
      <4> QED BY <2>2, <3>2, <4>1, <4>2 DEF Excused
    <3> QED BY <2>1, <2>5, <3>1, <3>2 DEF Describes, Excused
  <2> QED BY <2>4, <2>5 DEF Describes
<1>4a. ASSUME NEW s \in Runs PROVE Rooted(s)' /\ DecidesOnce(s)' /\ AboutToDecide(s)'
  <2>1. CASE s = r
    <3>1. Rooted(r)'
      BY DEF Rooted, Job
    <3>2. AboutToDecide(r)'
      BY <1>1 DEF AboutToDecide, At
    <3>3. DecidesOnce(r)'
      <4>1. run'[r].kind = "transcription" => store'[r].decision = "none"
        <5> SUFFICES ASSUME run'[r].kind = "transcription" PROVE store[r].decision = "none"
          BY DEF Jobs
        <5>1. \A u \in Runs : Job(u) # r
          BY JobType, WorkflowAssumption DEF CanLaunch, SInv, Jobs
        <5> QED BY <5>1 DEF SInv, IInv, UnusedJobsEmpty, Jobs
      <4> QED BY <1>1, <4>1 DEF DecidesOnce, Making, Job
    <3> QED BY <2>1, <3>1, <3>2, <3>3
  <2>2. CASE s # r
    <3>1. run'[s] = run[s] /\ proc'[s] = proc[s] /\ Job(s)' = Job(s)
          /\ Rooted(s) /\ DecidesOnce(s) /\ ~At(s, "decide")
      BY <2>2, <1>1, <1>2 DEF SInv, Job, At, Live, Nodes
    <3>2. Rooted(s)'
      <4>1. run[s].kind \in {"translation", "transcription"} => run[s].source \in Runs \ {r}
        BY KindsJob DEF SInv, CanLaunch
      <4> QED BY <3>1, <4>1 DEF Rooted
    <3>3. DecidesOnce(s)' /\ AboutToDecide(s)'
      <4>1. run[s].kind = "transcription" => Job(s) \in Jobs
        BY KindsJob DEF SInv
      <4> QED BY <3>1, <4>1 DEF DecidesOnce, AboutToDecide, At
    <3> QED BY <3>2, <3>3
  <2> QED BY <2>1, <2>2
<1>5. SeedsReadDecision'
  <2> SUFFICES ASSUME NEW s \in Runs, (At(s, "seeding") /\ run[s].kind = "translation")'
               PROVE  (proc[s].decision = store[Job(run[s].source)].decision)'
    BY DEF SeedsReadDecision
  <2>1. s = r
    BY <1>1, <1>2 DEF Live, At
  <2>2. run'[run'[r].source].job = Job(run'[r].source) /\ q.decision = store[Job(run'[r].source)].decision
          /\ Job(run'[r].source) \in Jobs
    BY <1>1, <2>1 DEF Job, At
  <2> QED BY <1>1, <2>1, <2>2 DEF Job
<1>6. OwnsItsRows'
  <2> SUFFICES ASSUME NEW s \in Runs
               PROVE  /\ proc'[s].pc \in Early \cap Live =>
                           \A c \in proc'[s].ids : rows'[c] = Job(s)'
                      /\ proc'[s].pc \in Unbuilt => proc'[s].basis = {}
                      /\ proc'[s].basis # {} => proc'[s].basis = proc'[s].ids
    BY DEF OwnsItsRows
  <2> QED BY <1>1, <1>2 DEF SInv, OwnsItsRows
<1> QED BY <1>3, <1>4, <1>4a, <1>5, <1>6 DEF SInv

LEMMA LaunchesSerial ==
  ASSUME SInv, IInv', MaxLive = 1, NEW r \in Runs,
         \/ \E j \in FreshJobs : RunJob(r, j)
         \/ \E s \in Runs : ResumeTranslation(r, s)
         \/ \E s \in Runs, requested \in SUBSET Providers : ResumeTranscription(r, s, requested)
  PROVE  SInv'
<1>0. /\ run \in [Runs -> Row] /\ store \in [Jobs -> Record]
      /\ CanLaunch(r) /\ proc[r] = IdleProc
  BY Unlaunched DEF SInv, IInv, TypeOK, RunJob, ResumeTranslation, ResumeTranscription, CanLaunch
<1>1. ASSUME NEW j \in FreshJobs, RunJob(r, j) PROVE SInv'
  <2> DEFINE q == [IdleProc EXCEPT !.pc = "start", !.adapters = Providers]
  <2>1. proc' = [proc EXCEPT ![r] = q] /\ UNCHANGED <<rows, store>>
          /\ \A s \in Runs \ {r} : run'[s] = run[s]
    BY <1>0, <1>1 DEF RunJob
  <2>2. q.pc = "start" /\ q.ids = {} /\ q.basis = {}
    BY DEF IdleProc
  <2>3. run'[r].kind = "fresh" /\ run'[r].root = run'[r].job
    BY <1>0, <1>1 DEF RunJob, Row
  <2> HIDE DEF q
  <2> QED BY <1>0, <2>1, <2>2, <2>3, LaunchSerial
<1>2. ASSUME NEW s \in Runs, ResumeTranslation(r, s) PROVE SInv'
  <2> DEFINE q == [IdleProc EXCEPT !.pc = "seeding", !.todo = Rows(Job(s)),
                                   !.decision = store[Job(s)].decision]
  <2>1. proc' = [proc EXCEPT ![r] = q] /\ UNCHANGED <<rows, store>>
          /\ \A u \in Runs \ {r} : run'[u] = run[u]
    BY <1>0, <1>2 DEF ResumeTranslation
  <2>2. q.decision = store[Job(s)].decision /\ q.ids = {} /\ q.basis = {} /\ q.pc = "seeding"
    BY DEF IdleProc
  <2>3. /\ run'[r].source = s /\ s # r /\ Job(s) \in Jobs
        /\ run'[r].kind = "translation" /\ run'[r].job = r /\ run'[r].root = run[s].root
    BY <1>0, <1>2, JobType DEF ResumeTranslation, CanLaunch, Row, SInv
  <2> HIDE DEF q
  <2> QED BY <1>0, <2>1, <2>2, <2>3, LaunchSerial
<1>3. ASSUME NEW s \in Runs, NEW requested \in SUBSET Providers,
             ResumeTranscription(r, s, requested)
      PROVE  SInv'
  <2> DEFINE retry == IF requested # {} THEN requested ELSE run[s].failed
             q == [IdleProc EXCEPT !.pc = "seeding", !.adapters = retry,
                                   !.todo = {c \in Rows(Job(s)) : c[2] \notin retry}]
             qd == [IdleProc EXCEPT !.pc = "dead"]
  <2>1. /\ UNCHANGED rows /\ \A u \in Runs \ {r} : run'[u] = run[u]
        /\ run'[r].kind = "transcription" /\ run'[r].job = r
        /\ run'[r].source = s /\ s # r /\ run'[r].root = run[s].root
    <3> DEFINE w == [run[r] EXCEPT !.status = "bootstrapped", !.kind = "transcription",
                                   !.job = r, !.root = run[s].root, !.source = s]
    <3>1. run' = [run EXCEPT ![r] = w] /\ UNCHANGED rows
      BY <1>3 DEF ResumeTranscription
    <3>2. /\ w.kind = "transcription" /\ w.job = r /\ w.source = s
          /\ w.root = run[s].root
      BY <1>0 DEF Row
    <3>3. s # r
      BY <1>0, <1>3 DEF ResumeTranscription, CanLaunch
    <3> HIDE DEF w
    <3> QED BY <1>0, <3>1, <3>2, <3>3
  <2>2. \A j \in Jobs : store'[j].transcript = store[j].transcript
                        /\ store'[j].decision = store[j].decision
    <3>1. CASE "audio" \in store[Job(s)].files
      <4>1. store' = [store EXCEPT ![r].files = {"audio"}]
        BY <1>3, <3>1 DEF ResumeTranscription
      <4> QED BY <1>0, <4>1 DEF Record
    <3>2. CASE "audio" \notin store[Job(s)].files
      <4>1. UNCHANGED store
        BY <1>3, <3>2 DEF ResumeTranscription
      <4> QED BY <4>1
    <3> QED BY <3>1, <3>2
  <2>3. proc' = [proc EXCEPT ![r] = q] \/ proc' = [proc EXCEPT ![r] = qd]
    <3>1. \/ Gone(r, "dead")
          \/ proc' = [proc EXCEPT ![r] = [@ EXCEPT !.pc = "seeding", !.adapters = retry,
                        !.todo = {c \in Rows(Job(s)) : c[2] \notin retry}]]
      BY <1>3 DEF ResumeTranscription
    <3> HIDE DEF retry
    <3>2. ~At(r, "decide")
      BY <1>0 DEF At, IdleProc
    <3> QED BY <1>0, <3>1, <3>2 DEF Gone
  <2>4. /\ q.ids = {} /\ q.basis = {} /\ qd.ids = {} /\ qd.basis = {}
        /\ q.pc = "seeding" /\ qd.pc = "dead"
    BY DEF IdleProc
  <2> HIDE DEF q, qd, retry
  <2>5. CASE proc' = [proc EXCEPT ![r] = q]
    BY <1>0, <2>1, <2>2, <2>4, <2>5, LaunchSerial
  <2>6. CASE proc' = [proc EXCEPT ![r] = qd]
    BY <1>0, <2>1, <2>2, <2>4, <2>6, LaunchSerial
  <2> QED BY <2>3, <2>5, <2>6
<1> QED BY <1>1, <1>2, <1>3

LEMMA NextSerial == MaxLive = 1 /\ SInv /\ [Next]_vars => SInv'
<1> SUFFICES ASSUME MaxLive = 1, SInv, [Next]_vars PROVE SInv'
  OBVIOUS
<1>1. IInv'
  BY NextInv DEF SInv
<1>2. CASE UNCHANGED vars
  <2>1. run' = run /\ proc' = proc /\ rows' = rows /\ store' = store
    BY <1>2 DEF vars
  <2>2. OneAtATime' /\ SeedsReadDecision' /\ OwnsItsRows'
    BY <2>1 DEF SInv, OneAtATime, SeedsReadDecision, OwnsItsRows, At, Job
  <2>3. (\A j \in Jobs : Describes(j))'
    BY <2>1 DEF SInv, Describes, Excused, Torn, At, Job
  <2>4. (\A r \in Runs : Rooted(r) /\ DecidesOnce(r) /\ AboutToDecide(r))'
    BY <2>1 DEF SInv, Rooted, DecidesOnce, AboutToDecide, At, Job
  <2> QED BY <1>1, <2>2, <2>3, <2>4 DEF SInv
<1>3. CASE \E r \in Runs, j \in FreshJobs : RunJob(r, j)
  BY <1>1, <1>3, LaunchesSerial
<1>4. CASE \E r, s \in Runs : ResumeTranslation(r, s)
  BY <1>1, <1>4, LaunchesSerial
<1>5. CASE \E r, s \in Runs, requested \in SUBSET Providers : ResumeTranscription(r, s, requested)
  BY <1>1, <1>5, LaunchesSerial
<1>6. ASSUME NEW r \in Runs, Step(r) \/ Raises(r) \/ Dies(r) PROVE SInv'
  BY <1>1, <1>6, QuietSerial, CopySerial, SeedSerial, NormalizeSerial, SpansSerial,
     MaterializeSerial, SaveDecisionSerial DEF Step, Quiet
<1>7. CASE Finished
  BY <1>2, <1>7 DEF Finished
<1> QED BY <1>2, <1>3, <1>4, <1>5, <1>6, <1>7 DEF Next

LEMMA SerialInvariantHolds == MaxLive = 1 => (Spec => []SInv)
<1> SUFFICES ASSUME MaxLive = 1 PROVE Spec => []SInv
  OBVIOUS
<1>1. SInv /\ [Next]_vars => SInv'
  BY NextSerial
<1> QED BY <1>1, InitSInv, PTL DEF Spec

\* Processes that run one after another leave, under each job that got as far as an
\* outcome, a transcript and a decision: what a resume copies.  The one describes
\* the other, unless a process went between the two writes of the job both come from.
THEOREM TranscriptIsOfRecord == MaxLive = 1 => (Spec => []TranscriptOfRecord)
<1> SUFFICES ASSUME MaxLive = 1 PROVE Spec => []TranscriptOfRecord
  OBVIOUS
<1>1. SInv => TranscriptOfRecord
  <2> SUFFICES ASSUME SInv, NEW r \in Runs, At(r, "done")
               PROVE  /\ store[Job(r)].transcript # "none"
                      /\ store[Job(r)].decision # "none"
                      /\ run[r].kind = "transcription" \/ Intact(run[r].root)
                           => store[Job(r)].decision = store[Job(r)].transcript
    BY DEF TranscriptOfRecord
  <2>1. proc[r].transcript # "none"
    BY DEF SInv, IInv, Coherent, Late, Blocked, Adjudicated, At
  <2>2. Job(r) \in Jobs /\ run[r].status # "none" /\ Describes(Job(r))
    BY JobType DEF SInv, At
  <2>3. SUFFICES ASSUME run[r].kind = "transcription" \/ Intact(run[r].root)
                 PROVE  ~Excused(Job(r))
    BY <2>1, <2>2 DEF SInv, IInv, TranscriptKept, Describes
  <2>4. \A j : Intact(j) => ~Torn(j)
    BY DEF Intact, Torn
  <2>5. CASE run[r].kind = "fresh"
    <3>1. Intact(Job(r)) /\ Job(r) \in FreshJobs
      BY <2>2, <2>3, <2>5 DEF SInv, IInv, Launched, Rooted
    <3>2. \A s \in Runs : Job(s) = Job(r) => run[s].kind # "translation"
      BY <3>1, KindsJob, WorkflowAssumption DEF SInv
    <3> QED BY <2>4, <3>1, <3>2 DEF Excused, Intact
  <2>6. CASE run[r].kind \in {"translation", "transcription"}
    <3>1. \A s \in Runs : Job(s) = Job(r) => s = r
      BY <2>6, KindsJob DEF SInv
    <3>2. ~At(r, "decide") /\ ~At(r, "torn")
      BY DEF At
    <3> QED BY <2>3, <2>4, <3>1, <3>2 DEF Excused, Torn
  <2> QED BY <2>2, <2>5, <2>6 DEF SInv, IInv, Launched
<1> QED BY <1>1, SerialInvariantHolds, PTL

\* Their transcripts are built from every candidate the run lists, the copied ones
\* included: no later upsert has taken a row away in between.
THEOREM EverySurvivorUsed == MaxLive = 1 => (Spec => []TranscriptUsesEverySurvivor)
<1> SUFFICES ASSUME MaxLive = 1 PROVE Spec => []TranscriptUsesEverySurvivor
  OBVIOUS
<1>1. SInv => TranscriptUsesEverySurvivor
  BY DEF SInv, OwnsItsRows, TranscriptUsesEverySurvivor
<1> QED BY <1>1, SerialInvariantHolds, PTL
=============================================================================
