-------------------------- MODULE PromptLifecycle --------------------------
(***************************************************************************)
(* The life of a prompt improvement proposal.                              *)
(*                                                                         *)
(* Proposals come from three places: the drain of a low-disagreement       *)
(* translation (mainline, memory/prompt_evolution.py), a reference         *)
(* evaluation (nodes/reference_evaluation.py) and human reviews            *)
(* (review_flow.py).  The resolver of every run applies them, and makes    *)
(* the first proposed one a canary (memory/prompt_resolution.py).          *)
(* Evaluations and reviews then activate it, roll it back or promote it to *)
(* every project of the language pair.                                     *)
(*                                                                         *)
(* A proposal has a row in the database and, when it belongs to a medium,  *)
(* a copy among the medium's files; the two are written one after the      *)
(* other, and the resolver reads both.  Each actor reads first and writes  *)
(* later: what it has still to write is its queue todo.  One prompt        *)
(* variant, model and language pair is modelled: all the others have       *)
(* proposals of their own.                                                 *)
(***************************************************************************)
EXTENDS Sequences, SequencesExt, JobRuns

CONSTANTS
    Workloads,      \* bound: what the runs may be, see workload
    MinPatternRuns, \* runs that share a failure before it counts (3)
    MinCanaryRuns,  \* canary runs before an evaluation activates (30)
    MinPairRuns,    \* runs of each arm before it promotes to the pair (30)
    MinReviews,     \* resolutions before feedback proposes (3)
    MinFailures,    \* of them, those that report a failure (2)
    MinSupport,     \* resolutions in favour before a feedback canary (3)
    MinArm,         \* reviewed runs of each arm before it activates (5)
    MinProjects     \* projects in favour before the pair promotion (2)

NoMedium == "no medium"

Verdicts == {"good", "best", "other", "rejected"}

ASSUME PromptAssumption ==
    /\ IsFiniteSet(Jobs) /\ NoMedium \notin Media
    /\ \A w \in Workloads :
          /\ DOMAIN w.jobs \subseteq Runs /\ \A r \in DOMAIN w.jobs : w.jobs[r] \in Jobs
          /\ w.verdicts \subseteq Verdicts
    /\ {MinCanaryRuns, MinPairRuns, MinArm, MinProjects} \subseteq Nat

(***************************************************************************)
(* A proposal is named by where it comes from: a mainline one by its job,  *)
(* so that a rerun writes it again; an evaluation's by the run; and the    *)
(* one of human feedback by model, variant and prompt version alone, which *)
(* all the projects of this model share.                                   *)
(***************************************************************************)
Ids == ({"mainline"} \X Jobs) \cup ({"evaluation"} \X Runs) \cup {<<"feedback", 0>>}
Feedback == <<"feedback", 0>>

Retired == {"rolled_back", "superseded"}
NoRow == [status |-> "none"]

VARIABLES
    db,          \* the rows of prompt_evolution_proposals
    blob,        \* the copies under the medium's improvement-proposals
    links,       \* historical_run_links: what the run published, under what
    resolutions, \* the human reviews, in the order of their resolution
    pc,          \* how far each run is
    overlay,     \* the proposals its translation prompt contains, and their scope
    outcome,     \* what became of its translation
    todo,        \* the writes it has still to do
    workload     \* the job of every run (a rerun has its predecessor's), which
                 \* of them evaluate a reference transcript, how translations
                 \* and reviews end, how many runs are under way at a time and whether they
                 \* overlap between a read and its writes; it never changes

vars == <<db, blob, links, resolutions, pc, overlay, outcome, todo, workload>>

NoLink == [scope |-> "none"]
Job(r) == workload.jobs[r]
Project(r) == ProjectOf[Job(r)]
Medium(r) == MediumOf[Job(r)]

Control == [scope |-> "own", mode |-> "control", ids |-> {}]

\* The runs under way: one that waits for a human has no process.
Live == {r \in Runs : pc[r] \notin {"new", "waiting", "ended"}}

Init ==
    /\ db = [i \in Ids |-> NoRow]
    /\ blob = [i \in Ids |-> NoRow]
    /\ links = [r \in Runs |-> NoLink]
    /\ resolutions = <<>>
    /\ pc = [r \in Runs |-> "new"]
    /\ overlay = [r \in Runs |-> Control]
    /\ outcome = [r \in Runs |-> "none"]
    /\ todo = [r \in Runs |-> <<>>]
    /\ workload \in Workloads

----------------------------------------------------------------------------
(* The resolver.                                                           *)

Matches(row, p, m) ==
    row # NoRow /\ row.project = p /\ row.medium \in {NoMedium, m}

\* The proposals the resolver sees in a status: rows of the database, and
\* the medium's files for those it has not found there in that status.
InDb(p, m, status) == {i \in Ids : Matches(db[i], p, m) /\ db[i].status = status}
InFiles(p, m, status) ==
    {i \in Ids : Matches(blob[i], p, m) /\ blob[i].medium = m /\ blob[i].status = status}
Matching(p, m, status) == InDb(p, m, status) \cup InFiles(p, m, status)
RowOf(i, p, m, status) == IF i \in InDb(p, m, status) THEN db[i] ELSE blob[i]

\* A proposal promoted to the pair matches every project and medium, as a
\* row; as a file only the runs of its medium see it.
PairMatching(m, status) ==
    {i \in Ids : \/ db[i] # NoRow /\ db[i].pair /\ db[i].status = status
                 \/ blob[i] # NoRow /\ blob[i].pair /\ blob[i].status = status
                    /\ blob[i].medium = m}

\* Plausible bug: whatever is not in use is tried again.
PromotionsOfRetired(p, m) ==
    LET open == Matching(p, m, "proposed") \cup Matching(p, m, "rolled_back")
    IN  IF Matching(p, m, "active") # {} \/ Matching(p, m, "canary") # {} \/ open = {}
        THEN {<<>>}
        ELSE {<<[at |-> "db", id |-> i,
                 row |-> [(IF db[i] = NoRow THEN blob[i] ELSE db[i]) EXCEPT !.status = "canary"]]>> :
                i \in open}

\* The resolver makes a proposed mainline or feedback proposal the canary when
\* nothing is active or on trial.  It writes the row; its copy goes to the
\* job's file, which nobody reads.
Promotions(p, m) ==
    LET open == {i \in Matching(p, m, "proposed") : i[1] # "evaluation"}
    IN  IF Matching(p, m, "active") # {} \/ Matching(p, m, "canary") # {} \/ open = {}
        THEN {<<>>}
        ELSE {<<[at |-> "db", id |-> i,
                 row |-> [RowOf(i, p, m, "proposed") EXCEPT !.status = "canary"]]>> : i \in open}

\* The overlay of a run: one canary when the run's hash is in the canary share
\* (lot), otherwise every active proposal.
Overlays(scope, canaries, actives, lot) ==
    IF lot /\ canaries # {} THEN {[scope |-> scope, mode |-> "canary", ids |-> {i}] : i \in canaries}
    ELSE IF actives # {} THEN {[scope |-> scope, mode |-> "active", ids |-> actives]}
    ELSE {}

\* Overlays of the run's own project come first, then those of the pair.
Selections(p, m, lot) ==
    LET own == Overlays("own", Matching(p, m, "canary"), Matching(p, m, "active"), lot)
        pair == Overlays("pair", PairMatching(m, "canary"), PairMatching(m, "active"), lot)
    IN  IF own # {} THEN own ELSE IF pair # {} THEN pair ELSE {Control}

----------------------------------------------------------------------------
(* The reference evaluation.                                               *)

\* The evaluated runs of a medium with a translation, those of the project and
\* the variant (its compatibility tuple) and those of them in one arm.
Evaluated(r) == {x \in Runs \ {r} : links[x] # NoLink /\ Medium(x) = Medium(r)}
Compatible(r) == {x \in Evaluated(r) : links[x].scope = "own" /\ Project(x) = Project(r)}
CanaryArm(r) == {x \in Compatible(r) : links[x].mode = "canary"}
ControlArm(r) == {x \in Compatible(r) : links[x].mode \in {"control", "active"}}

\* Whether a failure can recur, in all the runs and in those of the tuple.
MayRecur(r) == Cardinality(Evaluated(r)) >= MinPatternRuns
MayQualify(r) == Cardinality(Compatible(r)) >= MinPatternRuns

\* A new proposal; those of a project's medium and those of a project.
Fresh(p, m) == [project |-> p, medium |-> m, status |-> "proposed", pair |-> FALSE]
EvaluationProposal(r) == Fresh(Project(r), Medium(r))
MainlineProposal(r) == Fresh(Project(r), Medium(r))
FeedbackProposal(p) == Fresh(p, NoMedium)

\* A save writes the medium's file first and then the row (see WriteNext).
Save(i, row) == [at |-> "blob", id |-> i, row |-> row]

SaveAll(ids, status) ==
    LET order == SetToSeq(ids)
    IN  [k \in DOMAIN order |-> Save(order[k], [db[order[k]] EXCEPT !.status = status])]

\* What the scores can make of a canary: they decide between what the counts
\* of the two arms allow.
Judged(row, retires, activates, promotes) ==
    {row}
    \cup (IF retires THEN {[row EXCEPT !.status = "rolled_back"]} ELSE {})
    \cup (IF activates THEN {[row EXCEPT !.status = "active"]} ELSE {})
    \cup (IF promotes THEN {[row EXCEPT !.status = "active", !.pair = TRUE]} ELSE {})

\* Enough runs of both arms for a promotion to the language pair.
Eligible(canaries, controls) == canaries >= MinPairRuns /\ controls >= MinPairRuns

\* Plausible bug: an arm without runs is taken for one with the score zero.
JudgementsNoMetrics(row, canaries, controls) ==
    Judged(row, controls > 0, controls > 0, FALSE)

\* Plausible bug: only the canary arm is counted for the pair.
JudgementsOneArm(row, canaries, controls) ==
    Judged(row, FALSE, canaries >= MinCanaryRuns /\ controls > 0,
           canaries >= MinPairRuns /\ controls > 0)

Judgements(row, canaries, controls) ==
    Judged(row,
           canaries > 0 /\ controls > 0,
           canaries >= MinCanaryRuns /\ controls > 0,
           canaries >= MinCanaryRuns /\ controls > 0 /\ Eligible(canaries, controls))

\* Plausible bug: the active proposals stay active.
SaveJudgedAlone(i, row, active) == <<Save(i, row)>>

\* A judged canary is saved; when it becomes active, all the active proposals
\* of its medium are superseded first.
SaveJudged(i, row, active) ==
    Append(IF row.status = "active" THEN SaveAll(active, "superseded") ELSE <<>>, Save(i, row))

\* The saves an evaluation can decide on.  It lists the rows of its medium, so
\* never those of human feedback.
EvaluationPlans(r) ==
    LET existing == {i \in Ids : Matches(db[i], Project(r), Medium(r)) /\ db[i].medium = Medium(r)}
        in(status) == {i \in existing : db[i].status = status}
    IN  IF outcome[r] \notin {"low", "medium"} \/ ~MayRecur(r)
        THEN {<<>>}
        ELSE {<<>>} \cup
             IF existing = {} THEN
                 IF MayQualify(r) THEN {<<Save(<<"evaluation", r>>, EvaluationProposal(r))>>} ELSE {}
             ELSE IF in("canary") # {} THEN
                 UNION {{SaveJudged(i, row, in("active")) :
                            row \in Judgements(db[i], Cardinality(CanaryArm(r)), Cardinality(ControlArm(r)))} :
                        i \in in("canary")}
             ELSE {<<Save(i, [db[i] EXCEPT !.status = "canary"])>> : i \in in("proposed")}

----------------------------------------------------------------------------
(* Human feedback.                                                         *)

\* Weight of a resolution for this variant: approved as good or as the best
\* available with one of its candidates (1, 0.35), rejected (-1), or nothing.
InFavour(recent) == {k \in DOMAIN recent : recent[k].verdict \in {"good", "best"}}
Failures(recent) == {k \in DOMAIN recent : recent[k].verdict \in {"best", "rejected"}}
Arm(recent, modes) ==
    {k \in DOMAIN recent : recent[k].mode \in modes /\ recent[k].verdict # "other"}

\* The status an update can give, by the counts; the scores decide between them.
FeedbackStatuses(status, recent) ==
    LET canaries == Cardinality(Arm(recent, {"canary"}))
        controls == Cardinality(Arm(recent, {"control", "active"}))
        tried == IF status = "proposed" /\ Cardinality(InFavour(recent)) >= MinSupport
                 THEN "canary" ELSE status
    IN  {tried}
        \cup (IF tried = "canary" /\ canaries >= MinArm /\ controls >= MinArm
              THEN {"active"} ELSE {})
        \cup (IF tried = "active" /\ canaries >= MinArm THEN {"rolled_back"} ELSE {})

\* Whether an active proposal can be promoted to the pair.
PairEligible(status, recent) ==
    /\ status = "active"
    /\ Cardinality(InFavour(recent)) >= MinSupport
    /\ Cardinality({recent[k].project : k \in InFavour(recent)}) >= MinProjects
    /\ Cardinality(Arm(recent, {"canary"})) >= MinArm

\* The rows a review of project p can write.  The resolutions of every project
\* count; the row is the project's own, or else a new one.
FeedbackRows(p, recent) ==
    IF Len(recent) < MinReviews \/ Cardinality(Failures(recent)) < MinFailures THEN {}
    ELSE LET old == db[Feedback]
             base == IF old # NoRow /\ old.project = p THEN old
                     ELSE FeedbackProposal(p)
         IN  UNION {{[base EXCEPT !.status = s, !.pair = e] :
                        e \in IF PairEligible(s, recent) THEN BOOLEAN ELSE {FALSE}} :
                    s \in FeedbackStatuses(base.status, recent)}

----------------------------------------------------------------------------
(* The steps of a run.                                                     *)

\* A run reads only when nobody else has read and not yet written, unless the
\* runs race.
MayRead(r) == workload.racing \/ \A x \in Runs \ {r} : todo[x] = <<>>

Goto(r, next) == pc' = [pc EXCEPT ![r] = next]
Forget(r) == overlay' = [overlay EXCEPT ![r] = Control]
Plan(r, writes) == todo' = [todo EXCEPT ![r] = writes]

\* The run reaches its translation: the resolver promotes a proposal.
Begin(r) ==
    /\ pc[r] = "new"
    /\ r \in DOMAIN workload.jobs /\ \A x \in Runs : x < r => pc[x] # "new"
    /\ Cardinality(Live) < workload.live
    /\ MayRead(r)
    /\ \E writes \in Promotions(Project(r), Medium(r)) : Plan(r, writes)
    /\ Goto(r, "selecting")
    /\ UNCHANGED <<db, blob, links, resolutions, overlay, outcome, workload>>

\* The next write a run has to do: a row, or a file, whose row is then the next.
WriteNext(r) ==
    /\ todo[r] # <<>>
    /\ LET w == Head(todo[r])
           rest == Tail(todo[r])
       IN  \/ /\ w.at = "blob"
              /\ blob' = [blob EXCEPT ![w.id] = w.row] /\ UNCHANGED db
              /\ todo' = [todo EXCEPT ![r] = <<[w EXCEPT !.at = "db"]>> \o rest]
           \/ /\ w.at = "db"
              /\ db' = [db EXCEPT ![w.id] = w.row] /\ UNCHANGED blob
              /\ todo' = [todo EXCEPT ![r] = rest]
    /\ UNCHANGED <<links, resolutions, pc, overlay, outcome, workload>>

\* A write of the evaluation or of the drain raises: the rest is given up, and
\* the run goes on.
WriteFails(r) ==
    /\ todo[r] # <<>>
    /\ pc[r] \in {"regenerating", "ending"}
    /\ Plan(r, <<>>)
    /\ UNCHANGED <<db, blob, links, resolutions, pc, overlay, outcome, workload>>

\* The overlay is read, once the promotion is written, and applied.
Select(r) ==
    /\ pc[r] = "selecting" /\ todo[r] = <<>>
    /\ \E lot \in BOOLEAN : \E o \in Selections(Project(r), Medium(r), lot) :
          overlay' = [overlay EXCEPT ![r] = o]
    /\ Goto(r, "translating")
    /\ UNCHANGED <<db, blob, links, resolutions, outcome, todo, workload>>

\* The link of a run whose published translation is one of this variant, and
\* of one whose translation is another variant's.
LinkOf(r) == [scope |-> overlay[r].scope, mode |-> overlay[r].mode]
Elsewhere == [scope |-> "other", mode |-> "control"]

\* The translation ends: a winner of this variant with low or more
\* disagreement, one of another variant, or no winner for a human to decide.
\* The outputs and the link of the run are written before anything else.
Publish(r, how) ==
    /\ pc[r] = "translating" /\ how \in workload.ends
    /\ outcome' = [outcome EXCEPT ![r] = how]
    /\ links' = CASE how \in {"low", "medium"} -> [links EXCEPT ![r] = LinkOf(r)]
                  [] how = "elsewhere" -> [links EXCEPT ![r] = Elsewhere]
                  [] OTHER -> links
    /\ Goto(r, IF r \in workload.evaluates THEN "evaluating" ELSE "draining")
    /\ UNCHANGED <<db, blob, resolutions, overlay, todo, workload>>

\* The evaluation reads links and rows and decides.
Evaluate(r) ==
    /\ pc[r] = "evaluating" /\ MayRead(r)
    /\ \E writes \in EvaluationPlans(r) : Plan(r, writes)
    /\ Goto(r, "regenerating")
    /\ UNCHANGED <<db, blob, links, resolutions, overlay, outcome, workload>>

\* The regenerated draft asks the resolver again, which may promote again.
Regenerate(r) ==
    /\ pc[r] = "regenerating" /\ todo[r] = <<>> /\ MayRead(r)
    /\ \E writes \in Promotions(Project(r), Medium(r)) : Plan(r, writes)
    /\ Goto(r, "draining")
    /\ UNCHANGED <<db, blob, links, resolutions, overlay, outcome, workload>>

\* The drain of a low-disagreement winner proposes, in place of whatever the
\* job's proposal has become.
Drain(r) ==
    /\ pc[r] = "draining" /\ todo[r] = <<>> /\ MayRead(r)
    /\ Plan(r, IF outcome[r] = "low"
               THEN <<Save(<<"mainline", Job(r)>>, MainlineProposal(r))>>
               ELSE <<>>)
    /\ Goto(r, "ending")
    /\ UNCHANGED <<db, blob, links, resolutions, overlay, outcome, workload>>

\* The run is over, or waits for a human.
End(r) ==
    /\ pc[r] = "ending" /\ todo[r] = <<>>
    /\ IF outcome[r] = "human"
       THEN Goto(r, "waiting") /\ UNCHANGED overlay
       ELSE Goto(r, "ended") /\ Forget(r)
    /\ outcome' = [outcome EXCEPT ![r] = "none"]
    /\ UNCHANGED <<db, blob, links, resolutions, todo, workload>>

\* A human resolves the run: the resolution is on record from here on.
Resolve(r, verdict) ==
    /\ pc[r] = "waiting" /\ Cardinality(Live) < workload.live
    /\ resolutions' = Append(resolutions,
           [run |-> r, project |-> Project(r), verdict |-> verdict, mode |-> overlay[r].mode])
    /\ Goto(r, "learning")
    /\ UNCHANGED <<db, blob, links, overlay, outcome, todo, workload>>

\* The proposal of human feedback is brought up to date from the resolutions
\* of the last thirty days, which are the last ones of the record.
Learn(r) ==
    /\ pc[r] = "learning" /\ MayRead(r)
    /\ \E first \in 1..Len(resolutions) :
          LET rows == FeedbackRows(Project(r), SubSeq(resolutions, first, Len(resolutions)))
          IN  \/ Plan(r, <<>>)
              \/ \E row \in rows : Plan(r, <<[at |-> "db", id |-> Feedback, row |-> row]>>)
    /\ Goto(r, "linking")
    /\ UNCHANGED <<db, blob, links, resolutions, overlay, outcome, workload>>

\* An approved translation of this variant is published and linked.
LinkResolved(r) ==
    /\ pc[r] = "linking" /\ todo[r] = <<>>
    /\ \E k \in DOMAIN resolutions :
          /\ resolutions[k].run = r
          /\ links' = CASE resolutions[k].verdict \in {"good", "best"} -> [links EXCEPT ![r] = LinkOf(r)]
                        [] resolutions[k].verdict = "other" -> [links EXCEPT ![r] = Elsewhere]
                        [] OTHER -> links
    /\ Goto(r, "ended") /\ Forget(r)
    /\ UNCHANGED <<db, blob, resolutions, outcome, todo, workload>>

\* The process of a run, or of its resolution, dies.
Dies(r) ==
    /\ r \in Live
    /\ Goto(r, "ended") /\ Forget(r)
    /\ Plan(r, <<>>)
    /\ outcome' = [outcome EXCEPT ![r] = "none"]
    /\ UNCHANGED <<db, blob, links, resolutions, workload>>

\* Nothing is left to do.
Finished ==
    /\ \A r \in DOMAIN workload.jobs : pc[r] = "ended"
    /\ UNCHANGED vars

Next ==
    \/ \E r \in Runs :
          \/ Begin(r) \/ WriteNext(r) \/ WriteFails(r) \/ Select(r)
          \/ \E how \in {"low", "medium", "elsewhere", "human"} : Publish(r, how)
          \/ Evaluate(r) \/ Regenerate(r) \/ Drain(r) \/ End(r)
          \/ \E verdict \in workload.verdicts : Resolve(r, verdict)
          \/ Learn(r) \/ LinkResolved(r) \/ Dies(r)
    \/ Finished

Spec == Init /\ [][Next]_vars

----------------------------------------------------------------------------
(* Properties.                                                             *)

\* The runs of a medium and a project that published under a canary, and under
\* anything else; and the reviews on record.
OwnLinks(p, m) ==
    {x \in Runs : links[x] # NoLink /\ links[x].scope = "own" /\ Project(x) = p /\ Medium(x) = m}
Tried(p, m) == {x \in OwnLinks(p, m) : links[x].mode = "canary"}
Compared(p, m) == OwnLinks(p, m) \ Tried(p, m)

\* A prompt overlay that every run of a medium gets has been tried on enough
\* canary runs of that medium and compared with another run, or by enough
\* reviewed runs, whatever the order of the writes and wherever they stop
\* (reference_evaluation.py _update_canary_status, review_flow.py
\* _updated_feedback_proposal_status).
Earned(row) ==
    row.status = "active" =>
        IF row.medium = NoMedium
        THEN /\ Cardinality(Arm(resolutions, {"canary"})) >= MinArm
             /\ Cardinality(Arm(resolutions, {"control", "active"})) >= MinArm
        ELSE /\ Cardinality(Tried(row.project, row.medium)) >= MinCanaryRuns
             /\ Compared(row.project, row.medium) # {}
ActivationEarned == \A i \in Ids : Earned(db[i]) /\ Earned(blob[i])

\* An overlay reaches the projects that never tried it only after enough runs
\* of both arms, or with reviews of enough projects in its favour.
PairEarned(row) ==
    (row # NoRow /\ row.pair) =>
        IF row.medium = NoMedium
        THEN Cardinality({resolutions[k].project : k \in InFavour(resolutions)}) >= MinProjects
        ELSE /\ Cardinality(Tried(row.project, row.medium)) >= MinPairRuns
             /\ Cardinality(Compared(row.project, row.medium)) >= MinPairRuns
PairScopeEarned == \A i \in Ids : PairEarned(db[i]) /\ PairEarned(blob[i])

\* Of the proposals of a medium at most one is active, however an evaluation
\* that replaces one by another ends, when runs do not overlap between a read
\* and its writes: the overlay of a run is one proposal and the judged canary
\* was compared with it.
OneActivePerMedium ==
    ~workload.racing => \A i, j \in Ids :
        (/\ db[i] # NoRow /\ db[j] # NoRow
         /\ db[i].status = "active" /\ db[j].status = "active"
         /\ db[i].medium # NoMedium /\ db[i].medium = db[j].medium
         /\ db[i].project = db[j].project) => i = j

\* A proposal that was rolled back or superseded comes back only because its
\* own job was run again and proposed it again.
RetiredStaysRetired ==
    [][~workload.racing => \A i \in Ids :
          (db[i].status \in Retired /\ db'[i].status \notin Retired /\ i # Feedback) =>
             i[1] = "mainline" /\ blob[i].status = "proposed"]_vars

============================================================================
