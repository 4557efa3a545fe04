------------------------------ MODULE JobRuns ------------------------------
(***************************************************************************)
(* The runs and their jobs, which PromptLifecycle and MemoryPipeline share. *)
(***************************************************************************)
EXTENDS Naturals, FiniteSets

CONSTANTS
    Runs,       \* the runs, numbered in the order they start
    Jobs,       \* the jobs, each of a project
    ProjectOf,  \* the project of each job
    MediumOf    \* the medium of each job

ASSUME RunsAssumption == Runs \subseteq Nat /\ IsFiniteSet(Runs)

Projects == {ProjectOf[j] : j \in Jobs}
Media == {MediumOf[j] : j \in Jobs}

============================================================================
