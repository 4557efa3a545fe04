--------------------------- MODULE MCWorkflowRun ---------------------------
(* Model values for TLC: runs, jobs and providers are interchangeable. *)
EXTENDS WorkflowRun, TLC

RunSymmetry == Permutations(Runs) \union Permutations(FreshJobs)
                 \union Permutations(Providers)
=============================================================================
