-------------------------- MODULE MCReviewResolution --------------------------
\* A review and a rerun of one job, and a review of another job.
EXTENDS ReviewResolution, TLC

CONSTANTS r1, r2, r3, j1, j2

SharedJob == (r1 :> j1) @@ (r2 :> j1) @@ (r3 :> j2)

OneJob == [r \in Runs |-> j1]

ReviewerSymmetry == Permutations(Reviewers)
=============================================================================
