------------------------ MODULE MCConcurrencyLimiter ------------------------
EXTENDS ConcurrencyLimiter, TLC

\* The runtime's default costs (graph/runtime.py, _default_parallelism_policy).
DefaultCost == [c \in TaskClass |-> IF c = "provider_io" THEN 2 ELSE 1]

ThreadSymmetry == Permutations(Workers)
=============================================================================
