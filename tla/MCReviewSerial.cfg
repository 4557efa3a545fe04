\* Two calls about three runs of two jobs, one of which may die: the calls work at
\* one time on different jobs, or one after the other on one job.
SPECIFICATION Spec
CONSTANTS
  Reviewers = {c1, c2}
  r1 = r1
  r2 = r2
  r3 = r3
  j1 = j1
  j2 = j2
  Runs = {r1, r2, r3}
  Jobs = {j1, j2}
  JobOf <- SharedJob
  Providers = {p1}
  Combos = {k1}
  None = None
  Racing = FALSE
  MaxFaults = 1
SYMMETRY ReviewerSymmetry
INVARIANTS OneStory EffectsFollowRecord ManifestNamesWhatIsThere CountedAtMostOnce
PROPERTIES DecisionIsFinal ImplementsDecision
