\* Two calls for one run.
SPECIFICATION Spec
CONSTANTS
  Reviewers = {c1, c2}
  r1 = r1
  r2 = r2
  r3 = r3
  j1 = j1
  j2 = j2
  Runs = {r1}
  Jobs = {j1}
  JobOf <- OneJob
  Providers = {p1}
  Combos = {k1}
  None = None
  Racing = TRUE
  MaxFaults = 0
INVARIANT OneDecisionPerJob
