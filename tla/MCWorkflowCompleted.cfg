\* A claim of the documentation that the code does not keep.
SPECIFICATION Spec
CONSTANTS
  Runs = {r1, r2}
  FreshJobs = {j1}
  Providers = {p1, p2}
  NoJob = NoJob
  MaxLive = 1
  MaxFaults = 0
SYMMETRY RunSymmetry
INVARIANTS CompletedMeansEveryProvider
