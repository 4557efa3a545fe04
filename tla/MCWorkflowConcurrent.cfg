\* Two processes at a time over the shared stores, among three runs.
SPECIFICATION FairSpec
CONSTANTS
  Runs = {r1, r2, r3}
  FreshJobs = {j1}
  Providers = {p1}
  NoJob = NoJob
  MaxLive = 2
  MaxFaults = 0
INVARIANTS OutcomeMatchesPublication
PROPERTY ProcessesEnd
