\* One process at a time: three runs of a job and its resumed jobs, with one fault.
SPECIFICATION Spec
CONSTANTS
  Runs = {r1, r2, r3}
  FreshJobs = {j1}
  Providers = {p1, p2}
  NoJob = NoJob
  MaxLive = 1
  MaxFaults = 1
SYMMETRY RunSymmetry
INVARIANTS OutcomeMatchesPublication TranscriptOfRecord TranscriptUsesEverySurvivor
