\* Two runs of one medium under two settings, two attempts and two polls, and
\* two requests that go wrong anywhere among them.
SPECIFICATION FairSpec
CONSTANTS
  r1 = r1
  r2 = r2
  a1 = a1
  a2 = a2
  Runs = {r1, r2}
  AudioOf <- NewAudio
  Settings <- SomeSettings
  MaxAttempts = 2
  MaxPolls = 2
  None = None
  MaxFaults = 2
INVARIANTS OwnAudio CandidateOfFinishedJob RequestBudget StageVerdict
PROPERTY StageEnds
CHECK_DEADLOCK FALSE
