\* Two variants with two chunks each on a limiter that pays for two of their
\* calls, and up to five calls that go wrong anywhere among them: enough for one
\* task to use up its whole call budget.
SPECIFICATION FairSpec
CONSTANTS
  NumVariants = 2
  NumSegments = 4
  MaxSegments = 3
  TooLarge = {}
  VariantWorkers = 0
  ChunkWorkers = 0
  MaxAttempts = 2
  TotalTokens = 5
  ProviderCost = 2
  MaxFaults = 5
INVARIANTS
  CandidateIsWholeTranscript
  Verdicts
  CallBudget
PROPERTY StageDecided
