\* Three threads, capacity 4: 3 * (2 - 1) < 4, so partial acquisitions cannot
\* use up every token.
SPECIFICATION FairSpec
CONSTANTS
  Workers = {w1, w2, w3}
  TotalTokens = 4
  Cost <- DefaultCost
  MaxRequests = 2
INVARIANTS
  TypeOK
  TokensConserved
  ProviderCeiling
  NoCircularWait
PROPERTIES
  WorkEventuallyAdmitted
  ImplementsAdmission
