\* Two threads, capacity 2, the default costs: each thread can hold one token
\* of the two it needs.  The smallest instance of Workers * (cost - 1) >= capacity;
\* the default capacity 8 with eight translation chunks is another.
SPECIFICATION FairSpec
CONSTANTS
  Workers = {w1, w2}
  TotalTokens = 2
  Cost <- DefaultCost
  MaxRequests = 1
PROPERTY WorkEventuallyAdmitted
CHECK_DEADLOCK FALSE
