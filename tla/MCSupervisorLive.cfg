CONSTANTS
  c1 = c1
  c2 = c2
  Clients = {c1}
  MaxProcs = 2
  MaxCalls = 1
  MaxRestarts = 1
  FailureLimit = 2
  KillFails = FALSE
  Descendants = TRUE
SPECIFICATION FairSpec
INVARIANT NoDescendantsBeside
PROPERTY LoopProgress
