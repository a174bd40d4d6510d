CONSTANTS
  c1 = c1
  c2 = c2
  Clients = {c1, c2}
  MaxProcs = 2
  MaxCalls = 1
  MaxRestarts = 0
  FailureLimit = 2
  KillFails = TRUE
  Descendants = FALSE
SPECIFICATION Spec
SYMMETRY Symmetry
INVARIANT LoopSafe
INVARIANT ProcessesOwned
PROPERTY BlockedNeverStarts
