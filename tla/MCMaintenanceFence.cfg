SPECIFICATION Spec
CONSTANTS
  c1 = c1
  c2 = c2
  Nobody = Nobody
  Callers = {c1, c2}
  Kinds = {"mutate", "add"}
  Budget = 1
INVARIANT FenceClosed
CHECK_DEADLOCK FALSE
