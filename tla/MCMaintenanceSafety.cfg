SPECIFICATION Spec
CONSTANTS
  c1 = c1
  c2 = c2
  Nobody = Nobody
  Callers = {c1, c2}
  Kinds = {"mutate", "settings", "status", "restart", "update", "reinstall"}
  Budget = 1
SYMMETRY Symmetric
CHECK_DEADLOCK FALSE
 
PROPERTY NoStartAfterBreak
