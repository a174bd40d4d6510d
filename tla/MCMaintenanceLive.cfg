SPECIFICATION FairSpec
CONSTANTS
  c1 = c1
  c2 = c2
  Nobody = Nobody
  Callers = {c1}
  Kinds = {"mutate", "settings", "status", "restart", "update", "reinstall"}
  Budget = 1
CHECK_DEADLOCK FALSE
PROPERTY MaintenanceProgress
