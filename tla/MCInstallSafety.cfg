INIT Init
NEXT Next
CHECK_DEADLOCK FALSE
CONSTANTS
  Parts = {"install", "migration", "uninstall", "manager", "selfupdate"}
  InstallOps = {"install", "update", "recover", "stop", "start", "uninstall"}
  MaxInstallOps = 2
  MaxInstallFaults = 2
  SourceFiles = {"settings", "cache", "core", "prefs", "channel", "stray"}
  MaxWrites = 2
  MaxCrashes = 1
  NParts = 2
  RootKinds = {"data", "program", "control"}
  Leftovers = {}
  MaxMeddling = 2
  Executors = {"e1", "e2"}
  Inspectors = {"i1"}
  Binaries = {"b1", "b2"}
  MaxInstallations = 2
  MaxOutages = 1
  Requests <- MCRequests
  UpdateCasts <- MCUpdateCasts
  NewTags <- MCNewTags
  ForeignCopy <- MCForeign
  PageSize = 1
  MaxPages = 4
  MaxSuFaults = 2
  MaxSuRuns = 2
INVARIANTS
  InstallSafe
  MigrationSafe
  
  
  

  
