INIT Init
NEXT Next
CHECK_DEADLOCK FALSE
CONSTANTS
  Parts = {"system", "session", "subscription_page", "export", "files", "loglines"}
  Rows = {"service", "core", "proxy", "channel", "uninstall", "update"}
  MaxPresses = 2
  MaxRevision = 1
  MaxLosses = 1
  MaxEdits = 1
  MaxEpoch = 2
  QueueSize = 1
  OldIds = {1, 2}
  NewIds = {3, 4}
  Plans <- MCPlans
  Snapshots <- MCSnapshots
  ExportChoices <- MCChoices
  MaxSuffix = 1
  MaxConcurrentSnapshots = 2
  MaxAdmits = 2
  MaxExports = 2
  MaxTroubles = 1
  LogWriters = {"w1", "w2"}
  Limits = {1, 2, 3}
  FirstLimit <- MCFirstLimit
  Fragments <- MCFragments
  MaxSizeRecords = 1
  MaxLogFaults = 1
  MaxApplies = 1
  Reconfigured = {"w1"}
  LineCap = 2
  RecordCap = 3
  ReadBuffer = 2
  MaxBytes = 5
  MaxChunk = 3
  MaxFlushes = 1

  
  
PROPERTIES
  FrontSteps
