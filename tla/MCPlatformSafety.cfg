INIT Init
NEXT Next
CHECK_DEADLOCK FALSE
CONSTANTS
  Parts = {"control", "job", "corepair", "trustedconfig", "corefetch", "unit", "providers"}
  Procs = {"p1", "p2"}
  MaxDocs = 3
  MaxReboots = 1
  Pids = {1, 2}
  Threads = {"t1", "t2"}
  MaxSerial = 3
  Daemons = {1}
  Does <- MCDoes
  PairCasts <- MCPairCasts
  MaxPairFaults = 2
  MaxBoots = 2
  ConfigBytes = {"a", "b", "bad"}
  ValidBytes = {"a", "b"}
  MaxConfigFaults = 2
  MaxChanges = 2
  FetchCasts <- MCFetchCasts
  Scored <- MCScored
  MaxList = 4
  MaxFetchFaults = 2
  UnitTexts <- MCUnitTexts
  DropTexts <- MCDropTexts
  MaxUnitEvents = 3
  MaxUnitFaults = 1
  NEntries = 2
  NoOlds = {{}, {0, 2}}
  MaxRvStops = 1
  MaxRvBoots = 2
  MaxAliens = 1
INVARIANTS
  PlatformSafe
  
  UnitManaged

  
