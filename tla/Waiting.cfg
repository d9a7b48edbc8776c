CONSTANTS
  Jobs = {"j1", "j2", "j3"}
  MaxFails = 1
  MaxCrashes = 1
  Writers = {"j1", "j2"}
  Startup = "start"
  Old = {"s1", "s2", "s3"}
  NewState <- MCNewState
  Base <- MCBase
  Parent <- MCParent
  Size <- MCSize
  LastUsed <- MCLastUsed
  InUse = {}
  NoState = "none"
  Disk = 14
  MaxBytes = 10
  Reserve = 2
  HighPct = 80
  LowPct = 60
  MinAge = TRUE
  MaxEvictFaults = 1
  MaxEvictCrashes = 1
SPECIFICATION WaitSpec
INVARIANTS TypesOK BaseComplete EvictionBounded
PROPERTIES EveryBuildEnds EveryStartSettles EveryEvictionSettles EngineRetires
CHECK_DEADLOCK FALSE
