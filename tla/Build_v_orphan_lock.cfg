CONSTANTS
  Jobs = {a}
  a = a
  b = b
  N = 1
  Last <- WholeChain
  Liquibase = {}
  Kind = "btrfs"
  Preloaded = 0
  MaxFailures = 0
  MaxCrashes = 1
  MaxEvictions = 0
  None = None
SPECIFICATION FairSpec
PROPERTIES EveryJobEnds
CHECK_DEADLOCK FALSE
