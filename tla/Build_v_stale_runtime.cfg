CONSTANTS
  Jobs = {a, b}
  a = a
  b = b
  N = 2
  Last <- WholeChain
  Liquibase = {}
  Kind = "btrfs"
  Preloaded = 0
  MaxFailures = 0
  MaxCrashes = 0
  MaxEvictions = 0
  None = None
SPECIFICATION Spec
INVARIANTS InstanceFaithful
CHECK_DEADLOCK FALSE
