CONSTANTS
  Jobs = {a, b}
  a = a
  b = b
  N = 3
  Last <- WholeChain
  Liquibase = {}
  Kind = "btrfs"
  Preloaded = 0
  MaxFailures = 1
  MaxCrashes = 1
  MaxEvictions = 1
  None = None
SPECIFICATION Spec
INVARIANTS TypeOK BuiltByOne RowsWhole
PROPERTIES StepLeavesState
SYMMETRY Symmetry
CHECK_DEADLOCK FALSE
