CONSTANTS
  NTasks = 1
  Beats = {1, 2}
  MaxSent = 1
  MaxBreaks = 0
  MaxLost = 0
  MaxAll = 1
SPECIFICATION Spec
INVARIANTS NoBeatAfterEnd
CHECK_DEADLOCK FALSE
