CONSTANTS
  NTasks = 1
  Beats = {1}
  MaxSent = 1
  MaxBreaks = 1
  MaxLost = 1
  MaxAll = 1
SPECIFICATION FairSpec
INVARIANTS TypeOK InOrder
PROPERTIES ClientEnds
CHECK_DEADLOCK FALSE
