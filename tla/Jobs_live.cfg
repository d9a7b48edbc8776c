CONSTANTS
  Jobs = {a, b}
  a = a
  b = b
  PlanOnlyJobs = {b}
  Signature <- MCSignature
  MaxIdentical = 1
  MaxCrashes = 1
  MaxCancels = 1
  MaxDeletes = 1
  DockerRefuses = FALSE
  MaxLost = 1
  None = None
  Canceller = Canceller
SPECIFICATION LiveSpec
INVARIANTS PlanCreatesNothing
PROPERTIES EventuallyEnds ImplementsLifecycle
CHECK_DEADLOCK FALSE
