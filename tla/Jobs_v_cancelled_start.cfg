CONSTANTS
  Jobs = {a, b}
  a = a
  b = b
  PlanOnlyJobs = {}
  Signature <- MCSignature
  MaxIdentical = 1
  MaxCrashes = 0
  MaxCancels = 0
  MaxDeletes = 1
  DockerRefuses = FALSE
  MaxLost = 0
  None = None
  Canceller = Canceller
SPECIFICATION Spec
INVARIANTS CancelStopsContainer
CHECK_DEADLOCK FALSE
