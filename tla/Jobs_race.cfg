CONSTANTS
  Jobs = {a, b}
  a = a
  b = b
  PlanOnlyJobs = {}
  Signature <- MCSignature
  MaxIdentical = 1
  MaxCrashes = 0
  MaxCancels = 1
  MaxDeletes = 0
  DockerRefuses = TRUE
  MaxLost = 0
  None = None
  Canceller = Canceller
SPECIFICATION Spec
INVARIANTS TypeOK SucceededUsable NoLeakedRuntime RetentionBound
CHECK_DEADLOCK FALSE
