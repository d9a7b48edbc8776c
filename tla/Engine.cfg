CONSTANTS
  jobA = jobA
  jobB = jobB
  jobC = jobC
  Containers = {"d1", "d2", "d3"}
  RuntimeFaults = 2
  q1 = q1
  q2 = q2
  States = {"s1", "s2", "s3"}
  NewStates = {"s3"}
  Parent <- ParentOf
  Insts = {"i1", "i2"}
  NewInsts = {"i2"}
  StateOf <- ClonedFrom
  Reqs = {q1, q2}
  MaxSteps = 2
  MaxStarts = 2
  MaxFaults = 1
  MaxCrashes = 1
SPECIFICATION EngineSpec
INVARIANTS TypeOK OneServer DeletionOrdered
INVARIANTS RuntimeTypeOK FailedStartCleans SnapshotSound ConfigSound CopySound
SYMMETRY Symmetry
CHECK_DEADLOCK FALSE
