CONSTANTS
  c1 = c1
  c2 = c2
  Clients = {c1, c2}
  Engines = {"e1", "e2", "e3"}
  Ports = {"p1", "p2"}
  MaxCalls = 2
  MaxFaults = 1
  Cmds = {c1, c2}
  MaxCmds = 4
  MaxTime = 3
  Life = 2
  Window = 1
  SourceFiles = {"a", "b", "c"}
  DirFiles = {"b", "c"}
  Root = "a"
  Versions = {1, 2}
  ContentOf <- MCContentOf
  Includes <- MCIncludes
  Lists = {"list"}
  MaxRounds = 5
  MaxEdits = 2
  MaxLosses = 1
  StageFaults = 2
  InitCmds = 2
  MaxReboots = 1
  MaxRestarts = 1
SPECIFICATION ClientSpec
INVARIANTS TypesOK StateFaithful SingleEngine SessionSound SyncFaithful EndsClean InitRepeatable
INVARIANTS EngineOnStore InputsSound
PROPERTIES ConnectsToItself DataKept
CONSTRAINT NoDrift
SYMMETRY Symmetry
CHECK_DEADLOCK FALSE
