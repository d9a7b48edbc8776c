------------------------------- MODULE MCEngine -------------------------------
(***************************************************************************)
(* Safety of parts of the engine that are checked apart from each other,   *)
(* in one run: requests over instances and the containers of one data      *)
(* directory (EngineContainers, extended), engine configuration            *)
(* (EngineConfig), and jobs that build the same states on the copy backend *)
(* (StateBuild).  A behaviour is one of them.                              *)
(***************************************************************************)
EXTENDS EngineContainers, ConfigNodes, TLC

CONSTANTS jobA, jobB, jobC,
          q1, q2   \* requests

\* Two requests over a parent state, a child, a child that is committed meanwhile, an
\* instance of the child and one of the parent that is registered meanwhile.
ParentOf == [s1 |-> "none", s2 |-> "s1", s3 |-> "s1"]
ClonedFrom == [i1 |-> "s2", i2 |-> "s1"]

\* The numeric cache settings, the map they are in, and an element of a list; values
\* of every kind, in and out of their ranges.
Config == INSTANCE EngineConfig WITH
  Paths <- {HighPath, LowPath, AgePath, Capacity, <<Key("x"), Index(1)>>},
  Values <- {Num(85), Num(95), Nil, Str(-10), MapOf([highWatermark |-> Num(50)])},
  MaxChanges <- 3,
  overrides <- r1, file <- r2, changes <- r3, acked <- r4, unacked <- r5, unchecked <- r6

\* Three jobs on the copy backend, one of them for a chain of three steps and two for
\* its first step; the engine dies once.
Builders == {jobA, jobB, jobC}
Shared == INSTANCE StateBuild WITH
  Jobs <- Builders, N <- 3, Last <- [j \in Builders |-> IF j = jobA THEN 3 ELSE 1],
  Liquibase <- {}, Kind <- "copy", Preloaded <- 0, MaxFailures <- 0, MaxCrashes <- 1,
  MaxEvictions <- 0, None <- "none",
  meta <- r1, old <- r2, disk <- r3, marker <- r4, lock <- r5, inst <- r6, pc <- r7, step <- r8,
  hit <- r9, rt <- r10, bad <- r11, evict <- r12, count <- r13

\* The two short jobs are interchangeable, and the two requests.
Symmetry == Permutations({jobB, jobC}) \cup Permutations({q1, q2})

InRequests == part = "requests"
InConfig   == part = "config"
InShared   == part = "copy"

\* The variables a part leaves alone.
over16 == <<part, vars>>
over13 == <<r14, r15, r16, over16>>
over6  == <<r7, r8, r9, r10, r11, r12, r13, over13>>
regs   == <<r1, r2, r3, r4, r5, r6, r7, r8, r9, r10, r11, r12, r13, r14, r15, r16>>
Unused13 == r14 = 0 /\ r15 = 0 /\ r16 = 0
Unused6  == r7 = 0 /\ r8 = 0 /\ r9 = 0 /\ r10 = 0 /\ r11 = 0 /\ r12 = 0 /\ r13 = 0 /\ Unused13

EngineInit ==
  /\ Init
  /\ \/ InRequests /\ r1 = 0 /\ r2 = 0 /\ r3 = 0 /\ r4 = 0 /\ r5 = 0 /\ r6 = 0 /\ Unused6
     \/ InRuntime /\ Runtime!Init
     \/ InConfig /\ Config!Init /\ Unused6
     \/ InShared /\ Shared!Init /\ Unused13

RequestStep == InRequests /\ Next /\ UNCHANGED <<part, regs>>
RuntimeStep == InRuntime /\ Runtime!Next /\ UNCHANGED over16
ConfigStep  == InConfig /\ Config!Next /\ UNCHANGED over6
SharedStep  == InShared /\ Shared!Next /\ UNCHANGED over13

EngineSpec ==
  EngineInit /\ [][RequestStep \/ RuntimeStep \/ ConfigStep \/ SharedStep]_<<part, vars, regs>>

-----------------------------------------------------------------------------
\* An acknowledged configuration value is what this engine and the next one read, unless a
\* later request failed after it had replaced the file (config.go:747): then the file is
\* that request's and the memory the acknowledged one until a restart (AckedReadable).
\* Values are merged with the defaults as documented, and validated changes in any order
\* leave settings that the capacity check can load.
ConfigSound ==
  InConfig => Config!TypeOK /\ Config!AckedReadable /\ Config!EffectiveLookup /\ Config!SettingsLoad

\* On copy too at most one job builds a state at a time; a row of states holds exactly
\* the steps of its chain, so nobody has snapshotted a runtime that was not the one its
\* step needed; and a new instance is a copy of the state it is labelled with.
CopySound ==
  InShared => /\ Shared!TypeOK /\ Shared!ExclusiveBuild
              /\ Shared!CachedIntact /\ Shared!InstanceFaithful
=============================================================================
