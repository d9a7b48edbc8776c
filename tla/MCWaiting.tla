------------------------------ MODULE MCWaiting ------------------------------
(***************************************************************************)
(* The four places where something waits for something else, in one run    *)
(* with fairness: jobs for a build lock (StateBuild), for the lock of the  *)
(* base directory (BaseInit) and for the eviction lock (CacheCapacity),    *)
(* and an engine for its last request (EngineProcess).  They do not touch  *)
(* each other's state, so a behaviour is one of the four: BaseInit and     *)
(* CacheCapacity come with EngineLocks, r1, r2, ... hold the variables of  *)
(* the others.                                                             *)
(***************************************************************************)
EXTENDS EngineLocks

regs == <<r1, r2, r3, r4, r5, r6, r7, r8, r9, r10, r11, r12, r13>>
all == <<part, vars, regs>>

\* A psql job builds a chain of two states on the copy backend and a Liquibase job
\* the first of them, with a failure and an eviction.
Builders == {"a", "b"}
Build == INSTANCE StateBuild WITH
  Jobs <- Builders, N <- 2, Last <- [a |-> 2, b |-> 1], Liquibase <- {"b"}, Kind <- "copy",
  Preloaded <- 0, MaxFailures <- 1, MaxCrashes <- 0, MaxEvictions <- 1, None <- "none",
  meta <- r1, old <- r2, disk <- r3, marker <- r4, lock <- r5, inst <- r6, pc <- r7, step <- r8,
  hit <- r9, rt <- r10, bad <- r11, evict <- r12, count <- r13

\* Two jobs whose new states do not fit, one of them on top of a leaf that may be
\* evicted; an inner old state, and one as large as the room that is missing.
MCNewState == [j1 |-> "n1", j2 |-> "n2"]
MCBase == [j1 |-> "s2", j2 |-> "none"]
MCParent == [s1 |-> "none", s2 |-> "s1", s3 |-> "none"]
MCSize == [s1 |-> 2, s2 |-> 2, s3 |-> 3, n1 |-> 2, n2 |-> 3]
MCLastUsed == [s1 |-> 1, s2 |-> 2, s3 |-> 2, n1 |-> 4, n2 |-> 4]

\* One command after another, and two engine processes for them.
Processes == {"e1", "e2"}
Engine == INSTANCE EngineProcess WITH
  Clients <- {"c1"}, Engines <- Processes, Ports <- {"p1", "p2"}, MaxCalls <- 2, MaxFaults <- 1,
  eng <- r1, port <- r2, idle <- r3, json <- r4, lock <- r5, cli <- r6, calls <- r7,
  faults <- r8, excuse <- r9

Building == part = "build"
Starting == part = "base"
Serving  == part = "engine"

InBuild(A)  == Building /\ A /\ UNCHANGED <<part, vars>>
InBase(A)   == Starting /\ A /\ UNCHANGED <<part, regs>>
InCache(A)  == Evicting /\ A /\ UNCHANGED <<part, vars, r13>>
InEngine(A) == Serving /\ A /\ UNCHANGED <<part, vars, r10, r11, r12, r13>>

\* The variables that a part leaves alone.
Unused9 == r10 = 0 /\ r11 = 0 /\ r12 = 0 /\ r13 = 0
Elsewhere == btrfs = FALSE /\ dir = "none"

WaitInit ==
  /\ Init
  /\ \/ Starting /\ r1 = 0 /\ r2 = 0 /\ r3 = 0 /\ r4 = 0 /\ r5 = 0 /\ r6 = 0 /\ r7 = 0 /\ r8 = 0
        /\ r9 = 0 /\ Unused9
     \/ Elsewhere /\ Building /\ Build!Init
     \/ Elsewhere /\ Evicting /\ Cache!Init /\ r13 = 0
     \/ Elsewhere /\ Serving /\ Engine!Init /\ Unused9

BuildStep  == InBuild(Build!Next)
BaseStep   == InBase(Next)
CacheStep  == InCache(Cache!Next)
EngineStep == InEngine(Engine!Next)

\* The fairness of each part: goroutines are scheduled and calls return, a lock file
\* that stays gets old, and the idle ticker keeps ticking.
WaitFairness ==
  /\ \A j \in Builders : WF_all(InBuild(Build!JobStep(j)))
  /\ \A j \in Jobs : WF_all(InBase(Progress(j)))
  /\ \A p \in Cache!Callers : WF_all(InCache(Cache!Progress(p)))
  /\ WF_all(InCache(Cache!LockAges))
  /\ \A e \in Processes : WF_all(InEngine(Engine!EngineStep(e))) /\ WF_all(InEngine(Engine!IdleTick(e)))
  /\ WF_all(InEngine(Engine!ClientStep("c1")))

WaitSpec == WaitInit /\ [][BuildStep \/ BaseStep \/ CacheStep \/ EngineStep]_all /\ WaitFairness

-----------------------------------------------------------------------------
\* Every variable of the part under way has its type.
TypesOK ==
  /\ TypeOK
  /\ Building => Build!TypeOK
  /\ Evicting => Cache!TypeOK
  /\ Serving => Engine!TypeOK

\* Every build job ends, in an instance or in an error: withStateBuildLock gives the
\* lock back on every path, so no job polls for it for ever.
EveryBuildEnds ==
  \A j \in Builders : <>(Building => Build!JobEnded(j))

\* As long as the engine does not die, every job gets past ensureBaseState or fails.
EveryStartSettles ==
  \A j \in Jobs :
    Starting ~> (Starting /\ Settled(j))

\* Every job gets through ensureCacheCapacity for good: a lock left by a crash does not
\* block the jobs of the next engine for ever.
EveryEvictionSettles ==
  \A j \in Writers : <>[](Evicting => Cache!Settled(j))

\* No engine outlives its users: once it serves, it ends.
EngineRetires ==
  \A e \in Processes : (Serving /\ Engine!InService(e)) ~> (Serving /\ Engine!Retired(e))
=============================================================================
