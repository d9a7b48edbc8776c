----------------------------- MODULE StateBuild ------------------------------
(***************************************************************************)
(* How prepare jobs build, share and evict cached states                   *)
(* (internal/prepare/execution.go, capacity.go and the task loop of        *)
(* manager.go).  Every job applies a prefix of one chain of steps to the   *)
(* same base image; the state after step s is state s, so jobs that run at *)
(* the same time want the same states.  A state is a row of the states     *)
(* table, a directory, a .build.ok marker and, while it is being built, a  *)
(* .build.lock file.  What a database contains is the set of steps applied *)
(* to it.                                                                  *)
(*                                                                         *)
(* One step is one SQLite statement, one file operation, or one call to    *)
(* the runtime.  Kind is the snapshot backend: for "btrfs" the lock and    *)
(* the marker are files next to the state directory; for "copy" (and       *)
(* overlay) they are files inside it, and are copied with it.              *)
(***************************************************************************)
EXTENDS Naturals, FiniteSets

CONSTANTS Jobs,
          N,             \* length of the chain
          Last,          \* Last[j]: the number of steps of job j
          Liquibase,     \* the jobs of kind lb
          Kind,          \* "btrfs" or "copy"
          Preloaded,     \* states 1..Preloaded exist, and are old, at the start
          MaxFailures, MaxCrashes, MaxEvictions,  \* bounds on the environment
          None

ASSUME BuildAssumption ==
  /\ N \in Nat /\ Preloaded \in 0..N
  /\ Last \in [Jobs -> 1..N]
  /\ Liquibase \subseteq Jobs
  /\ Kind \in {"btrfs", "copy"}
  /\ MaxFailures \in Nat /\ MaxCrashes \in Nat /\ MaxEvictions \in Nat
  /\ None \notin Jobs

VARIABLES
  meta,    \* rows of states
  old,     \* rows past cache.capacity.minStateAge
  disk,    \* disk[s]: the state directory: does it exist, what does it hold
  marker,  \* marker[s]: .build.ok exists
  lock,    \* lock[s]: the job that created .build.lock, or None
  inst,    \* rows of instances: job, state it is labelled with, its contents
  pc,      \* control point of each job
  step,    \* the state_execute task the job is at
  hit,     \* the tasks planning found cached
  rt,      \* jobRunner.rt: running or not, contents, does it hold .build.ok
  bad,     \* the callback of withStateBuildLock has failed
  evict,   \* holder of the eviction lock, candidates, state whose row is left
  count    \* failures, crashes and evictions so far

store == <<meta, old, disk, marker, lock, inst>>
run   == <<pc, step, hit, rt, bad>>
vars  == <<store, run, evict, count>>

-----------------------------------------------------------------------------
Steps   == 1..N
NoDir   == [dir |-> FALSE, data |-> {}]
Off     == [on |-> FALSE, data |-> {}, mark |-> FALSE]
Idle    == [by |-> None, todo |-> {}, gone |-> 0]
Rooms   == {"room", "roomSnap", "roomEnd"}
Locked  == {"recheck", "runtime", "exec", "roomSnap", "snap", "copy", "commit",
            "mark", "roomEnd"}
Ended   == {"done", "failed"}
Points  == {"idle", "plan", "begin", "check", "room", "lock", "busy", "unlock",
            "resume", "instance", "insert"} \cup Locked \cup Ended

Goto(j, p) == pc' = [pc EXCEPT ![j] = p]
Advance(j) == Goto(j, "begin") /\ step' = [step EXCEPT ![j] = @ + 1]

\* A failing task ends the job, and the job stops its runtime; inside
\* withStateBuildLock the lock is removed first.
FailTo(j) ==
  IF pc[j] \in Locked
  THEN Goto(j, "unlock") /\ bad' = [bad EXCEPT ![j] = TRUE] /\ UNCHANGED rt
  ELSE Goto(j, "failed") /\ rt' = [rt EXCEPT ![j] = Off] /\ UNCHANGED bad

\* RemovePath on a state directory; for "copy" marker and lock are inside it.
RemoveStateDir(s) ==
  /\ disk' = [disk EXCEPT ![s] = NoDir]
  /\ marker' = IF Kind = "copy" THEN [marker EXCEPT ![s] = FALSE] ELSE marker
  /\ lock' = IF Kind = "copy" THEN [lock EXCEPT ![s] = None] ELSE lock

\* EnsureStateDir makes the directory for "copy", its parent for "btrfs".
EnsuredDir(d) == IF Kind = "copy" THEN [d EXCEPT !.dir = TRUE] ELSE d

Init ==
  /\ meta = 1..Preloaded /\ old = 1..Preloaded
  /\ disk = [s \in Steps |-> IF s <= Preloaded
                             THEN [dir |-> TRUE, data |-> 1..s] ELSE NoDir]
  /\ marker = [s \in Steps |-> s <= Preloaded]
  /\ lock = [s \in Steps |-> None]
  /\ inst = {}
  /\ pc = [j \in Jobs |-> "idle"]
  /\ step = [j \in Jobs |-> 1]
  /\ hit = [j \in Jobs |-> {}]
  /\ rt = [j \in Jobs |-> Off]
  /\ bad = [j \in Jobs |-> FALSE]
  /\ evict = Idle
  /\ count = [failures |-> 0, crashes |-> 0, evictions |-> 0]

-----------------------------------------------------------------------------
(* Runtimes.  A runtime is a clone of the base directory or of a state     *)
(* directory, markers included.                                            *)

Startable(s) == s = 0 \/ (s \in meta /\ disk[s].dir /\ disk[s].data # {})

Cloned(s) == [on |-> TRUE,
              data |-> IF s = 0 THEN {} ELSE disk[s].data,
              mark |-> s # 0 /\ Kind = "copy" /\ marker[s]]

\* A runtime the job already has is used as it is.
EnsureRuntime(j, s) == rt' = [rt EXCEPT ![j] = IF @.on THEN @ ELSE Cloned(s)]

-----------------------------------------------------------------------------
(* Planning and the task loop.                                             *)

\* Planning an lb job runs updateSQL in a runtime of the base image, which
\* the job keeps.
PlanStart(j) ==
  /\ pc[j] = "idle"
  /\ IF j \in Liquibase THEN EnsureRuntime(j, 0) ELSE UNCHANGED rt
  /\ Goto(j, "plan")
  /\ UNCHANGED <<store, step, hit, bad, evict, count>>

PlanStep(j) ==
  /\ pc[j] = "plan"
  /\ hit' = [hit EXCEPT ![j] = IF step[j] \in meta THEN @ \cup {step[j]} ELSE @]
  /\ IF step[j] = Last[j]
     THEN Goto(j, "begin") /\ step' = [step EXCEPT ![j] = 1]
     ELSE step' = [step EXCEPT ![j] = @ + 1] /\ UNCHANGED pc
  /\ UNCHANGED <<store, rt, bad, evict, count>>

\* Mutant: the loop runs one task too far.
BeginTask_OffByOne(j) ==
  /\ pc[j] = "begin"
  /\ IF step[j] > Last[j] + 1 THEN Goto(j, "instance") /\ UNCHANGED step
     ELSE IF step[j] \in hit[j] \cap meta THEN Advance(j)
     ELSE Goto(j, "check") /\ UNCHANGED step
  /\ UNCHANGED <<store, hit, rt, bad, evict, count>>

\* runJob skips a task that planning found cached and that still is.
BeginTask(j) ==
  /\ pc[j] = "begin"
  /\ IF step[j] > Last[j] THEN Goto(j, "instance") /\ UNCHANGED step
     ELSE IF step[j] \in hit[j] \cap meta THEN Advance(j)
     ELSE Goto(j, "check") /\ UNCHANGED step
  /\ UNCHANGED <<store, hit, rt, bad, evict, count>>

-----------------------------------------------------------------------------
(* executeStateTask.                                                       *)

\* A cached state releases the runtime the job has.
CheckCache(j) ==
  /\ pc[j] = "check"
  /\ IF step[j] \in meta
     THEN rt' = [rt EXCEPT ![j] = Off] /\ Advance(j)
     ELSE Goto(j, "room") /\ UNCHANGED <<rt, step>>
  /\ UNCHANGED <<store, hit, bad, evict, count>>

\* ensureCacheCapacity without pressure, or after eviction has made room.
RoomFound(j) ==
  LET s == step[j] IN
  CASE pc[j] = "room"     -> Goto(j, "lock") /\ disk' = [disk EXCEPT ![s] = EnsuredDir(@)]
    [] pc[j] = "roomSnap" -> Goto(j, "snap") /\ UNCHANGED disk
    [] OTHER              -> Goto(j, "unlock") /\ UNCHANGED disk

HasRoom(j) ==
  /\ pc[j] \in Rooms /\ evict.by # j
  /\ RoomFound(j)
  /\ UNCHANGED <<meta, old, marker, lock, inst, step, hit, rt, bad, evict, count>>

\* Mutant: the lock file is opened without O_EXCL.
TakeLock_NotExclusive(j) ==
  /\ pc[j] = "lock"
  /\ lock' = [lock EXCEPT ![step[j]] = j]
  /\ Goto(j, "recheck")
  /\ UNCHANGED <<meta, old, disk, marker, inst, step, hit, rt, bad, evict, count>>

\* withStateBuildLock: create the lock file; it exists; or, for "copy", its
\* directory is gone.
TakeLock(j) ==
  LET s == step[j] IN
  /\ pc[j] = "lock"
  /\ \/ /\ Kind = "copy" /\ ~disk[s].dir
        /\ FailTo(j) /\ UNCHANGED lock
     \/ /\ Kind = "copy" => disk[s].dir
        /\ lock[s] = None
        /\ lock' = [lock EXCEPT ![s] = j]
        /\ Goto(j, "recheck") /\ UNCHANGED <<rt, bad>>
     \/ /\ lock[s] # None
        /\ Goto(j, "busy") /\ UNCHANGED <<lock, rt, bad>>
  /\ UNCHANGED <<meta, old, disk, marker, inst, step, hit, evict, count>>

\* Mutant: a waiter takes a held lock for a finished build.
LockBusy_NoMarker(j) ==
  /\ pc[j] = "busy"
  /\ Advance(j)
  /\ UNCHANGED <<store, hit, rt, bad, evict, count>>

\* The lock was held: with a marker the waiter removes the lock and returns
\* success, else it tries again.
LockBusy(j) ==
  LET s == step[j] IN
  /\ pc[j] = "busy"
  /\ IF marker[s]
     THEN lock' = [lock EXCEPT ![s] = None] /\ Advance(j)
     ELSE Goto(j, "lock") /\ UNCHANGED <<lock, step>>
  /\ UNCHANGED <<meta, old, disk, marker, inst, hit, rt, bad, evict, count>>

\* Mutant: a job that has got the lock builds without looking for the state again.
Recheck_NoLook(j) ==
  LET s == step[j] IN
  /\ pc[j] = "recheck"
  /\ Goto(j, "runtime")
  /\ IF Kind = "btrfs" THEN RemoveStateDir(s) ELSE UNCHANGED <<disk, marker, lock>>
  /\ UNCHANGED <<meta, old, inst, step, hit, rt, bad, evict, count>>

\* Under the lock: look again; the leftovers of an earlier build are removed
\* for "btrfs", and for "copy" if they hold a marker.
Recheck(j) ==
  LET s == step[j] IN
  /\ pc[j] = "recheck"
  /\ IF s \in meta THEN Goto(j, "unlock") /\ UNCHANGED <<disk, marker, lock>>
     ELSE /\ Goto(j, "runtime")
          /\ IF Kind = "btrfs" THEN RemoveStateDir(s)
             ELSE IF ~marker[s] THEN UNCHANGED <<disk, marker, lock>>
             ELSE /\ disk' = [disk EXCEPT ![s] = EnsuredDir(NoDir)]
                  /\ marker' = [marker EXCEPT ![s] = FALSE]
                  /\ lock' = [lock EXCEPT ![s] = None]
  /\ UNCHANGED <<meta, old, inst, step, hit, rt, bad, evict, count>>

\* Mutant: a later step is run on the base image instead of the state before it.
StartRuntime_Base(j) ==
  /\ pc[j] = "runtime"
  /\ EnsureRuntime(j, 0) /\ Goto(j, "exec")
  /\ UNCHANGED <<store, step, hit, bad, evict, count>>

StartRuntime(j) ==
  /\ pc[j] = "runtime"
  /\ IF rt[j].on \/ Startable(step[j] - 1)
     THEN EnsureRuntime(j, step[j] - 1) /\ Goto(j, "exec") /\ UNCHANGED bad
     ELSE FailTo(j)
  /\ UNCHANGED <<store, step, hit, evict, count>>

\* psql runs the scripts of the step; Liquibase runs update-count 1, the first
\* changeset the database does not have.
Applied(j, data) ==
  IF j \notin Liquibase THEN data \cup {step[j]}
  ELSE data \cup {s \in Steps \ data : \A u \in Steps \ data : s <= u}

ExecuteStep(j) ==
  /\ pc[j] = "exec"
  /\ rt' = [rt EXCEPT ![j].data = Applied(j, @)]
  /\ Goto(j, "roomSnap")
  /\ UNCHANGED <<store, step, hit, bad, evict, count>>

\* Snapshot: "btrfs" refuses an existing subvolume; "copy" copies .build.ok of
\* the runtime first, then the data.
SnapshotStart(j) ==
  LET s == step[j] IN
  /\ pc[j] = "snap"
  /\ IF Kind = "btrfs" /\ disk[s].dir
     THEN FailTo(j) /\ UNCHANGED <<disk, marker>>
     ELSE /\ disk' = [disk EXCEPT ![s] = [dir |-> TRUE, data |-> {}]]
          /\ marker' = [marker EXCEPT ![s] = @ \/ rt[j].mark]
          /\ Goto(j, "copy") /\ UNCHANGED <<rt, bad>>
  /\ UNCHANGED <<meta, old, lock, inst, step, hit, evict, count>>

SnapshotEnd(j) ==
  /\ pc[j] = "copy"
  /\ disk' = [disk EXCEPT ![step[j]] = [dir |-> TRUE, data |-> rt[j].data]]
  /\ Goto(j, "commit")
  /\ UNCHANGED <<meta, old, marker, lock, inst, step, hit, rt, bad, evict, count>>

\* CreateState is INSERT OR IGNORE.
Commit(j) ==
  /\ pc[j] = "commit"
  /\ meta' = meta \cup {step[j]}
  /\ Goto(j, "mark")
  /\ UNCHANGED <<old, disk, marker, lock, inst, step, hit, rt, bad, evict, count>>

WriteMarker(j) ==
  LET s == step[j] IN
  /\ pc[j] = "mark"
  /\ marker' = [marker EXCEPT ![s] = TRUE]
  /\ disk' = [disk EXCEPT ![s] = EnsuredDir(@)]
  /\ Goto(j, "roomEnd")
  /\ UNCHANGED <<meta, old, lock, inst, step, hit, rt, bad, evict, count>>

\* Mutant: a failed build keeps its lock file.
Unlock_KeepsOnFailure(j) ==
  /\ pc[j] = "unlock"
  /\ lock' = IF bad[j] THEN lock ELSE [lock EXCEPT ![step[j]] = None]
  /\ IF bad[j] THEN /\ Goto(j, "failed") /\ rt' = [rt EXCEPT ![j] = Off]
                    /\ UNCHANGED step
     ELSE Advance(j) /\ UNCHANGED rt
  /\ UNCHANGED <<meta, old, disk, marker, inst, hit, bad, evict, count>>

\* The deferred os.Remove takes the lock file away, whoever created it.
Unlock(j) ==
  /\ pc[j] = "unlock"
  /\ lock' = [lock EXCEPT ![step[j]] = None]
  /\ IF bad[j] THEN /\ Goto(j, "failed") /\ rt' = [rt EXCEPT ![j] = Off]
                    /\ UNCHANGED step
     ELSE Advance(j) /\ UNCHANGED rt
  /\ UNCHANGED <<meta, old, disk, marker, inst, hit, bad, evict, count>>

-----------------------------------------------------------------------------
(* createInstance: the job's runtime if it has one, else a clone of its    *)
(* last state; then the row, which needs the state's row.                  *)

\* Mutant: the instance is started from the base image.
PrepareInstance_Base(j) ==
  /\ pc[j] = "instance"
  /\ EnsureRuntime(j, 0) /\ Goto(j, "insert")
  /\ UNCHANGED <<store, step, hit, bad, evict, count>>

PrepareInstance(j) ==
  /\ pc[j] = "instance"
  /\ IF rt[j].on \/ Startable(Last[j])
     THEN EnsureRuntime(j, Last[j]) /\ Goto(j, "insert") /\ UNCHANGED bad
     ELSE FailTo(j)
  /\ UNCHANGED <<store, step, hit, evict, count>>

InsertInstance(j) ==
  /\ pc[j] = "insert"
  /\ IF Last[j] \in meta
     THEN /\ inst' = inst \cup {[job |-> j, state |-> Last[j], data |-> rt[j].data]}
          /\ Goto(j, "done") /\ UNCHANGED <<rt, bad>>
     ELSE FailTo(j) /\ UNCHANGED inst
  /\ UNCHANGED <<meta, old, disk, marker, lock, step, hit, evict, count>>

-----------------------------------------------------------------------------
(* Eviction, inside ensureCacheCapacity and under a lock of its own: read  *)
(* the candidates once, then remove directory and row of one after another *)
(* until there is room.                                                    *)

Age(s) ==
  /\ s \in meta \ old
  /\ old' = old \cup {s}
  /\ UNCHANGED <<meta, disk, marker, lock, inst, run, evict, count>>

Referenced(s) == \E i \in inst : i.state = s

Candidates(j) ==
  {s \in old : /\ ~Referenced(s)
               /\ s + 1 \notin meta
               /\ ~(pc[j] = "roomEnd" /\ s = step[j])}

EvictBegin(j) ==
  /\ pc[j] \in Rooms /\ evict.by = None /\ count.evictions < MaxEvictions
  /\ evict' = [by |-> j, todo |-> Candidates(j), gone |-> 0]
  /\ count' = [count EXCEPT !.evictions = @ + 1]
  /\ UNCHANGED <<store, run>>

EvictDir(j) ==
  /\ evict.by = j /\ evict.gone = 0
  /\ \E s \in evict.todo :
       /\ RemoveStateDir(s)
       /\ evict' = [evict EXCEPT !.todo = @ \ {s}, !.gone = s]
  /\ UNCHANGED <<meta, old, inst, run, count>>

\* DeleteState fails on a state that an instance references; eviction goes on.
EvictRow(j) ==
  /\ evict.by = j /\ evict.gone # 0
  /\ LET row == IF Referenced(evict.gone) THEN {} ELSE {evict.gone}
     IN  meta' = meta \ row /\ old' = old \ row
  /\ evict' = [evict EXCEPT !.gone = 0]
  /\ UNCHANGED <<disk, marker, lock, inst, run, count>>

EvictEnd(j) ==
  /\ evict.by = j /\ evict.gone = 0
  /\ evict' = Idle
  /\ RoomFound(j)
  /\ UNCHANGED <<meta, old, marker, lock, inst, step, hit, rt, bad, count>>

-----------------------------------------------------------------------------
(* Failures and crashes.                                                   *)

Failure == /\ count.failures < MaxFailures
           /\ count' = [count EXCEPT !.failures = @ + 1]

\* The step is cancelled, runs out of space, or its process fails.
Fail(j) ==
  /\ pc[j] \notin Ended \cup {"unlock", "resume"} /\ evict.by # j
  /\ Failure /\ FailTo(j)
  /\ UNCHANGED <<store, step, hit, evict>>

\* Eviction has not made enough room.
EvictFails(j) ==
  /\ evict.by = j /\ evict.gone = 0
  /\ Failure /\ FailTo(j)
  /\ evict' = Idle
  /\ UNCHANGED <<store, step, hit>>

\* CreateState fails although the job is not cancelled: the directory goes.
CommitFails(j) ==
  /\ pc[j] = "commit"
  /\ Failure /\ FailTo(j) /\ RemoveStateDir(step[j])
  /\ UNCHANGED <<meta, old, inst, step, hit, evict>>

\* The engine dies and is started again.  The task list is in the queue once
\* planning has ended.
Crash ==
  /\ count.crashes < MaxCrashes
  /\ count' = [count EXCEPT !.crashes = @ + 1]
  /\ pc' = [j \in Jobs |->
              IF pc[j] \in Ended THEN pc[j]
              ELSE IF pc[j] \in {"idle", "plan"} THEN "idle"
              ELSE IF pc[j] \in {"begin", "instance", "insert"} THEN "begin"
              ELSE "resume"]
  /\ step' = [j \in Jobs |-> IF pc[j] = "plan" THEN 1 ELSE step[j]]
  /\ hit' = [j \in Jobs |-> IF pc[j] = "plan" THEN {} ELSE hit[j]]
  /\ rt' = [j \in Jobs |-> Off]
  /\ bad' = [j \in Jobs |-> FALSE]
  /\ evict' = Idle
  /\ UNCHANGED store

\* A state_execute task left running is done if its state is cached.
Resume(j) ==
  /\ pc[j] = "resume"
  /\ IF step[j] \in meta THEN Advance(j) ELSE Goto(j, "begin") /\ UNCHANGED step
  /\ UNCHANGED <<store, hit, rt, bad, evict, count>>

-----------------------------------------------------------------------------
JobStep(j) ==
  \/ PlanStart(j) \/ PlanStep(j) \/ BeginTask(j) \/ CheckCache(j) \/ HasRoom(j)
  \/ TakeLock(j) \/ LockBusy(j) \/ Recheck(j) \/ StartRuntime(j) \/ ExecuteStep(j)
  \/ SnapshotStart(j) \/ SnapshotEnd(j) \/ Commit(j) \/ WriteMarker(j) \/ Unlock(j)
  \/ PrepareInstance(j) \/ InsertInstance(j) \/ Resume(j)
  \/ EvictDir(j) \/ EvictRow(j) \/ EvictEnd(j)

Next ==
  \/ \E j \in Jobs : JobStep(j) \/ EvictBegin(j) \/ Fail(j) \/ EvictFails(j)
                     \/ CommitFails(j)
  \/ \E s \in Steps : Age(s)
  \/ Crash

Spec == Init /\ [][Next]_vars

\* The goroutine of every job is scheduled and its calls return.
FairSpec == Spec /\ \A j \in Jobs : WF_vars(JobStep(j))

-----------------------------------------------------------------------------
(* Properties.                                                             *)

Data == SUBSET Steps

\* Type correctness of every variable.
TypeOK ==
  /\ meta \subseteq Steps /\ old \subseteq meta
  /\ disk \in [Steps -> [dir : BOOLEAN, data : Data]]
  /\ marker \in [Steps -> BOOLEAN]
  /\ lock \in [Steps -> Jobs \cup {None}]
  /\ inst \subseteq [job : Jobs, state : Steps, data : Data]
  /\ pc \in [Jobs -> Points]
  /\ step \in [Jobs -> 1..(N + 1)]
  /\ \A j \in Jobs : step[j] <= Last[j] \/ pc[j] \in {"begin", "instance", "insert"} \cup Ended
  /\ hit \in [Jobs -> Data]
  /\ rt \in [Jobs -> [on : BOOLEAN, data : Data, mark : BOOLEAN]]
  /\ bad \in [Jobs -> BOOLEAN]
  /\ evict \in [by : Jobs \cup {None}, todo : Data, gone : 0..N]
  /\ count \in [failures : Nat, crashes : Nat, evictions : Nat]

Building(j, s) ==
  step[j] = s /\ pc[j] \in {"runtime", "exec", "roomSnap", "snap", "copy", "commit", "mark"}

\* Lock and marker lie outside the state directory, and nothing has been evicted.
Undisturbed == Kind = "btrfs" /\ count.evictions = 0

\* No two jobs build the same state at the same time.
ExclusiveBuild ==
  \A s \in Steps, j, k \in Jobs : Building(j, s) /\ Building(k, s) => j = k

\* withStateBuildLock gives that on btrfs until something is evicted: a waiter that finds
\* the marker removes a lock file it does not own, which never frees a state that is
\* still being built (after an eviction the marker of the old build is left and does).
BuiltByOne == Undisturbed => ExclusiveBuild

\* A row of states stands for a directory that is there and filled.
CachedPresent ==
  \A s \in meta : disk[s].dir /\ disk[s].data # {}

\* A row of states never stands for a directory that is missing or half copied, whatever
\* builds, failures and crashes have come before; eviction, which removes the directory
\* before the row, is the exception.
RowsWhole == Undisturbed => CachedPresent

\* More than that: what executeStateTask has committed holds exactly the steps of
\* its chain, so no job has snapshotted a runtime that was not the one its step
\* needed.
CachedIntact ==
  \A s \in meta : evict.gone # s => disk[s] = [dir |-> TRUE, data |-> 1..s]

\* createInstance: an instance is a copy of the state it is labelled with, also
\* when it takes over the runtime its job carried from the last step.
InstanceFaithful ==
  \A i \in inst : i.data = 1..i.state

StepCached ==
  \A j \in Jobs : step'[j] > step[j] /\ pc[j] # "plan" => step[j] \in meta'

\* A state_execute task that ends without an error leaves its state in the cache,
\* on every path through executeStateTask: found, built, waited for or resumed.
StepLeavesState == [][Undisturbed => StepCached]_vars

JobEnded(j) == pc[j] \in Ended

\* Every job ends, in an instance or in an error: withStateBuildLock gives the lock
\* back on every path, so that no job polls for it for ever.
EveryJobEnds ==
  \A j \in Jobs : <>JobEnded(j)
=============================================================================
