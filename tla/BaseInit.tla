------------------------------ MODULE BaseInit ------------------------------
(***************************************************************************)
(* The base directory of an image: the first prepare jobs that need it run *)
(* initdb in it, once, under the lock file .init.lock, and leave the       *)
(* marker .init.ok (internal/prepare/execution.go, ensureBaseState and     *)
(* withInitLock; internal/runtime/docker.go, InitBase).  Lock, marker and  *)
(* data survive a crash of the engine; the jobs are run again after it.    *)
(***************************************************************************)
EXTENDS Naturals, FiniteSets

CONSTANTS
    Jobs,        \* jobs that start from the same image
    MaxFails,    \* bound on failing calls
    MaxCrashes   \* bound on crashes of the engine

ASSUME BaseAssumption == MaxFails \in Nat /\ MaxCrashes \in Nat

VARIABLES
    btrfs,     \* whether the backend keeps the base directory as a subvolume
    dir,       \* the base directory: "none", "ok", or "foreign" (left by another backend)
    foreign,   \* history: dir was "foreign" at the start
    lock,      \* .init.lock exists
    marker,    \* .init.ok exists
    data,      \* "none"; "partial": PG_VERSION written, initdb not finished; "full"
    pc,        \* pc[j]: where job j is in ensureBaseState
    fails, crashes,
    spoilt     \* history: an initdb was cut short with PG_VERSION in place, or PG_VERSION could not be inspected

vars == <<btrfs, dir, foreign, lock, marker, data, pc, fails, crashes, spoilt>>
fixed == <<btrfs, foreign>>

Goto(j, label) == pc' = [pc EXCEPT ![j] = label]
Fail == fails < MaxFails /\ fails' = fails + 1

(***************************************************************************)
(* ensureBaseState up to the lock.                                         *)
(***************************************************************************)
EnsureBaseState(j) ==
    /\ pc[j] = "idle"
    /\ Goto(j, IF marker THEN "use" ELSE "ensure")
    /\ UNCHANGED <<fixed, dir, lock, marker, data, fails, crashes, spoilt>>

\* EnsureBaseDir without subvolumes: mkdir -p.
MkdirBase(j) ==
    /\ pc[j] = "ensure" /\ ~btrfs
    /\ dir' = "ok"
    /\ Goto(j, "lock")
    /\ UNCHANGED <<fixed, lock, marker, data, fails, crashes, spoilt>>

\* EnsureSubvolume looks at the path and acts on what it saw.
StatSubvolume(j) ==
    /\ pc[j] = "ensure" /\ btrfs
    /\ Goto(j, CASE dir = "none" -> "create" [] dir = "ok" -> "lock" [] dir = "foreign" -> "wipe")
    /\ UNCHANGED <<fixed, dir, lock, marker, data, fails, crashes, spoilt>>

\* A path that is not a subvolume is removed with everything in it.
WipeForeign(j) ==
    /\ pc[j] = "wipe"
    /\ dir' = "none" /\ lock' = FALSE /\ marker' = FALSE /\ data' = "none"
    /\ Goto(j, "create")
    /\ UNCHANGED <<fixed, fails, crashes, spoilt>>

\* "btrfs subvolume create" fails when another job has created it meanwhile.
CreateSubvolume(j) ==
    /\ pc[j] = "create"
    /\ dir' = "ok"
    /\ Goto(j, IF dir = "none" THEN "lock" ELSE "failed")
    /\ UNCHANGED <<fixed, lock, marker, data, fails, crashes, spoilt>>

(***************************************************************************)
(* withInitLock: O_CREATE|O_EXCL, retried every 50 ms.  A waiter that sees *)
(* the marker removes the lock file, whoever holds it.                     *)
(***************************************************************************)
TakeLock(j) ==
    /\ pc[j] = "lock" /\ dir # "none"
    /\ ~lock
    /\ lock' = TRUE
    /\ Goto(j, "locked")
    /\ UNCHANGED <<fixed, dir, marker, data, fails, crashes, spoilt>>

SkipLock(j) ==
    /\ pc[j] = "lock" /\ lock
    /\ marker
    /\ lock' = FALSE
    /\ Goto(j, "use")
    /\ UNCHANGED <<fixed, dir, marker, data, fails, crashes, spoilt>>

\* The lock is busy and there is no marker yet: sleep and try again.
Poll(j) ==
    /\ pc[j] = "lock" /\ lock /\ ~marker
    /\ UNCHANGED vars

\* The directory is gone (a wipe), or the job's context has been cancelled while it waited.
GiveUp(j) ==
    /\ pc[j] = "lock"
    /\ \/ dir = "none" /\ UNCHANGED fails
       \/ Fail
    /\ Goto(j, "failed")
    /\ UNCHANGED <<fixed, dir, lock, marker, data, crashes, spoilt>>

(***************************************************************************)
(* The callback under the lock.                                            *)
(***************************************************************************)
UnderLock_NoRecheck(j) ==      \* mutant: neither the marker nor PG_VERSION is looked at again
    /\ pc[j] = "locked"
    /\ Goto(j, "reset")
    /\ UNCHANGED <<fixed, dir, lock, marker, data, fails, crashes, spoilt>>
UnderLock(j) ==
    /\ pc[j] = "locked"
    /\ \/ Goto(j, CASE marker -> "unlock" [] ~marker /\ data # "none" -> "mark" [] OTHER -> "reset")
          /\ UNCHANGED <<fails, spoilt>>
       \/ /\ ~marker /\ Fail /\ Goto(j, "mark")     \* PG_VERSION cannot be inspected: taken as present
          /\ spoilt' = TRUE
    /\ UNCHANGED <<fixed, dir, lock, marker, data, crashes>>

\* resetBaseDirContents removes everything but the lock file; then docker run ... initdb starts.
ResetAndInitdb(j) ==
    /\ pc[j] = "reset"
    /\ \/ /\ marker' = FALSE /\ data' = "partial"
          /\ Goto(j, "initdb")
          /\ UNCHANGED fails
       \/ Fail /\ marker' = FALSE /\ data' = "none" /\ Goto(j, "unlockfail")
    /\ UNCHANGED <<fixed, dir, lock, crashes, spoilt>>

\* initdb ends.  A failing initdb removes what it wrote, unless it was killed; then PG_VERSION is
\* still there, and InitBase reports success when it can see it, an error when docker does not answer.
InitdbDone(j) ==
    /\ pc[j] = "initdb"
    /\ \/ data' = "full" /\ Goto(j, "mark") /\ UNCHANGED <<fails, spoilt>>
       \/ Fail /\ data' = "none" /\ Goto(j, "unlockfail") /\ UNCHANGED spoilt
       \/ Fail /\ spoilt' = TRUE /\ UNCHANGED data /\ pc' \in {[pc EXCEPT ![j] = l] : l \in {"mark", "unlockfail"}}
    /\ UNCHANGED <<fixed, dir, lock, marker, crashes>>

WriteInitMarker(j) ==
    /\ pc[j] = "mark"
    /\ \/ marker' = TRUE /\ Goto(j, "unlock") /\ UNCHANGED fails
       \/ Fail /\ Goto(j, "unlockfail") /\ UNCHANGED marker
    /\ UNCHANGED <<fixed, dir, lock, data, crashes, spoilt>>

\* The deferred os.Remove(lockPath).
Unlock_OnSuccess(j) ==         \* mutant: the lock is removed only when the callback succeeds
    /\ pc[j] \in {"unlock", "unlockfail"}
    /\ lock' = (lock /\ pc[j] = "unlockfail")
    /\ Goto(j, IF pc[j] = "unlock" THEN "use" ELSE "failed")
    /\ UNCHANGED <<fixed, dir, marker, data, fails, crashes, spoilt>>
Unlock(j) ==
    /\ pc[j] \in {"unlock", "unlockfail"}
    /\ lock' = FALSE
    /\ Goto(j, IF pc[j] = "unlock" THEN "use" ELSE "failed")
    /\ UNCHANGED <<fixed, dir, marker, data, fails, crashes, spoilt>>

\* The engine dies; the jobs that were under way are run again by the next one.
Crash ==
    /\ crashes < MaxCrashes
    /\ crashes' = crashes + 1
    /\ spoilt' = (spoilt \/ \E j \in Jobs : pc[j] = "initdb")
    /\ pc' = [j \in Jobs |-> IF pc[j] \in {"use", "failed"} THEN pc[j] ELSE "idle"]
    /\ UNCHANGED <<fixed, dir, lock, marker, data, fails>>

Finished ==
    /\ \A j \in Jobs : pc[j] \in {"use", "failed"}
    /\ UNCHANGED vars

-----------------------------------------------------------------------------
Init ==
    /\ btrfs \in BOOLEAN
    /\ dir \in {"none", "foreign"} /\ foreign = (dir = "foreign") /\ (foreign => btrfs)
    /\ lock = FALSE /\ marker = FALSE /\ data = "none"
    /\ pc = [j \in Jobs |-> "idle"]
    /\ fails = 0 /\ crashes = 0 /\ spoilt = FALSE

Progress(j) ==
    \/ EnsureBaseState(j) \/ MkdirBase(j) \/ StatSubvolume(j) \/ WipeForeign(j) \/ CreateSubvolume(j)
    \/ TakeLock(j) \/ SkipLock(j) \/ GiveUp(j)
    \/ UnderLock(j) \/ ResetAndInitdb(j) \/ InitdbDone(j) \/ WriteInitMarker(j) \/ Unlock(j)

Next == (\E j \in Jobs : Progress(j) \/ Poll(j)) \/ Crash \/ Finished

Spec == Init /\ [][Next]_vars

-----------------------------------------------------------------------------
\* Files, data and jobs take the values ensureBaseState gives them.
TypeOK ==
    /\ btrfs \in BOOLEAN /\ dir \in {"none", "ok", "foreign"} /\ foreign \in BOOLEAN
    /\ lock \in BOOLEAN /\ marker \in BOOLEAN /\ data \in {"none", "partial", "full"}
    /\ pc \in [Jobs -> {"idle", "ensure", "wipe", "create", "lock", "locked", "reset", "initdb", "mark",
                        "unlock", "unlockfail", "use", "failed"}]
    /\ fails \in 0..MaxFails /\ crashes \in 0..MaxCrashes /\ spoilt \in BOOLEAN

\* A job goes on to clone the base directory only when a whole initdb is in it, however many jobs
\* wait for the lock and although waiters remove locks they do not hold.  Two things break the
\* promise in this code and are excluded here: an initdb cut short that left PG_VERSION, or a
\* PG_VERSION that cannot be inspected (spoilt), and a directory of another backend that two jobs
\* wipe (foreign).
UsedComplete ==
    ~spoilt /\ ~foreign => \A j \in Jobs : pc[j] = "use" => data = "full"

\* One job at a time works in the directory: two initdb in one directory destroy each other's files.
InitExclusive ==
    ~foreign => Cardinality({j \in Jobs : pc[j] \in {"reset", "initdb", "mark"}}) <= 1

\* Both: a job clones the base directory only after a whole initdb, and one initdb runs at a time,
\* however many jobs wait and although waiters remove locks they do not hold.
BaseComplete == UsedComplete /\ InitExclusive

\* Job j has got past the initialisation or has failed; after a crash the lock file stays, and the
\* jobs wait.
Settled(j) == pc[j] \in {"use", "failed"} \/ crashes > 0
=============================================================================
