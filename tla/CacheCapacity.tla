--------------------------- MODULE CacheCapacity ---------------------------
(***************************************************************************)
(* Strict enforcement of the cache budget (internal/prepare/capacity.go,   *)
(* ensureCacheCapacity): at start-up, and three times in every step that   *)
(* builds a state, the store is measured, and under pressure least         *)
(* recently used idle leaves are evicted, one caller at a time, until      *)
(* usage is at the low watermark and the reserve is free again.            *)
(*                                                                         *)
(* Jobs of the engine interleave.  The measurement that decides a pass is  *)
(* taken before the lock is, so another pass may come between them.  Only  *)
(* the state just committed is protected, not the one a job builds on.     *)
(* The lock is a file: a crash leaves it behind, and a lock file that is   *)
(* five minutes old is removed by whoever waits for it.                    *)
(***************************************************************************)
EXTENDS Integers, Sequences, FiniteSets, FiniteSetsExt

CONSTANTS
    Jobs,         \* prepare jobs, each with one step to build
    Startup,      \* the caller in Recover
    Old,          \* states of the cache at the start
    NewState,     \* NewState[j]: the state job j adds
    Base,         \* Base[j]: the state job j builds on, or NoState
    Parent,       \* Parent[s]: parent of an old state, or NoState
    Size,         \* Size[s]: bytes of a state
    LastUsed,     \* LastUsed[s]: when a state was last used
    Referenced,   \* old states with an instance
    NoState,
    Disk, MaxBytes, Reserve,   \* bytes of the disk, of maxBytes and reserveBytes
    HighPct, LowPct,           \* the watermarks in percent
    MinAge,       \* minStateAge is long enough to spare every new state
    MaxFaults,    \* bound: failed measurements, queries and removals
    MaxCrashes    \* bound: engine crashes

VARIABLES
    pc,           \* pc[p]: where caller p is in ensureCacheCapacity
    phase,        \* phase[j]: which of the checks of its step job j is in
    lock,         \* evict.lock: "none", "fresh" or "stale"
    aged,         \* history: a lock file has become five minutes old
    rows, dirs,   \* states of the store and state directories of the disk
    list,         \* list[p]: candidates p has still to consider
    usage, free,  \* usage[p], free[p]: bytes p last measured, in a pass
    unneeded,     \* unneeded[p]: states the pass of p has removed from a store that was relieved
    faults, crashes

vars == <<pc, phase, lock, aged, rows, dirs, list, usage, free, unneeded, faults, crashes>>

Callers == Jobs \cup {Startup}
States == Old \cup {NewState[j] : j \in Jobs}
Holding == {"list", "loop", "dir", "measure", "unlock"}
Steps == {"down", "idle", "open", "stat", "remove", "recheck", "passed", "built", "refused"} \cup Holding
Phases == {"prepare_step", "snapshot", "metadata_commit"}

-----------------------------------------------------------------------------
(* Sizes and candidates.                                                   *)
EffectiveMax ==
    LET store == Max({0, Disk - Reserve})
    IN  IF MaxBytes > 0 THEN Min({MaxBytes, store}) ELSE store

HighBytes == (EffectiveMax * HighPct) \div 100
LowBytes == (EffectiveMax * LowPct) \div 100

Bytes(S) == MapThenSumSet(LAMBDA s : Size[s], S)
MeasureCacheUsage == Bytes(dirs)
FreeBytes == Disk - MeasureCacheUsage

IsCapacityPressure(u, f) == u > HighBytes \/ f < Reserve
Relieved(u, f) == u <= LowBytes /\ f >= Reserve

Young(s) == MinAge /\ s \notin Old
HasChildren(s) ==
    \/ \E c \in rows \cap Old : Parent[c] = s
    \/ \E j \in Jobs : NewState[j] \in rows /\ Base[j] = s

Protected(p) ==
    IF p # Startup /\ phase[p] = "metadata_commit" THEN {NewState[p]} ELSE {}
Eligible(p) ==
    {s \in rows \ Protected(p) : s \notin Referenced /\ ~HasChildren(s) /\ ~Young(s)}

Goes(a, b) ==
    \/ LastUsed[a] < LastUsed[b]
    \/ LastUsed[a] = LastUsed[b] /\ Size[a] > Size[b]

(* Least recently used first, and among those the largest.                 *)
InOrder(q) == \A i, k \in DOMAIN q : i < k => q[i] # q[k] /\ ~Goes(q[k], q[i])

ListEvictionCandidates(p) ==
    CHOOSE q \in [1..Cardinality(Eligible(p)) -> Eligible(p)] : InOrder(q)

-----------------------------------------------------------------------------
Init ==
    /\ pc = [p \in Callers |-> IF p = Startup THEN "idle" ELSE "down"]
    /\ phase = [j \in Jobs |-> "prepare_step"]
    /\ lock = "none"
    /\ aged = FALSE
    /\ rows = Old /\ dirs = Old
    /\ list = [p \in Callers |-> <<>>]
    /\ usage = [p \in Callers |-> 0] /\ free = [p \in Callers |-> 0]
    /\ unneeded = [p \in Callers |-> 0]
    /\ faults = 0 /\ crashes = 0

Goto(p, step) == pc' = [pc EXCEPT ![p] = step]
Fault == faults < MaxFaults /\ faults' = faults + 1
Measure(p) ==
    /\ usage' = [usage EXCEPT ![p] = MeasureCacheUsage]
    /\ free' = [free EXCEPT ![p] = FreeBytes]
Forget(p) ==
    /\ usage' = [usage EXCEPT ![p] = 0] /\ free' = [free EXCEPT ![p] = 0]
    /\ list' = [list EXCEPT ![p] = <<>>]

(* The first measurement, before the lock.                                 *)
Check(p) ==
    /\ pc[p] = "idle"
    /\ IF EffectiveMax <= 0 THEN Goto(p, "refused") /\ UNCHANGED <<usage, free>>
       ELSE IF IsCapacityPressure(MeasureCacheUsage, FreeBytes) THEN Goto(p, "open") /\ Measure(p)
       ELSE Goto(p, "passed") /\ UNCHANGED <<usage, free>>
    /\ UNCHANGED <<phase, lock, aged, rows, dirs, list, unneeded, faults, crashes>>

(* Mutant: the lock file is opened without O_EXCL.                         *)
OpenLock_NotExclusive(p) ==
    /\ pc[p] = "open"
    /\ Goto(p, "list")
    /\ lock' = "fresh"
    /\ UNCHANGED <<phase, aged, rows, dirs, list, usage, free, unneeded, faults, crashes>>

(* withEvictLock: O_CREATE|O_EXCL, or a look at the file in the way.       *)
OpenLock(p) ==
    /\ pc[p] = "open"
    /\ IF lock = "none" THEN Goto(p, "list") /\ lock' = "fresh"
       ELSE Goto(p, "stat") /\ UNCHANGED lock
    /\ UNCHANGED <<phase, aged, rows, dirs, list, usage, free, unneeded, faults, crashes>>

(* Mutant: a lock is never taken for stale.                                *)
StatLock_Never(p) ==
    /\ pc[p] = "stat"
    /\ Goto(p, "open")
    /\ UNCHANGED <<phase, lock, aged, rows, dirs, list, usage, free, unneeded, faults, crashes>>

(* removeStaleEvictLock: the age is read here, the file removed later.     *)
StatLock(p) ==
    /\ pc[p] = "stat"
    /\ Goto(p, IF lock = "stale" THEN "remove" ELSE "open")
    /\ UNCHANGED <<phase, lock, aged, rows, dirs, list, usage, free, unneeded, faults, crashes>>

RemoveLock(p) ==
    /\ pc[p] = "remove"
    /\ Goto(p, "open")
    /\ lock' = "none"
    /\ UNCHANGED <<phase, aged, rows, dirs, list, usage, free, unneeded, faults, crashes>>

(* Five minutes pass, with the holder alive or not.                        *)
LockAges ==
    /\ lock = "fresh"
    /\ lock' = "stale"
    /\ aged' = TRUE
    /\ UNCHANGED <<pc, phase, rows, dirs, list, usage, free, unneeded, faults, crashes>>

ListStates(p) ==
    /\ pc[p] = "list"
    /\ Goto(p, "loop")
    /\ list' = [list EXCEPT ![p] = ListEvictionCandidates(p)]
    /\ unneeded' = [unneeded EXCEPT ![p] = 0]
    /\ UNCHANGED <<phase, lock, aged, rows, dirs, usage, free, faults, crashes>>

(* The loop of runEviction: enough is free, or the next candidate's        *)
(* directory goes; a failed removal leaves it and the loop goes on.        *)
EvictNext(p) ==
    /\ pc[p] = "loop"
    /\ IF list[p] = <<>> \/ Relieved(usage[p], free[p])
       THEN Goto(p, "unlock") /\ UNCHANGED <<list, dirs, unneeded, faults>>
       ELSE \/ /\ Goto(p, "dir")
               /\ dirs' = dirs \ {Head(list[p])}
               /\ unneeded' = [unneeded EXCEPT ![p] =
                                 @ + (IF Relieved(MeasureCacheUsage, FreeBytes) THEN 1 ELSE 0)]
               /\ UNCHANGED <<list, faults>>
            \/ /\ Fault
               /\ list' = [list EXCEPT ![p] = Tail(@)]
               /\ UNCHANGED <<pc, dirs, unneeded>>
    /\ UNCHANGED <<phase, lock, aged, rows, usage, free, crashes>>

(* Then the row; when that fails the loop goes on with what was measured   *)
(* before.                                                                 *)
EvictRow(p) ==
    /\ pc[p] = "dir"
    /\ list' = [list EXCEPT ![p] = Tail(@)]
    /\ \/ Goto(p, "measure") /\ rows' = rows \ {Head(list[p])} /\ UNCHANGED faults
       \/ Fault /\ Goto(p, "loop") /\ UNCHANGED rows
    /\ UNCHANGED <<phase, lock, aged, dirs, usage, free, unneeded, crashes>>

EvictMeasure(p) ==
    /\ pc[p] = "measure"
    /\ Goto(p, "loop")
    /\ Measure(p)
    /\ UNCHANGED <<phase, lock, aged, rows, dirs, list, unneeded, faults, crashes>>

(* The deferred os.Remove removes whatever lock file is there.             *)
Unlock(p) ==
    /\ pc[p] = "unlock"
    /\ Goto(p, "recheck")
    /\ lock' = "none"
    /\ Forget(p)
    /\ UNCHANGED <<phase, aged, rows, dirs, unneeded, faults, crashes>>

Recheck(p) ==
    /\ pc[p] = "recheck"
    /\ Goto(p, IF IsCapacityPressure(MeasureCacheUsage, FreeBytes) THEN "refused" ELSE "passed")
    /\ UNCHANGED <<phase, lock, aged, rows, dirs, list, usage, free, unneeded, faults, crashes>>

(* A measurement or a query fails, or the context of a job is done while   *)
(* it waits or evicts: the check fails, under the lock by way of the       *)
(* deferred removal.                                                       *)
CheckFails(p) ==
    /\ \/ pc[p] \in {"idle", "list", "measure", "recheck"} /\ Fault
       \/ pc[p] \in {"open", "loop"} /\ p # Startup /\ UNCHANGED faults
    /\ Goto(p, "refused")
    /\ lock' = IF pc[p] \in Holding THEN "none" ELSE lock
    /\ Forget(p)
    /\ UNCHANGED <<phase, aged, rows, dirs, unneeded, crashes>>

-----------------------------------------------------------------------------
(* The step of a job around its three checks: clone the base and run the   *)
(* step; snapshot and commit the state; done.                              *)
StartRuntime(j) ==
    /\ pc[j] = "passed" /\ phase[j] = "prepare_step"
    /\ IF Base[j] = NoState \/ Base[j] \in rows \cap dirs
       THEN Goto(j, "idle") /\ phase' = [phase EXCEPT ![j] = "snapshot"]
       ELSE Goto(j, "refused") /\ UNCHANGED phase
    /\ UNCHANGED <<lock, aged, rows, dirs, list, usage, free, unneeded, faults, crashes>>

CommitState(j) ==
    /\ pc[j] = "passed" /\ phase[j] = "snapshot"
    /\ Goto(j, "idle") /\ phase' = [phase EXCEPT ![j] = "metadata_commit"]
    /\ dirs' = dirs \cup {NewState[j]} /\ rows' = rows \cup {NewState[j]}
    /\ UNCHANGED <<lock, aged, list, usage, free, unneeded, faults, crashes>>

StepDone(j) ==
    /\ pc[j] = "passed" /\ phase[j] = "metadata_commit"
    /\ Goto(j, "built")
    /\ UNCHANGED <<phase, lock, aged, rows, dirs, list, usage, free, unneeded, faults, crashes>>

(* Recover starts the jobs when its own check is through, whatever it      *)
(* said; a job whose state has been committed finds it in the cache.       *)
Recover ==
    /\ pc[Startup] \in {"passed", "refused"}
    /\ pc' = [p \in Callers |->
                IF p = Startup THEN "down" ELSE IF pc[p] # "down" THEN pc[p]
                ELSE IF NewState[p] \in rows THEN "built" ELSE "idle"]
    /\ UNCHANGED <<phase, lock, aged, rows, dirs, list, usage, free, unneeded, faults, crashes>>

(* The engine dies and is started again; the lock file stays.              *)
Crash ==
    /\ crashes < MaxCrashes
    /\ crashes' = crashes + 1
    /\ pc' = [p \in Callers |-> IF p = Startup THEN "idle"
                                ELSE IF pc[p] \in {"built", "refused"} THEN pc[p] ELSE "down"]
    /\ phase' = [j \in Jobs |-> "prepare_step"]
    /\ list' = [p \in Callers |-> <<>>]
    /\ usage' = [p \in Callers |-> 0] /\ free' = [p \in Callers |-> 0]
    /\ unneeded' = [p \in Callers |-> 0]
    /\ UNCHANGED <<lock, aged, rows, dirs, faults>>

Progress(p) ==
    \/ Check(p) \/ OpenLock(p) \/ StatLock(p) \/ RemoveLock(p) \/ ListStates(p)
    \/ EvictNext(p) \/ EvictRow(p) \/ EvictMeasure(p) \/ Unlock(p) \/ Recheck(p)
    \/ p # Startup /\ (StartRuntime(p) \/ CommitState(p) \/ StepDone(p))
    \/ p = Startup /\ Recover

Next == (\E p \in Callers : Progress(p) \/ CheckFails(p)) \/ LockAges \/ Crash

Spec == Init /\ [][Next]_vars

-----------------------------------------------------------------------------
(* Callers, the lock file, rows, directories, candidates, measurements.    *)
TypeOK ==
    /\ pc \in [Callers -> Steps] /\ phase \in [Jobs -> Phases]
    /\ lock \in {"none", "fresh", "stale"} /\ aged \in BOOLEAN
    /\ rows \subseteq States /\ dirs \subseteq States
    /\ list \in [Callers -> Seq(States)]
    /\ usage \in [Callers -> Nat] /\ free \in [Callers -> Int]
    /\ unneeded \in [Callers -> Nat]
    /\ faults \in 0..MaxFaults /\ crashes \in 0..MaxCrashes

(* No two callers evict at once, until some lock file has been there for   *)
(* five minutes (withEvictLock, removeStaleEvictLock).                     *)
EvictExclusive == ~aged => Cardinality({p \in Callers : pc[p] \in Holding}) <= 1

(* The measurement a pass starts with may be older than another pass; the  *)
(* harm is bounded: while the lock is exclusive a pass removes at most one *)
(* state from a store that needed no eviction, and one more for each row   *)
(* it could not remove (runEviction measures only after a whole removal).  *)
FewUnneeded == ~aged => \A p \in Callers : unneeded[p] <= 1 + faults

(* The step that commits a state does not evict it again: neither its own  *)
(* last check nor, within minStateAge, anybody else's.                     *)
CommittedKept ==
    MinAge => \A j \in Jobs : phase[j] = "metadata_commit" \/ pc[j] = "built"
                                 => NewState[j] \in rows \cap dirs

(* What keeps EvictExclusive: until a lock file ages nobody removes one    *)
(* that is not its own, and whoever evicts has it.                         *)
LockRespected ==
    ~aged =>
      /\ lock # "stale" /\ \A p \in Callers : pc[p] # "remove"
      /\ \A p \in Callers : pc[p] \in Holding =>
           lock = "fresh" /\ \A q \in Callers : pc[q] \in Holding => q = p

(* What keeps FewUnneeded: a pass that has removed more states too many    *)
(* than rows have failed has measured since, and since then the store has  *)
(* only grown.                                                             *)
MeasuredSince ==
    ~aged => \A p \in Callers :
      pc[p] = "loop" /\ unneeded[p] > faults =>
        usage[p] <= MeasureCacheUsage /\ FreeBytes <= free[p]

(* What keeps CommittedKept: only old states are candidates, and a new one *)
(* has its row and its directory from its commit on.                       *)
OnlyOldListed ==
    /\ \A p \in Callers : pc[p] = "dir" => list[p] # <<>>
    /\ MinAge => /\ \A p \in Callers : \A i \in 1..Len(list[p]) : list[p][i] \in Old
                 /\ \A j \in Jobs : NewState[j] \in rows => NewState[j] \in dirs

IInv ==
    TypeOK /\ LockRespected /\ MeasuredSince /\ FewUnneeded /\ OnlyOldListed /\ CommittedKept

(* Job j is through with its step.                                         *)
Settled(j) == pc[j] \in {"built", "refused"}
=============================================================================
