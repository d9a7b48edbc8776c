-------------------------- MODULE StateBuildProofs --------------------------
(***************************************************************************)
(* The theorems of StateBuild, for any number of jobs, chains of any       *)
(* length and any bounds: types on every backend; on btrfs, as long as     *)
(* nothing is evicted, one builder per state, rows that stand for whole    *)
(* directories, and steps that leave their state in the cache, through     *)
(* failures, crashes and lock files that nobody owns any more.             *)
(***************************************************************************)
EXTENDS StateBuild, TLAPS

-----------------------------------------------------------------------------
(* Types.  A job that evicts is in ensureCacheCapacity.                    *)

DiskRec == [dir : BOOLEAN, data : Data]
RtRec == [on : BOOLEAN, data : Data, mark : BOOLEAN]
InstRec == [job : Jobs, state : Steps, data : Data]
EvictRec == [by : Jobs \cup {None}, todo : Data, gone : 0..N]
CountRec == [failures : Nat, crashes : Nat, evictions : Nat]
Past == {"begin", "instance", "insert"} \cup Ended

StoreTypes ==
  /\ meta \subseteq Steps /\ old \subseteq meta
  /\ disk \in [Steps -> DiskRec] /\ marker \in [Steps -> BOOLEAN]
  /\ lock \in [Steps -> Jobs \cup {None}]
  /\ inst \subseteq InstRec
RunTypes ==
  /\ pc \in [Jobs -> Points] /\ step \in [Jobs -> 1..(N + 1)]
  /\ \A j \in Jobs : step[j] <= Last[j] \/ pc[j] \in Past
  /\ hit \in [Jobs -> Data] /\ rt \in [Jobs -> RtRec] /\ bad \in [Jobs -> BOOLEAN]
EvictTypes ==
  /\ evict \in EvictRec /\ count \in CountRec
  /\ \A j \in Jobs : evict.by = j => pc[j] \in Rooms

TInv == StoreTypes /\ RunTypes /\ EvictTypes

\* The type invariant is the first two parts and half of the third.
LEMMA TypeParts == TInv => TypeOK
  BY DEF TInv, StoreTypes, RunTypes, EvictTypes, TypeOK, DiskRec, RtRec, InstRec, EvictRec,
     CountRec, Past

\* The empty directory, the absent runtime, nobody evicts.
LEMMA Values == NoDir \in DiskRec /\ Off \in RtRec /\ Idle \in EvictRec /\ Idle.by = None
<1>1. {} \in Data /\ FALSE \in BOOLEAN /\ 0 \in 0..N
  BY BuildAssumption DEF Data
<1> QED
  BY <1>1 DEF NoDir, Off, Idle, DiskRec, RtRec, EvictRec

\* A job that works on a step works on one of the chain.
LEMMA OnStep ==
  ASSUME RunTypes, NEW j \in Jobs, pc[j] \notin Past
  PROVE  step[j] \in Steps /\ step[j] + 1 \in 1..(N + 1) /\ step[j] <= Last[j]
         /\ Last[j] \in Steps
<1>1. step[j] \in 1..(N + 1) /\ Last[j] \in 1..N /\ step[j] <= Last[j] /\ N \in Nat
  BY BuildAssumption DEF RunTypes
<1> QED
  BY <1>1 DEF Steps

\* A runtime cloned from the base or from a state.
LEMMA ClonedType ==
  ASSUME StoreTypes, NEW s, s = 0 \/ s \in Steps
  PROVE  Cloned(s) \in RtRec
<1>1. PICK d \in Data : d = IF s = 0 THEN {} ELSE disk[s].data
  BY DEF StoreTypes, DiskRec, Data
<1>2. (s # 0 /\ Kind = "copy" /\ marker[s]) \in BOOLEAN
  OBVIOUS
<1>3. PICK m \in BOOLEAN : m = (s # 0 /\ Kind = "copy" /\ marker[s])
  BY <1>2
<1>4. Cloned(s) = [on |-> TRUE, data |-> d, mark |-> m]
  BY <1>1, <1>3 DEF Cloned
<1> QED
  BY <1>1, <1>3, <1>4 DEF RtRec

\* What a job runs in is its runtime, or a clone.
LEMMA EnsureType ==
  ASSUME StoreTypes, RunTypes, NEW j \in Jobs, NEW s, s = 0 \/ s \in Steps, EnsureRuntime(j, s)
  PROVE  rt' \in [Jobs -> RtRec]
<1>1. Cloned(s) \in RtRec
  BY ClonedType
<1> QED
  BY <1>1 DEF EnsureRuntime, RunTypes

\* A failing job.
LEMMA FailType ==
  ASSUME RunTypes, NEW j \in Jobs, FailTo(j)
  PROVE  /\ pc' \in [Jobs -> Points] /\ rt' \in [Jobs -> RtRec] /\ bad' \in [Jobs -> BOOLEAN]
         /\ pc'[j] \in Ended \/ (pc[j] \in Locked /\ pc'[j] = "unlock")
         /\ \A k \in Jobs : k # j => pc'[k] = pc[k]
<1>1. Off \in RtRec
  BY Values
<1>2. CASE pc[j] \in Locked
  BY <1>2 DEF FailTo, Goto, RunTypes, Points
<1>3. CASE pc[j] \notin Locked
  BY <1>1, <1>3 DEF FailTo, Goto, RunTypes, Points, Ended
<1> QED
  BY <1>2, <1>3

\* A job goes on: it keeps to its steps, and it is not the one that evicts.
LEMMA Moves ==
  ASSUME TInv, NEW j \in Jobs, NEW p \in Points, pc' = [pc EXCEPT ![j] = p],
         step' \in [Jobs -> 1..(N + 1)], \A k \in Jobs : k # j => step'[k] = step[k],
         step'[j] <= Last[j] \/ p \in Past,
         \/ evict' = Idle
         \/ evict' = evict /\ (pc[j] \notin Rooms \/ evict.by # j),
         count' \in CountRec
  PROVE  /\ pc' \in [Jobs -> Points]
         /\ \A k \in Jobs : step'[k] <= Last[k] \/ pc'[k] \in Past
         /\ EvictTypes'
<1>1. pc' \in [Jobs -> Points] /\ pc'[j] = p /\ \A k \in Jobs : k # j => pc'[k] = pc[k]
  BY DEF TInv, RunTypes
<1>2. \A k \in Jobs : step'[k] <= Last[k] \/ pc'[k] \in Past
  <2> TAKE k \in Jobs
  <2> QED
    BY <1>1 DEF TInv, RunTypes
<1>3. EvictTypes'
  <2>1. CASE evict' = Idle
    BY <2>1, Values, BuildAssumption DEF EvictTypes
  <2>2. CASE evict' = evict /\ (pc[j] \notin Rooms \/ evict.by # j)
    BY <2>2, <1>1 DEF EvictTypes, TInv
  <2> QED
    BY <2>1, <2>2
<1> QED
  BY <1>1, <1>2, <1>3

\* A job goes on at the same step.
LEMMA MovesOn ==
  ASSUME TInv, NEW j \in Jobs, NEW p \in Points, Goto(j, p), step' = step,
         step[j] <= Last[j] \/ p \in Past,
         \/ evict' = Idle
         \/ evict' = evict /\ (pc[j] \notin Rooms \/ evict.by # j),
         count' \in CountRec,
         hit' = hit, rt' \in [Jobs -> RtRec], bad' \in [Jobs -> BOOLEAN]
  PROVE  RunTypes' /\ EvictTypes'
<1>1. step' \in [Jobs -> 1..(N + 1)] /\ pc' = [pc EXCEPT ![j] = p] /\ hit' \in [Jobs -> Data]
  BY DEF TInv, RunTypes, Goto
<1>2. /\ pc' \in [Jobs -> Points]
      /\ \A k \in Jobs : step'[k] <= Last[k] \/ pc'[k] \in Past
      /\ EvictTypes'
  BY <1>1, Moves
<1> QED
  BY <1>1, <1>2 DEF RunTypes

\* A job goes on at the next step.
LEMMA Advances ==
  ASSUME TInv, NEW j \in Jobs, Advance(j), step[j] \in Steps, evict' = evict,
         pc[j] \notin Rooms, count' = count,
         hit' = hit, rt' \in [Jobs -> RtRec], bad' \in [Jobs -> BOOLEAN]
  PROVE  RunTypes' /\ EvictTypes'
<1>1. "begin" \in Points /\ "begin" \in Past
  BY DEF Points, Past
<1>2. /\ pc' = [pc EXCEPT ![j] = "begin"]
      /\ step' = [step EXCEPT ![j] = @ + 1]
  BY DEF Advance, Goto
<1>3. step[j] + 1 \in 1..(N + 1)
  BY BuildAssumption DEF Steps
<1>4. step' \in [Jobs -> 1..(N + 1)] /\ \A k \in Jobs : k # j => step'[k] = step[k]
  BY <1>2, <1>3 DEF TInv, RunTypes
<1>5. count' \in CountRec /\ hit' \in [Jobs -> Data]
  BY DEF TInv, EvictTypes, RunTypes
<1>6. /\ pc' \in [Jobs -> Points]
      /\ \A k \in Jobs : step'[k] <= Last[k] \/ pc'[k] \in Past
      /\ EvictTypes'
  BY <1>1, <1>2, <1>4, <1>5, Moves
<1> QED
  BY <1>4, <1>5, <1>6 DEF RunTypes

\* A job fails.
LEMMA Fails ==
  ASSUME TInv, NEW j \in Jobs, FailTo(j), step' = step, hit' = hit, count' \in CountRec,
         step[j] <= Last[j] \/ pc[j] \notin Locked,
         \/ evict' = Idle
         \/ evict' = evict /\ (pc[j] \notin Rooms \/ evict.by # j)
  PROVE  RunTypes' /\ EvictTypes'
<1>1. rt' \in [Jobs -> RtRec] /\ bad' \in [Jobs -> BOOLEAN]
  BY FailType DEF TInv
<1>2. PICK p \in {"unlock", "failed"} :
        Goto(j, p) /\ (p = "unlock" => pc[j] \in Locked)
  BY DEF FailTo
<1>3. p \in Points /\ (step[j] <= Last[j] \/ p \in Past)
  BY <1>2 DEF Points, Past, Ended
<1> QED
  BY <1>1, <1>2, <1>3, MovesOn

\* A directory is removed.
LEMMA RemoveTypes ==
  ASSUME StoreTypes, NEW s \in Steps, RemoveStateDir(s), UNCHANGED <<meta, old, inst>>
  PROVE  StoreTypes'
<1>1. disk' \in [Steps -> DiskRec]
  BY Values DEF StoreTypes, RemoveStateDir
<1>2. marker' \in [Steps -> BOOLEAN]
  BY DEF StoreTypes, RemoveStateDir
<1>3. lock' \in [Steps -> Jobs \cup {None}]
  BY DEF StoreTypes, RemoveStateDir
<1> QED
  BY <1>1, <1>2, <1>3 DEF StoreTypes

\* A directory is made.
LEMMA EnsuredType ==
  ASSUME NEW d \in DiskRec
  PROVE  EnsuredDir(d) \in DiskRec
  BY DEF EnsuredDir, DiskRec

\* An operation that stands still at the store.
LEMMA StoreStays ==
  ASSUME TInv, UNCHANGED store
  PROVE  StoreTypes'
  BY DEF TInv, StoreTypes, store

\* The count of failures, crashes or evictions.
LEMMA Counted ==
  ASSUME count \in CountRec, NEW f \in {"failures", "crashes", "evictions"},
         count' = [count EXCEPT ![f] = @ + 1]
  PROVE  count' \in CountRec
  BY DEF CountRec

\* Types of the initial state.
LEMMA TypesStart == Init => TInv
<1> SUFFICES ASSUME Init PROVE TInv
  OBVIOUS
<1>1. N \in Nat /\ Preloaded \in Nat /\ Preloaded <= N
  BY BuildAssumption
<1>2. \A s \in Steps : s \in Nat /\ 1..s \in Data
  BY <1>1 DEF Steps, Data
<1>3. meta \subseteq Steps /\ old \subseteq meta /\ inst \subseteq InstRec
  BY <1>1 DEF Init, Steps
<1>4. disk \in [Steps -> DiskRec]
  <2> SUFFICES ASSUME NEW s \in Steps
               PROVE  (IF s <= Preloaded THEN [dir |-> TRUE, data |-> 1..s] ELSE NoDir) \in DiskRec
    BY DEF Init
  <2> QED
    BY <1>2, Values DEF DiskRec
<1>5. marker \in [Steps -> BOOLEAN]
  <2>1. \A s \in Steps : (s <= Preloaded) \in BOOLEAN
    BY <1>1, <1>2
  <2> QED
    BY <2>1 DEF Init
<1>6. lock \in [Steps -> Jobs \cup {None}]
  BY DEF Init
<1>7. RunTypes
  <2>1. 1 \in 1..(N + 1) /\ {} \in Data /\ "idle" \in Points
    BY <1>1 DEF Data, Points
  <2>2. \A j \in Jobs : Last[j] \in 1..N
    BY BuildAssumption
  <2>3. \A j \in Jobs : 1 <= Last[j]
    BY <2>2, <1>1
  <2> QED
    BY <2>1, <2>3, Values DEF Init, RunTypes
<1>8. EvictTypes
  BY Values, BuildAssumption DEF Init, EvictTypes, CountRec
<1> QED
  BY <1>3, <1>4, <1>5, <1>6, <1>7, <1>8 DEF TInv, StoreTypes

\* There is room, at once or after eviction.
LEMMA RoomTypes ==
  ASSUME TInv, NEW j \in Jobs, RoomFound(j), pc[j] \in Rooms,
         evict' \in {Idle, evict}, evict' = Idle \/ evict.by # j,
         UNCHANGED <<meta, old, marker, lock, inst, step, hit, rt, bad, count>>
  PROVE  TInv'
<1> USE DEF TInv
<1>1. pc[j] \notin Past /\ {"lock", "snap", "unlock"} \subseteq Points
  BY DEF Rooms, Past, Ended, Points, Locked
<1>2. step[j] \in Steps /\ step[j] <= Last[j]
  BY <1>1, OnStep
<1>3. PICK p \in {"lock", "snap", "unlock"} :
        Goto(j, p) /\ (disk' = disk \/ disk' = [disk EXCEPT ![step[j]] = EnsuredDir(@)])
  BY DEF RoomFound
<1>4. disk' \in [Steps -> DiskRec]
  BY <1>2, <1>3, EnsuredType DEF StoreTypes
<1>5. StoreTypes'
  BY <1>4 DEF StoreTypes
<1>6. rt' \in [Jobs -> RtRec] /\ bad' \in [Jobs -> BOOLEAN] /\ count' \in CountRec
      /\ hit' = hit /\ step' = step
  BY DEF RunTypes, EvictTypes
<1>7. evict' = Idle \/ (evict' = evict /\ (pc[j] \notin Rooms \/ evict.by # j))
  OBVIOUS
<1>8. RunTypes' /\ EvictTypes'
  BY <1>1, <1>2, <1>3, <1>6, <1>7, MovesOn
<1> QED
  BY <1>5, <1>8

\* Every step of every job keeps the types.
LEMMA TypesKept ==
  ASSUME TInv, [Next]_vars
  PROVE  TInv'
<1> USE DEF TInv
<1>0. count \in CountRec /\ N \in Nat
  BY BuildAssumption DEF EvictTypes
<1>1. ASSUME NEW j \in Jobs, PlanStart(j) PROVE TInv'
  <2>1. rt' \in [Jobs -> RtRec]
    <3>1. CASE j \in Liquibase
      BY <1>1, <3>1, EnsureType DEF PlanStart
    <3>2. CASE j \notin Liquibase
      BY <1>1, <3>2 DEF PlanStart, RunTypes
    <3> QED
      BY <3>1, <3>2
  <2>2. Goto(j, "plan") /\ "plan" \in Points /\ pc[j] \notin Past /\ pc[j] \notin Rooms
    BY <1>1 DEF PlanStart, Points, Past, Ended, Rooms
  <2>3. RunTypes' /\ EvictTypes'
    BY <1>0, <1>1, <2>1, <2>2, MovesOn, OnStep DEF PlanStart, RunTypes
  <2> QED
    BY <2>3, <1>1, StoreStays DEF PlanStart
<1>2. ASSUME NEW j \in Jobs, PlanStep(j) PROVE TInv'
  <2>1. pc[j] \notin Past /\ pc[j] \notin Rooms /\ "begin" \in Points /\ "plan" \in Points
        /\ "begin" \in Past
    BY <1>2 DEF PlanStep, Points, Past, Ended, Rooms
  <2>2. step[j] \in Steps /\ step[j] + 1 \in 1..(N + 1) /\ step[j] <= Last[j] /\ Last[j] \in Steps
    BY <2>1, OnStep
  <2>3. hit' \in [Jobs -> Data]
    BY <1>2, <2>2 DEF PlanStep, RunTypes, Data
  <2>4. /\ pc' \in [Jobs -> Points]
        /\ \A k \in Jobs : step'[k] <= Last[k] \/ pc'[k] \in Past
        /\ EvictTypes'
        /\ step' \in [Jobs -> 1..(N + 1)]
    <3>1. CASE step[j] = Last[j]
      <4>1. pc' = [pc EXCEPT ![j] = "begin"] /\ step' = [step EXCEPT ![j] = 1] /\ evict' = evict
            /\ count' = count
        BY <1>2, <3>1 DEF PlanStep, Goto
      <4>2. step' \in [Jobs -> 1..(N + 1)] /\ \A k \in Jobs : k # j => step'[k] = step[k]
        BY <4>1, <1>0 DEF RunTypes
      <4> QED
        BY <4>1, <4>2, <2>1, <1>0, Moves
    <3>2. CASE step[j] # Last[j]
      <4>1. pc' = [pc EXCEPT ![j] = "plan"] /\ step' = [step EXCEPT ![j] = @ + 1]
            /\ evict' = evict /\ count' = count
        BY <1>2, <3>2 DEF PlanStep, RunTypes
      <4>2. step' \in [Jobs -> 1..(N + 1)] /\ step'[j] = step[j] + 1
            /\ \A k \in Jobs : k # j => step'[k] = step[k]
        BY <4>1, <1>0, <2>2 DEF RunTypes
      <4>3. step'[j] <= Last[j]
        BY <4>2, <2>2, <3>2, <1>0 DEF Steps
      <4> QED
        BY <4>1, <4>2, <4>3, <2>1, <1>0, Moves
    <3> QED
      BY <3>1, <3>2
  <2>5. RunTypes'
    BY <2>3, <2>4, <1>2 DEF RunTypes, PlanStep
  <2> QED
    BY <2>4, <2>5, <1>2, StoreStays DEF PlanStep
<1>3. ASSUME NEW j \in Jobs, BeginTask(j) PROVE TInv'
  <2>1. {"instance", "check"} \subseteq Points /\ "instance" \in Past /\ pc[j] \notin Rooms
    BY <1>3 DEF BeginTask, Points, Past, Rooms
  <2>2. step[j] > Last[j] \/ step[j] <= Last[j]
    <3>1. step[j] \in 1..(N + 1) /\ Last[j] \in 1..N
      BY BuildAssumption DEF RunTypes
    <3> QED
      BY <3>1, <1>0
  <2>3. /\ evict' = evict /\ count' = count /\ hit' = hit
        /\ rt' \in [Jobs -> RtRec] /\ bad' \in [Jobs -> BOOLEAN]
    BY <1>3 DEF BeginTask, RunTypes
  <2>4. RunTypes' /\ EvictTypes'
    <3>1. CASE step[j] > Last[j]
      <4>1. Goto(j, "instance") /\ step' = step
        BY <1>3, <3>1 DEF BeginTask
      <4> QED
        BY <4>1, <2>1, <2>3, <1>0, MovesOn
    <3>2. CASE ~(step[j] > Last[j]) /\ step[j] \in hit[j] \cap meta
      <4>1. Advance(j) /\ step[j] \in Steps
        BY <1>3, <3>2 DEF BeginTask, StoreTypes
      <4> QED
        BY <4>1, <2>1, <2>3, Advances
    <3>3. CASE ~(step[j] > Last[j]) /\ step[j] \notin hit[j] \cap meta
      <4>1. Goto(j, "check") /\ step' = step /\ step[j] <= Last[j]
        BY <1>3, <3>3, <2>2 DEF BeginTask
      <4> QED
        BY <4>1, <2>1, <2>3, <1>0, MovesOn
    <3> QED
      BY <3>1, <3>2, <3>3
  <2> QED
    BY <2>4, <1>3, StoreStays DEF BeginTask
<1>4. ASSUME NEW j \in Jobs, CheckCache(j) PROVE TInv'
  <2>1. "room" \in Points /\ pc[j] \notin Rooms /\ pc[j] \notin Past
    BY <1>4 DEF CheckCache, Points, Past, Rooms, Ended
  <2>2. step[j] \in Steps /\ step[j] <= Last[j]
    BY <2>1, OnStep
  <2>3. evict' = evict /\ count' = count /\ hit' = hit /\ bad' \in [Jobs -> BOOLEAN]
    BY <1>4 DEF CheckCache, RunTypes
  <2>4. CASE step[j] \in meta
    <3>1. Advance(j) /\ rt' = [rt EXCEPT ![j] = Off]
      BY <1>4, <2>4 DEF CheckCache
    <3>2. rt' \in [Jobs -> RtRec]
      BY <3>1, Values DEF RunTypes
    <3> QED
      BY <3>1, <3>2, <2>1, <2>2, <2>3, Advances, <1>4, StoreStays DEF CheckCache
  <2>5. CASE step[j] \notin meta
    <3>1. Goto(j, "room") /\ step' = step /\ rt' \in [Jobs -> RtRec]
      BY <1>4, <2>5 DEF CheckCache, RunTypes
    <3> QED
      BY <3>1, <2>1, <2>2, <2>3, <1>0, MovesOn, <1>4, StoreStays DEF CheckCache
  <2> QED
    BY <2>4, <2>5
<1>5. ASSUME NEW j \in Jobs, HasRoom(j) PROVE TInv'
  BY <1>5, RoomTypes DEF HasRoom
<1>6. ASSUME NEW j \in Jobs, TakeLock(j) PROVE TInv'
  <2>1. pc[j] \notin Past /\ pc[j] \notin Rooms /\ {"recheck", "busy"} \subseteq Points
    BY <1>6 DEF TakeLock, Rooms, Past, Ended, Points, Locked
  <2>2. step[j] \in Steps /\ step[j] <= Last[j]
    BY <2>1, OnStep
  <2>3. step' = step /\ hit' = hit /\ evict' = evict /\ count' \in CountRec
    BY <1>0, <1>6 DEF TakeLock
  <2>4. lock' \in [Steps -> Jobs \cup {None}]
    BY <1>6, <2>2 DEF TakeLock, StoreTypes
  <2>5. StoreTypes'
    BY <2>4, <1>6 DEF TakeLock, StoreTypes
  <2>6. CASE FailTo(j)
    BY <2>1, <2>2, <2>3, <2>5, <2>6, Fails
  <2>7. CASE rt' = rt /\ bad' = bad /\ \E p \in {"recheck", "busy"} : Goto(j, p)
    <3>1. PICK p \in {"recheck", "busy"} : Goto(j, p)
      BY <2>7
    <3>2. rt' \in [Jobs -> RtRec] /\ bad' \in [Jobs -> BOOLEAN]
      BY <2>7 DEF RunTypes
    <3> QED
      BY <2>1, <2>2, <2>3, <2>5, <3>1, <3>2, MovesOn
  <2> QED
    BY <1>6, <2>6, <2>7 DEF TakeLock
<1>7. ASSUME NEW j \in Jobs, LockBusy(j) PROVE TInv'
  <2>1. pc[j] \notin Past /\ pc[j] \notin Rooms /\ "lock" \in Points
    BY <1>7 DEF LockBusy, Rooms, Past, Ended, Points
  <2>2. step[j] \in Steps /\ step[j] <= Last[j]
    BY <2>1, OnStep
  <2>3. lock' \in [Steps -> Jobs \cup {None}]
    BY <1>7, <2>2 DEF LockBusy, StoreTypes
  <2>4. StoreTypes'
    BY <2>3, <1>7 DEF LockBusy, StoreTypes
  <2>5. hit' = hit /\ evict' = evict /\ count' = count /\ rt' \in [Jobs -> RtRec]
        /\ bad' \in [Jobs -> BOOLEAN]
    BY <1>7 DEF LockBusy, RunTypes
  <2>6. CASE Advance(j)
    BY <2>1, <2>2, <2>4, <2>5, <2>6, Advances
  <2>7. CASE Goto(j, "lock") /\ step' = step
    BY <1>0, <2>1, <2>2, <2>4, <2>5, <2>7, MovesOn
  <2> QED
    BY <1>7, <2>6, <2>7 DEF LockBusy
<1>8. ASSUME NEW j \in Jobs, Recheck(j) PROVE TInv'
  <2>1. pc[j] \notin Past /\ pc[j] \notin Rooms /\ {"unlock", "runtime"} \subseteq Points
    BY <1>8 DEF Recheck, Rooms, Past, Ended, Points, Locked
  <2>2. step[j] \in Steps /\ step[j] <= Last[j]
    BY <2>1, OnStep
  <2>3. UNCHANGED <<meta, old, inst, step, hit, rt, bad, evict, count>>
    BY <1>8 DEF Recheck
  <2>4. StoreTypes'
    <3>1. CASE UNCHANGED <<disk, marker, lock>>
      BY <2>3, <3>1 DEF StoreTypes
    <3>2. CASE RemoveStateDir(step[j])
      BY <2>2, <2>3, <3>2, RemoveTypes
    <3>3. CASE /\ disk' = [disk EXCEPT ![step[j]] = EnsuredDir(NoDir)]
               /\ marker' = [marker EXCEPT ![step[j]] = FALSE]
               /\ lock' = [lock EXCEPT ![step[j]] = None]
      <4>1. EnsuredDir(NoDir) \in DiskRec
        BY Values, EnsuredType
      <4>2. disk' \in [Steps -> DiskRec]
        BY <4>1, <3>3 DEF StoreTypes
      <4>3. marker' \in [Steps -> BOOLEAN]
        BY <3>3 DEF StoreTypes
      <4>4. lock' \in [Steps -> Jobs \cup {None}]
        BY <3>3 DEF StoreTypes
      <4> QED
        BY <4>2, <4>3, <4>4, <2>3 DEF StoreTypes
    <3> QED
      BY <1>8, <3>1, <3>2, <3>3 DEF Recheck
  <2>5. PICK p \in {"unlock", "runtime"} : Goto(j, p)
    BY <1>8 DEF Recheck
  <2>6. rt' \in [Jobs -> RtRec] /\ bad' \in [Jobs -> BOOLEAN]
    BY <2>3 DEF RunTypes
  <2> QED
    BY <1>0, <2>1, <2>2, <2>3, <2>4, <2>5, <2>6, MovesOn
<1>9. ASSUME NEW j \in Jobs, StartRuntime(j) PROVE TInv'
  <2>1. pc[j] \notin Past /\ pc[j] \notin Rooms /\ "exec" \in Points
    BY <1>9 DEF StartRuntime, Rooms, Past, Ended, Points, Locked
  <2>2. step[j] \in Steps /\ step[j] <= Last[j]
    BY <2>1, OnStep
  <2>3. step' = step /\ hit' = hit /\ evict' = evict /\ count' \in CountRec /\ StoreTypes'
    BY <1>0, <1>9, StoreStays DEF StartRuntime
  <2>4. CASE FailTo(j)
    BY <2>1, <2>2, <2>3, <2>4, Fails
  <2>5. CASE EnsureRuntime(j, step[j] - 1) /\ Goto(j, "exec") /\ bad' = bad
    <3>1. step[j] - 1 = 0 \/ step[j] - 1 \in Steps
      BY <2>2, <1>0 DEF Steps
    <3>2. rt' \in [Jobs -> RtRec] /\ bad' \in [Jobs -> BOOLEAN]
      BY <3>1, <2>5, EnsureType DEF RunTypes
    <3> QED
      BY <3>2, <2>1, <2>2, <2>3, <2>5, MovesOn
  <2> QED
    BY <1>9, <2>4, <2>5 DEF StartRuntime
<1>10. ASSUME NEW j \in Jobs, ExecuteStep(j) PROVE TInv'
  <2>1. pc[j] \notin Past /\ pc[j] \notin Rooms /\ "roomSnap" \in Points
    BY <1>10 DEF ExecuteStep, Rooms, Past, Ended, Points, Locked
  <2>2. step[j] \in Steps /\ step[j] <= Last[j]
    BY <2>1, OnStep
  <2>3. step' = step /\ hit' = hit /\ evict' = evict /\ count' \in CountRec /\ StoreTypes'
        /\ Goto(j, "roomSnap") /\ bad' \in [Jobs -> BOOLEAN]
    BY <1>0, <1>10, StoreStays DEF ExecuteStep, RunTypes
  <2>4. rt[j].data \in Data
    BY DEF RunTypes, RtRec
  <2>5. Applied(j, rt[j].data) \in Data
    BY <2>2, <2>4 DEF Applied, Data
  <2>6. PICK d \in Data : d = Applied(j, rt[j].data)
    BY <2>5
  <2>7. rt' = [rt EXCEPT ![j].data = d]
    BY <1>10, <2>6 DEF ExecuteStep
  <2>8. rt' \in [Jobs -> RtRec]
    BY <2>7 DEF RunTypes, RtRec
  <2> QED
    BY <2>1, <2>2, <2>3, <2>8, MovesOn
<1>11. ASSUME NEW j \in Jobs, SnapshotStart(j) PROVE TInv'
  <2>1. pc[j] \notin Past /\ pc[j] \notin Rooms /\ "copy" \in Points
    BY <1>11 DEF SnapshotStart, Rooms, Past, Ended, Points, Locked
  <2>2. step[j] \in Steps /\ step[j] <= Last[j]
    BY <2>1, OnStep
  <2>3. UNCHANGED <<meta, old, lock, inst, step, hit, evict, count>>
    BY <1>11 DEF SnapshotStart
  <2>4. CASE FailTo(j) /\ UNCHANGED <<disk, marker>>
    <3>1. StoreTypes'
      BY <2>3, <2>4 DEF StoreTypes
    <3> QED
      BY <1>0, <2>1, <2>2, <2>3, <2>4, <3>1, Fails
  <2>5. CASE /\ disk' = [disk EXCEPT ![step[j]] = [dir |-> TRUE, data |-> {}]]
             /\ marker' = [marker EXCEPT ![step[j]] = @ \/ rt[j].mark]
             /\ Goto(j, "copy") /\ UNCHANGED <<rt, bad>>
    <3>1. disk' \in [Steps -> DiskRec]
      BY <2>5 DEF StoreTypes, DiskRec, Data
    <3>2. marker' \in [Steps -> BOOLEAN]
      <4>1. (marker[step[j]] \/ rt[j].mark) \in BOOLEAN
        OBVIOUS
      <4> QED
        BY <4>1, <2>5 DEF StoreTypes
    <3>3. StoreTypes'
      BY <3>1, <3>2, <2>3 DEF StoreTypes
    <3>4. rt' \in [Jobs -> RtRec] /\ bad' \in [Jobs -> BOOLEAN]
      BY <2>5 DEF RunTypes
    <3> QED
      BY <1>0, <2>1, <2>2, <2>3, <2>5, <3>3, <3>4, MovesOn
  <2> QED
    BY <1>11, <2>4, <2>5 DEF SnapshotStart
<1>12. ASSUME NEW j \in Jobs, SnapshotEnd(j) PROVE TInv'
  <2>1. pc[j] \notin Past /\ pc[j] \notin Rooms /\ "commit" \in Points
    BY <1>12 DEF SnapshotEnd, Rooms, Past, Ended, Points, Locked
  <2>2. step[j] \in Steps /\ step[j] <= Last[j]
    BY <2>1, OnStep
  <2>3. disk' \in [Steps -> DiskRec]
    BY <1>12, <2>2 DEF SnapshotEnd, StoreTypes, RunTypes, DiskRec, RtRec
  <2>4. StoreTypes' /\ rt' \in [Jobs -> RtRec] /\ bad' \in [Jobs -> BOOLEAN]
    BY <1>12, <2>3 DEF SnapshotEnd, StoreTypes, RunTypes
  <2> QED
    BY <1>0, <1>12, <2>1, <2>2, <2>4, MovesOn DEF SnapshotEnd
<1>13. ASSUME NEW j \in Jobs, Commit(j) PROVE TInv'
  <2>1. pc[j] \notin Past /\ pc[j] \notin Rooms /\ "mark" \in Points
    BY <1>13 DEF Commit, Rooms, Past, Ended, Points, Locked
  <2>2. step[j] \in Steps /\ step[j] <= Last[j]
    BY <2>1, OnStep
  <2>3. StoreTypes' /\ rt' \in [Jobs -> RtRec] /\ bad' \in [Jobs -> BOOLEAN]
    BY <1>13, <2>2 DEF Commit, StoreTypes, RunTypes
  <2> QED
    BY <1>0, <1>13, <2>1, <2>2, <2>3, MovesOn DEF Commit
<1>14. ASSUME NEW j \in Jobs, WriteMarker(j) PROVE TInv'
  <2>1. pc[j] \notin Past /\ pc[j] \notin Rooms /\ "roomEnd" \in Points
    BY <1>14 DEF WriteMarker, Rooms, Past, Ended, Points, Locked
  <2>2. step[j] \in Steps /\ step[j] <= Last[j]
    BY <2>1, OnStep
  <2>3. disk' \in [Steps -> DiskRec]
    BY <1>14, <2>2, EnsuredType DEF WriteMarker, StoreTypes
  <2>4. marker' \in [Steps -> BOOLEAN]
    BY <1>14 DEF WriteMarker, StoreTypes
  <2>5. StoreTypes' /\ rt' \in [Jobs -> RtRec] /\ bad' \in [Jobs -> BOOLEAN]
    BY <1>14, <2>3, <2>4 DEF WriteMarker, StoreTypes, RunTypes
  <2> QED
    BY <1>0, <1>14, <2>1, <2>2, <2>5, MovesOn DEF WriteMarker
<1>15. ASSUME NEW j \in Jobs, Unlock(j) PROVE TInv'
  <2>1. pc[j] \notin Past /\ pc[j] \notin Rooms /\ "failed" \in Points
    BY <1>15 DEF Unlock, Rooms, Past, Ended, Points, Locked
  <2>2. step[j] \in Steps /\ step[j] <= Last[j]
    BY <2>1, OnStep
  <2>3. lock' \in [Steps -> Jobs \cup {None}]
    BY <1>15, <2>2 DEF Unlock, StoreTypes
  <2>4. StoreTypes' /\ bad' \in [Jobs -> BOOLEAN] /\ hit' = hit /\ evict' = evict /\ count' = count
    BY <1>15, <2>3 DEF Unlock, StoreTypes, RunTypes
  <2>5. CASE Goto(j, "failed") /\ rt' = [rt EXCEPT ![j] = Off] /\ step' = step
    <3>1. rt' \in [Jobs -> RtRec]
      BY <2>5, Values DEF RunTypes
    <3> QED
      BY <1>0, <2>1, <2>2, <2>4, <2>5, <3>1, MovesOn
  <2>6. CASE Advance(j) /\ rt' = rt
    <3>1. rt' \in [Jobs -> RtRec]
      BY <2>6 DEF RunTypes
    <3> QED
      BY <2>1, <2>2, <2>4, <2>6, <3>1, Advances
  <2> QED
    BY <1>15, <2>5, <2>6 DEF Unlock
<1>16. ASSUME NEW j \in Jobs, PrepareInstance(j) PROVE TInv'
  <2>1. pc[j] \notin Rooms /\ pc[j] \notin Locked /\ "insert" \in Points /\ "insert" \in Past
    BY <1>16 DEF PrepareInstance, Rooms, Past, Ended, Points, Locked
  <2>2. Last[j] \in Steps
    BY BuildAssumption DEF Steps
  <2>3. step' = step /\ hit' = hit /\ evict' = evict /\ count' \in CountRec /\ StoreTypes'
    BY <1>0, <1>16, StoreStays DEF PrepareInstance
  <2>4. CASE FailTo(j)
    BY <2>1, <2>3, <2>4, Fails
  <2>5. CASE EnsureRuntime(j, Last[j]) /\ Goto(j, "insert") /\ bad' = bad
    <3>1. rt' \in [Jobs -> RtRec] /\ bad' \in [Jobs -> BOOLEAN]
      BY <2>2, <2>5, EnsureType DEF RunTypes
    <3> QED
      BY <3>1, <2>1, <2>3, <2>5, MovesOn
  <2> QED
    BY <1>16, <2>4, <2>5 DEF PrepareInstance
<1>17. ASSUME NEW j \in Jobs, InsertInstance(j) PROVE TInv'
  <2>1. pc[j] \notin Rooms /\ pc[j] \notin Locked /\ "done" \in Points /\ "done" \in Past
    BY <1>17 DEF InsertInstance, Rooms, Past, Ended, Points, Locked
  <2>2. Last[j] \in Steps
    BY BuildAssumption DEF Steps
  <2>3. UNCHANGED <<meta, old, disk, marker, lock, step, hit, evict, count>>
    BY <1>17 DEF InsertInstance
  <2>4. CASE FailTo(j) /\ inst' = inst
    <3>1. StoreTypes'
      BY <2>3, <2>4 DEF StoreTypes
    <3> QED
      BY <1>0, <2>1, <2>3, <2>4, <3>1, Fails
  <2>5. CASE /\ inst' = inst \cup {[job |-> j, state |-> Last[j], data |-> rt[j].data]}
             /\ Goto(j, "done") /\ UNCHANGED <<rt, bad>>
    <3>1. [job |-> j, state |-> Last[j], data |-> rt[j].data] \in InstRec
      BY <2>2 DEF RunTypes, RtRec, InstRec
    <3>2. inst' \subseteq InstRec
      BY <3>1, <2>5 DEF StoreTypes
    <3>3. StoreTypes' /\ rt' \in [Jobs -> RtRec] /\ bad' \in [Jobs -> BOOLEAN]
      BY <3>2, <2>3, <2>5 DEF StoreTypes, RunTypes
    <3> QED
      BY <1>0, <2>1, <2>3, <2>5, <3>3, MovesOn
  <2> QED
    BY <1>17, <2>4, <2>5 DEF InsertInstance
<1>18. ASSUME NEW j \in Jobs, Resume(j) PROVE TInv'
  <2>1. pc[j] \notin Past /\ pc[j] \notin Rooms /\ "begin" \in Points /\ "begin" \in Past
    BY <1>18 DEF Resume, Rooms, Past, Ended, Points, Locked
  <2>2. step[j] \in Steps /\ step[j] <= Last[j]
    BY <2>1, OnStep
  <2>3. /\ hit' = hit /\ evict' = evict /\ count' = count /\ rt' \in [Jobs -> RtRec]
        /\ bad' \in [Jobs -> BOOLEAN] /\ StoreTypes'
    BY <1>18, StoreStays DEF Resume, RunTypes
  <2>4. CASE Advance(j)
    BY <2>1, <2>2, <2>3, <2>4, Advances
  <2>5. CASE Goto(j, "begin") /\ step' = step
    BY <1>0, <2>1, <2>2, <2>3, <2>5, MovesOn
  <2> QED
    BY <1>18, <2>4, <2>5 DEF Resume
<1>b. ASSUME UNCHANGED run, evict' \in EvictRec, count' \in CountRec,
             \A k \in Jobs : evict'.by = k => pc[k] \in Rooms
      PROVE  RunTypes' /\ EvictTypes'
  BY <1>b DEF RunTypes, EvictTypes, run
<1>19. ASSUME NEW s \in Steps, Age(s) PROVE TInv'
  BY <1>19 DEF Age, StoreTypes, RunTypes, EvictTypes, run
<1>20. ASSUME NEW j \in Jobs, EvictBegin(j) PROVE TInv'
  <2>1. Candidates(j) \in Data
    BY DEF Candidates, StoreTypes, Data
  <2>2. evict' = [by |-> j, todo |-> Candidates(j), gone |-> 0] /\ pc[j] \in Rooms
        /\ count' = [count EXCEPT !.evictions = @ + 1] /\ UNCHANGED <<store, run>>
    BY <1>20 DEF EvictBegin
  <2>3. count' \in CountRec
    BY <1>0, <2>2 DEF CountRec
  <2>4. evict' \in EvictRec /\ evict'.by = j
    BY <1>0, <2>1, <2>2 DEF EvictRec
  <2> QED
    BY <1>b, <2>2, <2>3, <2>4, StoreStays
<1>21. ASSUME NEW j \in Jobs, EvictDir(j) PROVE TInv'
  <2>1. evict.todo \in Data /\ evict.by \in Jobs \cup {None}
    BY DEF EvictTypes, EvictRec
  <2>2. PICK s \in evict.todo : RemoveStateDir(s)
                                /\ evict' = [evict EXCEPT !.todo = @ \ {s}, !.gone = s]
    BY <1>21 DEF EvictDir
  <2>3. s \in Steps /\ s \in 0..N
    BY <2>1, <2>2, <1>0 DEF Data, Steps
  <2>4. StoreTypes'
    BY <1>21, <2>2, <2>3, RemoveTypes DEF EvictDir
  <2>5. PICK t : t = evict.todo \ {s}
    OBVIOUS
  <2>6. t \in Data
    BY <2>1, <2>5 DEF Data
  <2>7. evict' = [evict EXCEPT !.todo = t, !.gone = s]
    BY <2>2, <2>5
  <2>8. evict' \in EvictRec /\ evict'.by = evict.by
    BY <2>3, <2>6, <2>7 DEF EvictTypes, EvictRec
  <2>9. \A k \in Jobs : evict'.by = k => pc[k] \in Rooms
    BY <2>8 DEF EvictTypes
  <2> QED
    BY <1>0, <1>21, <1>b, <2>4, <2>8, <2>9 DEF EvictDir
<1>22. ASSUME NEW j \in Jobs, EvictRow(j) PROVE TInv'
  <2>1. PICK row : meta' = meta \ row /\ old' = old \ row
    BY <1>22 DEF EvictRow
  <2>2. StoreTypes'
    BY <1>22, <2>1 DEF EvictRow, StoreTypes
  <2>3. evict' = [evict EXCEPT !.gone = 0]
    BY <1>22 DEF EvictRow
  <2>4. evict' \in EvictRec /\ evict'.by = evict.by
    BY <2>3, <1>0 DEF EvictTypes, EvictRec
  <2>5. \A k \in Jobs : evict'.by = k => pc[k] \in Rooms
    BY <2>4 DEF EvictTypes
  <2> QED
    BY <1>0, <1>22, <1>b, <2>2, <2>4, <2>5 DEF EvictRow
<1>23. ASSUME NEW j \in Jobs, EvictEnd(j) PROVE TInv'
  <2>1. evict.by = j /\ evict' = Idle /\ RoomFound(j)
    BY <1>23 DEF EvictEnd
  <2>2. pc[j] \in Rooms
    BY <2>1 DEF EvictTypes
  <2>3. UNCHANGED <<meta, old, marker, lock, inst, step, hit, rt, bad, count>>
    BY <1>23 DEF EvictEnd
  <2> QED
    BY <2>1, <2>2, <2>3, RoomTypes
<1>24. ASSUME NEW j \in Jobs, Fail(j) PROVE TInv'
  <2>1. count' \in CountRec
    BY <1>0, <1>24 DEF Fail, Failure, CountRec
  <2>2. pc[j] \notin Locked \/ step[j] <= Last[j]
    BY OnStep DEF Past, Ended, Locked
  <2> QED
    BY <1>24, <2>1, <2>2, Fails, StoreStays DEF Fail
<1>25. ASSUME NEW j \in Jobs, EvictFails(j) PROVE TInv'
  <2>1. count' \in CountRec
    BY <1>0, <1>25 DEF EvictFails, Failure, CountRec
  <2>2. pc[j] \notin Locked \/ step[j] <= Last[j]
    BY OnStep DEF Past, Ended, Locked
  <2> QED
    BY <1>25, <2>1, <2>2, Fails, StoreStays DEF EvictFails
<1>26. ASSUME NEW j \in Jobs, CommitFails(j) PROVE TInv'
  <2>1. count' \in CountRec
    BY <1>0, <1>26 DEF CommitFails, Failure, CountRec
  <2>2. pc[j] \notin Past /\ pc[j] \notin Rooms
    BY <1>26 DEF CommitFails, Past, Ended, Rooms
  <2>3. step[j] \in Steps /\ step[j] <= Last[j]
    BY <2>2, OnStep
  <2>4. StoreTypes'
    BY <1>26, <2>3, RemoveTypes DEF CommitFails
  <2> QED
    BY <1>26, <2>1, <2>2, <2>3, <2>4, Fails DEF CommitFails
<1>27. ASSUME Crash PROVE TInv'
  <2>1. count' \in CountRec
    BY <1>0, <1>27 DEF Crash, CountRec
  <2>2. EvictTypes'
    BY <1>27, <2>1, Values, BuildAssumption DEF Crash, EvictTypes
  <2>3. rt' \in [Jobs -> RtRec] /\ bad' \in [Jobs -> BOOLEAN]
    BY <1>27, Values DEF Crash
  <2>4. hit' \in [Jobs -> Data]
    BY <1>27 DEF Crash, RunTypes, Data
  <2>5. step' \in [Jobs -> 1..(N + 1)]
    <3>1. 1 \in 1..(N + 1)
      BY <1>0
    <3> QED
      BY <3>1, <1>27 DEF Crash, RunTypes
  <2>6. pc' \in [Jobs -> Points]
    <3> SUFFICES ASSUME NEW k \in Jobs PROVE pc'[k] \in Points
      BY <1>27 DEF Crash
    <3> QED
      BY <1>27 DEF Crash, Points, Ended
  <2>7. ASSUME NEW k \in Jobs PROVE step'[k] <= Last[k] \/ pc'[k] \in Past
    <3>1. CASE pc[k] \in Past
      BY <3>1, <1>27 DEF Crash, Past, Ended
    <3>2. CASE pc[k] \notin Past
      <4>1. step[k] <= Last[k] /\ Last[k] \in Steps
        BY <3>2, OnStep
      <4>2. step'[k] = 1 \/ step'[k] = step[k]
        BY <1>27 DEF Crash
      <4> QED
        BY <4>1, <4>2, <1>0 DEF Steps
    <3> QED
      BY <3>1, <3>2
  <2>8. RunTypes'
    BY <2>3, <2>4, <2>5, <2>6, <2>7 DEF RunTypes
  <2> QED
    BY <2>2, <2>8, <1>27, StoreStays DEF Crash
<1>28. ASSUME UNCHANGED vars PROVE TInv'
  <2>1. UNCHANGED <<meta, old, disk, marker, lock, inst, pc, step, hit, rt, bad, evict, count>>
    BY <1>28 DEF vars, store, run
  <2> QED
    BY <2>1 DEF StoreTypes, RunTypes, EvictTypes
<1> QED
  BY <1>1, <1>2, <1>3, <1>4, <1>5, <1>6, <1>7, <1>8, <1>9, <1>10, <1>11, <1>12, <1>13, <1>14,
     <1>15, <1>16, <1>17, <1>18, <1>19, <1>20, <1>21, <1>22, <1>23, <1>24, <1>25, <1>26, <1>27,
     <1>28 DEF Next, JobStep

\* StateBuild keeps its types: in particular no job runs past its last step, and eviction
\* only ever holds states of the chain (execution.go, capacity.go), on either backend.
THEOREM BuildTypes == Spec => []TypeOK
<1>1. Init => TInv
  BY TypesStart
<1>2. TInv /\ [Next]_vars => TInv'
  BY TypesKept
<1>3. TInv => TypeOK
  BY TypeParts
<1> QED
  BY <1>1, <1>2, <1>3, PTL DEF Spec

-----------------------------------------------------------------------------
(* On btrfs, while nothing has been evicted.  A job between recheck and    *)
(* the removal of the lock file holds the lock of its step, unless the     *)
(* step is cached by then: a lock file without an owner is only ever taken *)
(* away by a waiter that has seen the marker, and a marker means a row.    *)

Hold  == Locked \cup {"unlock"}
Build == {"runtime", "exec", "roomSnap", "snap", "copy", "commit"}

Own(j) ==
  /\ pc[j] \in Hold /\ step[j] \notin meta => lock[step[j]] = j
  /\ pc[j] \in Build => step[j] \notin meta
  /\ pc[j] = "mark" => lock[step[j]] = j /\ ~marker[step[j]] /\ step[j] \in meta
  /\ pc[j] = "roomEnd" \/ (pc[j] = "unlock" /\ ~bad[j]) => step[j] \in meta
  /\ ~rt[j].mark
  /\ pc[j] \in {"roomSnap", "snap", "copy"} => rt[j].data # {}
  /\ pc[j] = "commit" => disk[step[j]].dir /\ disk[step[j]].data # {}

\* From the row to the marker nobody else is under the lock of that state.
Apart(j, k) == pc[j] = "mark" /\ pc[k] \in Hold /\ step[k] = step[j] => k = j

Rows ==
  /\ \A s \in Steps : marker[s] => s \in meta
  /\ \A s \in meta : disk[s].dir /\ disk[s].data # {}
  /\ evict.by = None

Core ==
  /\ Rows
  /\ \A j \in Jobs : Own(j)
  /\ \A j, k \in Jobs : Apart(j, k)

SInv == TInv /\ (Undisturbed => Core)

\* The first state.
LEMMA CoreStart == Init => Core
<1> SUFFICES ASSUME Init PROVE Core
  OBVIOUS
<1>1. N \in Nat /\ Preloaded \in Nat /\ Preloaded <= N
  BY BuildAssumption
<1>2. ASSUME NEW j \in Jobs PROVE pc[j] = "idle" /\ rt[j] = Off
  BY DEF Init
<1>3. ~Off.mark
  BY DEF Off
<1>4. \A j \in Jobs : Own(j)
  BY <1>2, <1>3 DEF Own, Hold, Locked, Build
<1>5. \A j, k \in Jobs : Apart(j, k)
  BY <1>2 DEF Apart
<1>6. \A s \in Steps : marker[s] => s \in meta
  <2> TAKE s \in Steps
  <2>1. marker[s] = (s <= Preloaded)
    BY DEF Init
  <2>2. s <= Preloaded => s \in 1..Preloaded
    BY <1>1 DEF Steps
  <2> QED
    BY <2>1, <2>2 DEF Init
<1>7. \A s \in meta : disk[s].dir /\ disk[s].data # {}
  <2> SUFFICES ASSUME NEW s \in 1..Preloaded PROVE disk[s].dir /\ disk[s].data # {}
    BY DEF Init
  <2>1. s \in Steps /\ s <= Preloaded /\ s \in 1..s
    BY <1>1 DEF Steps
  <2>2. disk[s] = [dir |-> TRUE, data |-> 1..s]
    BY <2>1 DEF Init
  <2> QED
    BY <2>1, <2>2
<1>8. evict.by = None
  BY Values DEF Init
<1> QED
  BY <1>4, <1>5, <1>6, <1>7, <1>8 DEF Core, Rows

\* A step of job j that leaves rows, directories, markers and lock files alone.
LEMMA Quiet ==
  ASSUME Core, NEW j \in Jobs, UNCHANGED <<meta, disk, marker, lock>>, evict'.by = None,
         \A k \in Jobs : k # j => /\ pc'[k] = pc[k] /\ step'[k] = step[k]
                                  /\ rt'[k] = rt[k] /\ bad'[k] = bad[k],
         pc'[j] \in Hold => pc[j] \in Hold /\ step'[j] = step[j],
         pc'[j] # "mark", Own(j)'
  PROVE  Core'
<1>1. Rows'
  BY DEF Core, Rows
<1>2. ASSUME NEW k \in Jobs PROVE Own(k)'
  BY DEF Core, Own
<1>3. ASSUME NEW k \in Jobs, NEW l \in Jobs PROVE Apart(k, l)'
  BY DEF Core, Apart
<1> QED
  BY <1>1, <1>2, <1>3 DEF Core

\* A step of job j that only removes the lock file of a state that is cached and that
\* nobody is about to mark, or its own.
LEMMA Releases ==
  ASSUME Core, NEW j \in Jobs, NEW s, lock' = [lock EXCEPT ![s] = None],
         marker[s] \/ (pc[j] \in Hold /\ step[j] = s), s \in Steps,
         lock \in [Steps -> Jobs \cup {None}], step \in [Jobs -> 1..(N + 1)],
         UNCHANGED <<meta, disk, marker>>, evict'.by = None,
         \A k \in Jobs : k # j => /\ pc'[k] = pc[k] /\ step'[k] = step[k]
                                  /\ rt'[k] = rt[k] /\ bad'[k] = bad[k],
         pc'[j] \notin Hold, ~rt'[j].mark
  PROVE  Core'
<1>1. Rows'
  BY DEF Core, Rows
<1>2. Own(j)'
  BY DEF Own, Hold, Locked, Build
<1>3. ASSUME NEW k \in Jobs, k # j PROVE Own(k)'
  <2>1. CASE step[k] # s \/ pc[k] \notin Hold
    <3>1. lock'[step[k]] = lock[step[k]] \/ pc[k] \notin Hold
      BY <2>1
    <3>2. pc[k] = "mark" => pc[k] \in Hold
      BY DEF Hold, Locked
    <3>3. pc'[k] = pc[k] /\ step'[k] = step[k] /\ rt'[k] = rt[k] /\ bad'[k] = bad[k] /\ Own(k)
      BY <1>3 DEF Core
    <3> QED
      BY <3>1, <3>2, <3>3 DEF Own
  <2>2. CASE step[k] = s /\ pc[k] \in Hold
    <3>1. CASE marker[s]
      <4>1. s \in meta /\ pc[k] # "mark"
        BY <3>1, <2>2 DEF Core, Rows, Own
      <4> QED
        BY <1>3, <4>1, <2>2 DEF Core, Own
    <3>2. CASE pc[j] \in Hold /\ step[j] = s
      <4>1. s \in meta
        BY <3>2, <2>2, <1>3 DEF Core, Own
      <4>2. pc[k] # "mark"
        BY <3>2, <2>2, <1>3 DEF Core, Apart
      <4> QED
        BY <1>3, <4>1, <4>2, <2>2 DEF Core, Own
    <3> QED
      BY <3>1, <3>2
  <2> QED
    BY <2>1, <2>2
<1>4. ASSUME NEW k \in Jobs, NEW l \in Jobs PROVE Apart(k, l)'
  <2>1. pc'[j] # "mark"
    BY DEF Hold, Locked
  <2> QED
    BY <2>1 DEF Core, Apart
<1> QED
  BY <1>1, <1>2, <1>3, <1>4 DEF Core

\* What the other jobs are doing does not change with a step of job j.
Others(j) == \A k \in Jobs : k # j => /\ pc'[k] = pc[k] /\ step'[k] = step[k]
                                       /\ rt'[k] = rt[k] /\ bad'[k] = bad[k]

\* A job that goes to p.
LEMMA Going ==
  ASSUME RunTypes, NEW j \in Jobs, NEW p, Goto(j, p)
  PROVE  pc'[j] = p /\ \A k \in Jobs : k # j => pc'[k] = pc[k]
  BY DEF Goto, RunTypes

\* A job that goes to its next step.
LEMMA Next1 ==
  ASSUME RunTypes, NEW j \in Jobs, Advance(j)
  PROVE  /\ pc'[j] = "begin" /\ step'[j] = step[j] + 1
         /\ \A k \in Jobs : k # j => pc'[k] = pc[k] /\ step'[k] = step[k]
  BY DEF Advance, Goto, RunTypes

\* Job j has not begun to build: nothing is claimed of it but that its runtime holds no
\* marker.
LEMMA Outside ==
  ASSUME NEW j \in Jobs, pc'[j] \notin Hold, ~rt'[j].mark
  PROVE  Own(j)' /\ pc'[j] # "mark"
  BY DEF Own, Hold, Locked, Build

\* No runtime of a btrfs state holds a marker.
LEMMA NoMark ==
  ASSUME RunTypes, Kind = "btrfs", NEW j \in Jobs, NEW s, EnsureRuntime(j, s), ~rt[j].mark
  PROVE  ~rt'[j].mark /\ \A k \in Jobs : k # j => rt'[k] = rt[k]
<1>1. Cloned(s).mark = FALSE
  BY DEF Cloned
<1>2. rt'[j] = IF rt[j].on THEN rt[j] ELSE Cloned(s)
  BY DEF EnsureRuntime, RunTypes
<1>3. \A k \in Jobs : k # j => rt'[k] = rt[k]
  BY DEF EnsureRuntime, RunTypes
<1>4. CASE rt[j].on
  BY <1>2, <1>3, <1>4
<1>5. CASE ~rt[j].on
  BY <1>1, <1>2, <1>3, <1>5
<1> QED
  BY <1>4, <1>5

\* A failing job leaves the store alone.
LEMMA FailCore ==
  ASSUME TInv, Core, NEW j \in Jobs, FailTo(j), step' = step,
         UNCHANGED <<meta, disk, marker, lock>>, evict'.by = None
  PROVE  Core'
<1>1. Own(j) /\ ~Off.mark
  BY DEF Core, Off
<1>2. CASE pc[j] \in Locked
  <2>1. /\ pc'[j] = "unlock" /\ bad'[j] = TRUE /\ rt' = rt
        /\ \A k \in Jobs : k # j => pc'[k] = pc[k] /\ bad'[k] = bad[k]
    BY <1>2 DEF FailTo, Goto, TInv, RunTypes
  <2>2. pc[j] \in Hold
    BY <1>2 DEF Hold
  <2>3. Own(j)'
    BY <1>1, <2>1, <2>2 DEF Own, Build
  <2> QED
    BY <2>1, <2>2, <2>3, Quiet
<1>3. CASE pc[j] \notin Locked
  <2>1. /\ pc'[j] = "failed" /\ bad' = bad /\ rt'[j] = Off
        /\ \A k \in Jobs : k # j => pc'[k] = pc[k] /\ rt'[k] = rt[k]
    BY <1>3 DEF FailTo, Goto, TInv, RunTypes
  <2>2. pc'[j] \notin Hold
    BY <2>1 DEF Hold, Locked
  <2>3. Own(j)' /\ pc'[j] # "mark"
    BY <1>1, <2>1, <2>2, Outside
  <2> QED
    BY <2>1, <2>2, <2>3, Quiet
<1> QED
  BY <1>2, <1>3

\* A job under the lock of a step that is not cached works on its directory.
LEMMA Works ==
  ASSUME TInv, Core, NEW j \in Jobs, NEW d \in DiskRec, pc[j] \in Hold, step[j] \in Steps,
         step[j] \notin meta, disk' = [disk EXCEPT ![step[j]] = d],
         UNCHANGED <<meta, marker, lock>>, evict'.by = None,
         Others(j), step'[j] = step[j], pc'[j] # "mark", Own(j)'
  PROVE  Core'
<1>1. \A s \in Steps : s # step[j] => disk'[s] = disk[s]
  BY DEF TInv, StoreTypes
<1>2. Rows'
  BY <1>1 DEF Core, Rows, TInv, StoreTypes
<1>3. ASSUME NEW k \in Jobs, k # j PROVE Own(k)'
  <2>1. pc'[k] = pc[k] /\ step'[k] = step[k] /\ rt'[k] = rt[k] /\ bad'[k] = bad[k] /\ Own(k)
    BY <1>3 DEF Core, Others
  <2>2. CASE pc[k] = "commit"
    <3>1. pc[k] \notin Past
      BY <2>2 DEF Past, Ended
    <3>2. step[k] \in Steps
      BY <3>1, OnStep DEF TInv
    <3>3. step[k] # step[j]
      BY <1>3, <2>1, <2>2 DEF Core, Own, Hold, Locked
    <3>4. disk'[step[k]] = disk[step[k]]
      BY <1>1, <3>2, <3>3
    <3> QED
      BY <2>1, <3>4 DEF Own
  <2>3. CASE pc[k] # "commit"
    BY <2>1, <2>3 DEF Own
  <2> QED
    BY <2>2, <2>3
<1>4. ASSUME NEW k \in Jobs, NEW l \in Jobs PROVE Apart(k, l)'
  BY DEF Core, Apart, Others
<1> QED
  BY <1>2, <1>3, <1>4 DEF Core

\* No step loses the argument, as long as it does not begin an eviction.
LEMMA CoreKept ==
  ASSUME TInv, Core, Kind = "btrfs", [Next]_vars, count'.evictions = 0
  PROVE  Core'
<1>0. \A j \in Jobs : Own(j) /\ ~rt[j].mark /\ evict.by # j
  BY BuildAssumption DEF Core, Own, Rows
<1>00. evict.by = None /\ RunTypes /\ StoreTypes
  BY DEF Core, Rows, TInv
<1>1. ASSUME NEW j \in Jobs, PlanStart(j) PROVE Core'
  <2>1. Goto(j, "plan") /\ UNCHANGED <<meta, disk, marker, lock, step, bad, evict>>
    BY <1>1 DEF PlanStart, store
  <2>2. ~rt'[j].mark /\ \A k \in Jobs : k # j => rt'[k] = rt[k]
    <3>1. CASE j \in Liquibase
      BY <1>0, <1>00, <1>1, <3>1, NoMark DEF PlanStart
    <3>2. CASE j \notin Liquibase
      BY <1>0, <1>1, <3>2 DEF PlanStart
    <3> QED
      BY <3>1, <3>2
  <2>3. pc'[j] = "plan" /\ \A k \in Jobs : k # j => pc'[k] = pc[k]
    BY <2>1, <1>00, Going
  <2>4. pc'[j] \notin Hold
    BY <2>3 DEF Hold, Locked
  <2> QED
    BY <1>00, <2>1, <2>2, <2>3, <2>4, Outside, Quiet
<1>2. ASSUME NEW j \in Jobs, PlanStep(j) \/ BeginTask(j) \/ Resume(j) PROVE Core'
  <2>1. UNCHANGED <<meta, disk, marker, lock, rt, bad, evict>>
    BY <1>2 DEF PlanStep, BeginTask, Resume, store
  <2>2. \A k \in Jobs : k # j => pc'[k] = pc[k] /\ step'[k] = step[k]
    BY <1>2 DEF PlanStep, BeginTask, Resume, Advance, Goto, TInv, RunTypes
  <2>3. pc'[j] \in {"plan", "begin", "instance", "check"}
    BY <1>2 DEF PlanStep, BeginTask, Resume, Advance, Goto, TInv, RunTypes
  <2>4. pc'[j] \notin Hold
    BY <2>3 DEF Hold, Locked
  <2> QED
    BY <1>0, <1>00, <2>1, <2>2, <2>4, Outside, Quiet
<1>3. ASSUME NEW j \in Jobs, CheckCache(j) PROVE Core'
  <2>1. UNCHANGED <<meta, disk, marker, lock, bad, evict>>
    BY <1>3 DEF CheckCache, store
  <2>2. \A k \in Jobs : k # j => pc'[k] = pc[k] /\ step'[k] = step[k] /\ rt'[k] = rt[k]
    BY <1>3 DEF CheckCache, Advance, Goto, TInv, RunTypes
  <2>3. pc'[j] \in {"room", "begin"} /\ (rt'[j] = Off \/ rt'[j] = rt[j])
    BY <1>3 DEF CheckCache, Advance, Goto, TInv, RunTypes
  <2>4. pc'[j] \notin Hold
    BY <2>3 DEF Hold, Locked
  <2>5. ~rt'[j].mark
    BY <1>0, <2>3 DEF Off
  <2> QED
    BY <1>00, <2>1, <2>2, <2>4, <2>5, Outside, Quiet
<1>4. ASSUME NEW j \in Jobs, HasRoom(j) PROVE Core'
  <2>1. UNCHANGED <<meta, marker, lock, step, rt, bad, evict>> /\ RoomFound(j) /\ pc[j] \in Rooms
    BY <1>4 DEF HasRoom
  <2>2. pc[j] \notin Past
    BY <2>1 DEF Rooms, Past, Ended
  <2>3. step[j] \in Steps
    BY <2>2, <1>00, OnStep
  <2>4. disk' = disk
    BY <1>00, <2>1, <2>3 DEF RoomFound, EnsuredDir, StoreTypes
  <2>5. CASE pc[j] = "room"
    <3>1. Goto(j, "lock")
      BY <2>1, <2>5 DEF RoomFound
    <3>2. pc'[j] = "lock" /\ \A k \in Jobs : k # j => pc'[k] = pc[k]
      BY <3>1, <1>00, Going
    <3>3. pc'[j] \notin Hold
      BY <3>2 DEF Hold, Locked
    <3> QED
      BY <1>0, <1>00, <2>1, <2>4, <3>2, <3>3, Outside, Quiet
  <2>6. CASE pc[j] = "roomSnap"
    <3>1. Goto(j, "snap")
      BY <2>1, <2>6 DEF RoomFound
    <3>2. pc'[j] = "snap" /\ \A k \in Jobs : k # j => pc'[k] = pc[k]
      BY <3>1, <1>00, Going
    <3>3. pc[j] \in Hold
      BY <2>6 DEF Hold, Locked
    <3>4. Own(j)'
      BY <1>0, <2>1, <2>4, <2>6, <3>2, <3>3 DEF Own, Build
    <3> QED
      BY <1>00, <2>1, <2>4, <3>2, <3>3, <3>4, Quiet
  <2>7. CASE pc[j] = "roomEnd"
    <3>1. Goto(j, "unlock")
      BY <2>1, <2>7 DEF RoomFound
    <3>2. pc'[j] = "unlock" /\ \A k \in Jobs : k # j => pc'[k] = pc[k]
      BY <3>1, <1>00, Going
    <3>3. pc[j] \in Hold
      BY <2>7 DEF Hold, Locked
    <3>4. Own(j)'
      BY <1>0, <2>1, <2>4, <2>7, <3>2, <3>3 DEF Own, Build
    <3> QED
      BY <1>00, <2>1, <2>4, <3>2, <3>3, <3>4, Quiet
  <2> QED
    BY <2>1, <2>5, <2>6, <2>7 DEF Rooms
<1>5. ASSUME NEW j \in Jobs, TakeLock(j) PROVE Core'
  <2>1. UNCHANGED <<meta, disk, marker, step, evict>> /\ pc[j] = "lock"
    BY <1>5 DEF TakeLock
  <2>2. pc[j] \notin Past /\ pc[j] \notin Hold
    BY <2>1 DEF Past, Ended, Hold, Locked
  <2>3. step[j] \in Steps
    BY <2>2, <1>00, OnStep
  <2>4. CASE Goto(j, "busy") /\ UNCHANGED <<lock, rt, bad>>
    <3>1. pc'[j] = "busy" /\ \A k \in Jobs : k # j => pc'[k] = pc[k]
      BY <2>4, <1>00, Going
    <3>2. pc'[j] \notin Hold
      BY <3>1 DEF Hold, Locked
    <3> QED
      BY <1>0, <1>00, <2>1, <2>4, <3>1, <3>2, Outside, Quiet
  <2>5. CASE /\ lock[step[j]] = None /\ lock' = [lock EXCEPT ![step[j]] = j]
             /\ Goto(j, "recheck") /\ UNCHANGED <<rt, bad>>
    <3>1. pc'[j] = "recheck" /\ \A k \in Jobs : k # j => pc'[k] = pc[k]
      BY <2>5, <1>00, Going
    <3>2. lock'[step[j]] = j /\ \A s \in Steps : s # step[j] => lock'[s] = lock[s]
      BY <2>3, <2>5, <1>00 DEF StoreTypes
    <3>3. Rows'
      BY <2>1 DEF Core, Rows
    <3>4. Own(j)'
      BY <1>0, <2>1, <2>5, <3>1, <3>2 DEF Own, Build
    <3>5. ASSUME NEW k \in Jobs, k # j PROVE Own(k)' /\ (pc'[k] = "mark" => step[k] # step[j])
      <4>1. pc'[k] = pc[k] /\ step'[k] = step[k] /\ rt'[k] = rt[k] /\ bad'[k] = bad[k] /\ Own(k)
        BY <1>0, <2>1, <2>5, <3>1, <3>5
      <4>2. CASE pc[k] \notin Hold
        BY <4>1, <4>2, Outside, <1>0
      <4>3. CASE pc[k] \in Hold
        <5>1. pc[k] \notin Past
          BY <4>3 DEF Past, Ended, Hold, Locked
        <5>2. step[k] \in Steps
          BY <5>1, <1>00, OnStep
        <5>3. step[k] = step[j] => step[k] \in meta /\ pc[k] # "mark"
          BY <4>1, <4>3, <2>5, BuildAssumption DEF Own
        <5>4. step[k] # step[j] => lock'[step[k]] = lock[step[k]]
          BY <5>2, <3>2
        <5> QED
          BY <2>1, <4>1, <5>3, <5>4 DEF Own
      <4> QED
        BY <4>2, <4>3
    <3>6. ASSUME NEW k \in Jobs, NEW l \in Jobs PROVE Apart(k, l)'
      <4>1. Apart(k, l)
        BY DEF Core
      <4> QED
        BY <2>1, <3>1, <3>5, <4>1 DEF Apart
    <3> QED
      BY <3>3, <3>4, <3>5, <3>6 DEF Core
  <2> QED
    BY <1>5, <2>4, <2>5 DEF TakeLock
<1>6. ASSUME NEW j \in Jobs, LockBusy(j) PROVE Core'
  <2>1. UNCHANGED <<meta, disk, marker, rt, bad, evict>> /\ pc[j] = "busy"
    BY <1>6 DEF LockBusy
  <2>2. pc[j] \notin Past
    BY <2>1 DEF Past, Ended
  <2>3. step[j] \in Steps
    BY <2>2, <1>00, OnStep
  <2>4. CASE marker[step[j]]
    <3>1. lock' = [lock EXCEPT ![step[j]] = None] /\ Advance(j)
      BY <1>6, <2>4 DEF LockBusy
    <3>2. pc'[j] = "begin" /\ \A k \in Jobs : k # j => pc'[k] = pc[k] /\ step'[k] = step[k]
      BY <3>1, <1>00, Next1
    <3>3. pc'[j] \notin Hold
      BY <3>2 DEF Hold, Locked
    <3>4. lock \in [Steps -> Jobs \cup {None}] /\ step \in [Jobs -> 1..(N + 1)]
      BY <1>00 DEF StoreTypes, RunTypes
    <3> QED
      BY <1>0, <1>00, <2>1, <2>3, <2>4, <3>1, <3>2, <3>3, <3>4, Releases
  <2>5. CASE ~marker[step[j]]
    <3>1. Goto(j, "lock") /\ UNCHANGED <<lock, step>>
      BY <1>6, <2>5 DEF LockBusy
    <3>2. pc'[j] = "lock" /\ \A k \in Jobs : k # j => pc'[k] = pc[k]
      BY <3>1, <1>00, Going
    <3>3. pc'[j] \notin Hold
      BY <3>2 DEF Hold, Locked
    <3> QED
      BY <1>0, <1>00, <2>1, <3>1, <3>2, <3>3, Outside, Quiet
  <2> QED
    BY <2>4, <2>5
<1>7. ASSUME NEW j \in Jobs, Recheck(j) PROVE Core'
  <2>1. UNCHANGED <<meta, step, rt, bad, evict>> /\ pc[j] = "recheck"
    BY <1>7 DEF Recheck
  <2>2. pc[j] \notin Past /\ pc[j] \in Hold
    BY <2>1 DEF Past, Ended, Hold, Locked
  <2>3. step[j] \in Steps
    BY <2>2, <1>00, OnStep
  <2>4. CASE step[j] \in meta
    <3>1. Goto(j, "unlock") /\ UNCHANGED <<disk, marker, lock>>
      BY <1>7, <2>4 DEF Recheck
    <3>2. pc'[j] = "unlock" /\ \A k \in Jobs : k # j => pc'[k] = pc[k]
      BY <3>1, <1>00, Going
    <3>3. Own(j)'
      BY <1>0, <2>1, <2>4, <3>2 DEF Own, Build
    <3> QED
      BY <1>00, <2>1, <2>2, <3>1, <3>2, <3>3, Quiet
  <2>5. CASE step[j] \notin meta
    <3>1. Goto(j, "runtime") /\ RemoveStateDir(step[j])
      BY <1>7, <2>5 DEF Recheck
    <3>2. pc'[j] = "runtime" /\ \A k \in Jobs : k # j => pc'[k] = pc[k]
      BY <3>1, <1>00, Going
    <3>3. disk' = [disk EXCEPT ![step[j]] = NoDir] /\ UNCHANGED <<marker, lock>>
      BY <3>1 DEF RemoveStateDir
    <3>4. Own(j)'
      BY <1>0, <2>1, <2>2, <2>5, <3>2, <3>3 DEF Own, Build
    <3>5. Others(j)
      BY <2>1, <3>2 DEF Others
    <3> QED
      BY <1>00, <2>1, <2>2, <2>3, <2>5, <3>2, <3>3, <3>4, <3>5, Values, Works
  <2> QED
    BY <2>4, <2>5
<1>8. ASSUME NEW j \in Jobs, StartRuntime(j) PROVE Core'
  <2>1. UNCHANGED <<meta, disk, marker, lock, step, evict>> /\ pc[j] = "runtime"
    BY <1>8 DEF StartRuntime, store
  <2>2. pc[j] \in Hold
    BY <2>1 DEF Hold, Locked
  <2>3. CASE FailTo(j)
    BY <1>00, <2>1, <2>3, FailCore
  <2>4. CASE EnsureRuntime(j, step[j] - 1) /\ Goto(j, "exec") /\ bad' = bad
    <3>1. pc'[j] = "exec" /\ \A k \in Jobs : k # j => pc'[k] = pc[k]
      BY <2>4, <1>00, Going
    <3>2. ~rt'[j].mark /\ \A k \in Jobs : k # j => rt'[k] = rt[k]
      BY <1>0, <1>00, <2>4, NoMark
    <3>3. Own(j)'
      BY <1>0, <2>1, <2>2, <3>1, <3>2 DEF Own, Build
    <3> QED
      BY <1>00, <2>1, <2>2, <2>4, <3>1, <3>2, <3>3, Quiet
  <2> QED
    BY <1>8, <2>3, <2>4 DEF StartRuntime
<1>9. ASSUME NEW j \in Jobs, ExecuteStep(j) PROVE Core'
  <2>1. UNCHANGED <<meta, disk, marker, lock, step, bad, evict>> /\ pc[j] = "exec"
    BY <1>9 DEF ExecuteStep, store
  <2>2. pc[j] \in Hold /\ pc[j] \notin Past
    BY <2>1 DEF Hold, Locked, Past, Ended
  <2>3. step[j] \in Steps /\ N \in Nat
    BY <2>2, <1>00, OnStep, BuildAssumption
  <2>4. PICK d : d = rt[j].data
    OBVIOUS
  <2>5. Applied(j, d) # {}
    <3>1. CASE j \notin Liquibase
      BY <3>1 DEF Applied
    <3>2. CASE j \in Liquibase /\ d = {}
      <4>1. 1 \in Steps /\ \A u \in Steps : 1 <= u
        BY <2>3 DEF Steps
      <4>2. 1 \in Applied(j, d)
        BY <3>2, <4>1 DEF Applied
      <4> QED
        BY <4>2
    <3>3. CASE j \in Liquibase /\ d # {}
      BY <3>3 DEF Applied
    <3> QED
      BY <3>1, <3>2, <3>3
  <2>6. PICK e : e = Applied(j, d)
    OBVIOUS
  <2>7. rt' = [rt EXCEPT ![j].data = e] /\ rt \in [Jobs -> RtRec]
    BY <1>9, <1>00, <2>4, <2>6 DEF ExecuteStep, RunTypes
  <2>8. rt'[j] = [rt[j] EXCEPT !.data = e] /\ \A k \in Jobs : k # j => rt'[k] = rt[k]
    BY <2>7
  <2>9. rt'[j].data = e /\ rt'[j].mark = rt[j].mark
    BY <2>7, <2>8 DEF RtRec
  <2>10. pc'[j] = "roomSnap" /\ \A k \in Jobs : k # j => pc'[k] = pc[k]
    BY <1>9, <1>00, Going DEF ExecuteStep
  <2>11. Own(j)'
    BY <1>0, <2>1, <2>2, <2>5, <2>6, <2>9, <2>10 DEF Own, Build
  <2> QED
    BY <1>00, <2>1, <2>2, <2>8, <2>10, <2>11, Quiet
<1>10. ASSUME NEW j \in Jobs, SnapshotStart(j) PROVE Core'
  <2>1. UNCHANGED <<meta, lock, step, evict>> /\ pc[j] = "snap"
    BY <1>10 DEF SnapshotStart
  <2>2. pc[j] \in Hold /\ pc[j] \notin Past
    BY <2>1 DEF Hold, Locked, Past, Ended
  <2>3. step[j] \in Steps /\ step[j] \notin meta
    BY <1>0, <1>00, <2>1, <2>2, OnStep DEF Own, Build
  <2>4. CASE FailTo(j) /\ UNCHANGED <<disk, marker>>
    BY <1>00, <2>1, <2>4, FailCore
  <2>5. CASE /\ disk' = [disk EXCEPT ![step[j]] = [dir |-> TRUE, data |-> {}]]
             /\ marker' = [marker EXCEPT ![step[j]] = @ \/ rt[j].mark]
             /\ Goto(j, "copy") /\ UNCHANGED <<rt, bad>>
    <3>1. [dir |-> TRUE, data |-> {}] \in DiskRec
      BY DEF DiskRec, Data
    <3>2. (marker[step[j]] \/ rt[j].mark) = marker[step[j]]
      BY <1>0, <1>00, <2>3 DEF StoreTypes
    <3>3. marker' = marker
      BY <1>00, <2>3, <2>5, <3>2 DEF StoreTypes
    <3>4. pc'[j] = "copy" /\ \A k \in Jobs : k # j => pc'[k] = pc[k]
      BY <1>00, <2>5, Going
    <3>5. Own(j)'
      BY <1>0, <2>1, <2>2, <2>3, <2>5, <3>4 DEF Own, Build
    <3>6. Others(j)
      BY <2>1, <2>5, <3>4 DEF Others
    <3> QED
      BY <1>00, <2>1, <2>2, <2>3, <2>5, <3>1, <3>3, <3>4, <3>5, <3>6, Works
  <2> QED
    BY <1>10, <2>4, <2>5 DEF SnapshotStart
<1>11. ASSUME NEW j \in Jobs, SnapshotEnd(j) PROVE Core'
  <2>1. UNCHANGED <<meta, marker, lock, step, rt, bad, evict>> /\ pc[j] = "copy"
    BY <1>11 DEF SnapshotEnd
  <2>2. pc[j] \in Hold /\ pc[j] \notin Past
    BY <2>1 DEF Hold, Locked, Past, Ended
  <2>3. step[j] \in Steps /\ step[j] \notin meta
    BY <1>0, <1>00, <2>1, <2>2, OnStep DEF Own, Build
  <2>4. PICK d \in DiskRec : d = [dir |-> TRUE, data |-> rt[j].data]
    BY <1>00 DEF RunTypes, RtRec, DiskRec
  <2>5. disk' = [disk EXCEPT ![step[j]] = d]
    BY <1>11, <2>4 DEF SnapshotEnd
  <2>6. disk'[step[j]] = d /\ d.dir = TRUE /\ d.data = rt[j].data
    BY <1>00, <2>3, <2>4, <2>5 DEF StoreTypes
  <2>7. pc'[j] = "commit" /\ \A k \in Jobs : k # j => pc'[k] = pc[k]
    BY <1>00, <1>11, Going DEF SnapshotEnd
  <2>8. Own(j)'
    BY <1>0, <2>1, <2>2, <2>3, <2>6, <2>7 DEF Own, Build
  <2>9. Others(j)
    BY <2>1, <2>7 DEF Others
  <2> QED
    BY <1>00, <2>1, <2>2, <2>3, <2>5, <2>7, <2>8, <2>9, Works
<1>12. ASSUME NEW j \in Jobs, Commit(j) PROVE Core'
  <2>1. UNCHANGED <<disk, marker, lock, step, rt, bad, evict>> /\ pc[j] = "commit"
        /\ meta' = meta \cup {step[j]}
    BY <1>12 DEF Commit
  <2>2. pc[j] \in Hold /\ pc[j] \notin Past
    BY <2>1 DEF Hold, Locked, Past, Ended
  <2>3. step[j] \in Steps /\ step[j] \notin meta /\ lock[step[j]] = j
        /\ disk[step[j]].dir /\ disk[step[j]].data # {}
    BY <1>0, <1>00, <2>1, <2>2, OnStep DEF Own, Build
  <2>4. pc'[j] = "mark" /\ \A k \in Jobs : k # j => pc'[k] = pc[k]
    BY <1>00, <1>12, Going DEF Commit
  <2>5. ~marker[step[j]]
    BY <2>3 DEF Core, Rows
  <2>6. Rows'
    BY <2>1, <2>3 DEF Core, Rows
  <2>7. Own(j)'
    BY <1>0, <2>1, <2>3, <2>4, <2>5 DEF Own, Build
  <2>8. ASSUME NEW k \in Jobs, k # j
        PROVE  Own(k)' /\ (pc[k] \in Hold => step[k] # step[j])
    <3>1. pc'[k] = pc[k] /\ step'[k] = step[k] /\ rt'[k] = rt[k] /\ bad'[k] = bad[k] /\ Own(k)
      BY <1>0, <2>1, <2>4, <2>8
    <3>2. pc[k] \in Hold => step[k] # step[j]
      BY <2>3, <2>8, <3>1 DEF Own
    <3>3. pc[k] \in Build => pc[k] \in Hold
      BY DEF Build, Hold, Locked
    <3> QED
      BY <2>1, <3>1, <3>2, <3>3 DEF Own
  <2>9. ASSUME NEW k \in Jobs, NEW l \in Jobs PROVE Apart(k, l)'
    <3>1. Apart(k, l) /\ step' = step
      BY <2>1 DEF Core
    <3>2. CASE k = j
      BY <2>4, <2>8, <3>1, <3>2 DEF Apart
    <3>3. CASE k # j
      <4>1. pc'[k] = pc[k] /\ (pc[k] = "mark" => pc[k] \in Hold)
        BY <2>4, <3>3 DEF Hold, Locked
      <4>2. CASE l = j
        BY <2>8, <3>1, <3>3, <4>1, <4>2 DEF Apart
      <4>3. CASE l # j
        BY <2>4, <3>1, <4>1, <4>3 DEF Apart
      <4> QED
        BY <4>2, <4>3
    <3> QED
      BY <3>2, <3>3
  <2> QED
    BY <2>6, <2>7, <2>8, <2>9 DEF Core
<1>13. ASSUME NEW j \in Jobs, WriteMarker(j) PROVE Core'
  <2>1. UNCHANGED <<meta, lock, step, rt, bad, evict>> /\ pc[j] = "mark"
        /\ marker' = [marker EXCEPT ![step[j]] = TRUE]
    BY <1>13 DEF WriteMarker
  <2>2. pc[j] \in Hold /\ pc[j] \notin Past
    BY <2>1 DEF Hold, Locked, Past, Ended
  <2>3. step[j] \in Steps /\ step[j] \in meta
    BY <1>0, <1>00, <2>1, <2>2, OnStep DEF Own
  <2>4. disk' = disk
    BY <1>00, <1>13, <2>3 DEF WriteMarker, EnsuredDir, StoreTypes
  <2>5. pc'[j] = "roomEnd" /\ \A k \in Jobs : k # j => pc'[k] = pc[k]
    BY <1>00, <1>13, Going DEF WriteMarker
  <2>6. \A s \in Steps : s # step[j] => marker'[s] = marker[s]
    BY <1>00, <2>1 DEF StoreTypes
  <2>7. Rows'
    BY <2>1, <2>3, <2>4, <2>6 DEF Core, Rows
  <2>8. Own(j)'
    BY <1>0, <2>1, <2>3, <2>5 DEF Own, Build
  <2>9. ASSUME NEW k \in Jobs, k # j PROVE Own(k)'
    <3>1. pc'[k] = pc[k] /\ step'[k] = step[k] /\ rt'[k] = rt[k] /\ bad'[k] = bad[k] /\ Own(k)
      BY <1>0, <2>1, <2>5, <2>9
    <3>2. CASE pc[k] = "mark"
      <4>1. pc[k] \notin Past /\ pc[k] \in Hold
        BY <3>2 DEF Past, Ended, Hold, Locked
      <4>2. step[k] \in Steps /\ step[k] # step[j]
        BY <4>1, <1>00, OnStep, <2>1, <2>9 DEF Core, Apart
      <4> QED
        BY <2>1, <2>4, <2>6, <3>1, <4>2 DEF Own
    <3>3. CASE pc[k] # "mark"
      BY <2>1, <2>4, <3>1, <3>3 DEF Own
    <3> QED
      BY <3>2, <3>3
  <2>10. ASSUME NEW k \in Jobs, NEW l \in Jobs PROVE Apart(k, l)'
    BY <2>1, <2>2, <2>5 DEF Core, Apart
  <2> QED
    BY <2>7, <2>8, <2>9, <2>10 DEF Core
<1>14. ASSUME NEW j \in Jobs, Unlock(j) PROVE Core'
  <2>1. UNCHANGED <<meta, disk, marker, bad, evict>> /\ pc[j] = "unlock"
        /\ lock' = [lock EXCEPT ![step[j]] = None]
    BY <1>14 DEF Unlock
  <2>2. pc[j] \in Hold /\ pc[j] \notin Past
    BY <2>1 DEF Hold, Locked, Past, Ended
  <2>3. step[j] \in Steps
    BY <1>00, <2>2, OnStep
  <2>4. /\ pc'[j] \in {"failed", "begin"} /\ (rt'[j] = Off \/ rt'[j] = rt[j])
        /\ \A k \in Jobs : k # j => pc'[k] = pc[k] /\ step'[k] = step[k] /\ rt'[k] = rt[k]
    BY <1>00, <1>14 DEF Unlock, Goto, Advance, RunTypes
  <2>5. pc'[j] \notin Hold
    BY <2>4 DEF Hold, Locked
  <2>6. ~rt'[j].mark
    BY <1>0, <2>4 DEF Off
  <2>7. lock \in [Steps -> Jobs \cup {None}] /\ step \in [Jobs -> 1..(N + 1)]
    BY <1>00 DEF StoreTypes, RunTypes
  <2> QED
    BY <1>00, <2>1, <2>2, <2>3, <2>4, <2>5, <2>6, <2>7, Releases
<1>15. ASSUME NEW j \in Jobs, PrepareInstance(j) PROVE Core'
  <2>1. UNCHANGED <<meta, disk, marker, lock, step, evict>>
    BY <1>15 DEF PrepareInstance, store
  <2>2. CASE FailTo(j)
    BY <1>00, <2>1, <2>2, FailCore
  <2>3. CASE EnsureRuntime(j, Last[j]) /\ Goto(j, "insert") /\ bad' = bad
    <3>1. pc'[j] = "insert" /\ \A k \in Jobs : k # j => pc'[k] = pc[k]
      BY <2>3, <1>00, Going
    <3>2. ~rt'[j].mark /\ \A k \in Jobs : k # j => rt'[k] = rt[k]
      BY <1>0, <1>00, <2>3, NoMark
    <3>3. pc'[j] \notin Hold
      BY <3>1 DEF Hold, Locked
    <3> QED
      BY <1>00, <2>1, <2>3, <3>1, <3>2, <3>3, Outside, Quiet
  <2> QED
    BY <1>15, <2>2, <2>3 DEF PrepareInstance
<1>16. ASSUME NEW j \in Jobs, InsertInstance(j) PROVE Core'
  <2>1. UNCHANGED <<meta, disk, marker, lock, step, evict>>
    BY <1>16 DEF InsertInstance
  <2>2. CASE FailTo(j)
    BY <1>00, <2>1, <2>2, FailCore
  <2>3. CASE Goto(j, "done") /\ UNCHANGED <<rt, bad>>
    <3>1. pc'[j] = "done" /\ \A k \in Jobs : k # j => pc'[k] = pc[k]
      BY <2>3, <1>00, Going
    <3>2. pc'[j] \notin Hold
      BY <3>1 DEF Hold, Locked
    <3> QED
      BY <1>0, <1>00, <2>1, <2>3, <3>1, <3>2, Outside, Quiet
  <2> QED
    BY <1>16, <2>2, <2>3 DEF InsertInstance
<1>17. ASSUME NEW j \in Jobs, Fail(j) PROVE Core'
  <2>1. UNCHANGED <<meta, disk, marker, lock, step, evict>> /\ FailTo(j)
    BY <1>17 DEF Fail, store
  <2> QED
    BY <1>00, <2>1, FailCore
<1>18. ASSUME NEW j \in Jobs, CommitFails(j) PROVE Core'
  <2>1. UNCHANGED <<meta, step, evict>> /\ pc[j] = "commit" /\ FailTo(j) /\ RemoveStateDir(step[j])
    BY <1>18 DEF CommitFails
  <2>2. pc[j] \in Hold /\ pc[j] \notin Past /\ pc[j] \in Locked
    BY <2>1 DEF Hold, Locked, Past, Ended
  <2>3. step[j] \in Steps /\ step[j] \notin meta
    BY <1>0, <1>00, <2>1, <2>2, OnStep DEF Own, Build
  <2>4. disk' = [disk EXCEPT ![step[j]] = NoDir] /\ UNCHANGED <<marker, lock>>
    BY <2>1 DEF RemoveStateDir
  <2>5. /\ pc'[j] = "unlock" /\ bad'[j] = TRUE /\ rt' = rt
        /\ \A k \in Jobs : k # j => pc'[k] = pc[k] /\ bad'[k] = bad[k]
    BY <1>00, <2>1, <2>2 DEF FailTo, Goto, RunTypes
  <2>6. Own(j)'
    BY <1>0, <2>1, <2>2, <2>4, <2>5 DEF Own, Build
  <2>7. Others(j)
    BY <2>1, <2>5 DEF Others
  <2> QED
    BY <1>00, <2>1, <2>2, <2>3, <2>4, <2>5, <2>6, <2>7, Values, Works
<1>19. ASSUME NEW j \in Jobs, EvictBegin(j) PROVE Core'
  <2>1. count \in CountRec /\ count' = [count EXCEPT !.evictions = @ + 1]
    BY <1>19 DEF TInv, EvictTypes, EvictBegin
  <2>2. count.evictions \in Nat /\ count'.evictions = count.evictions + 1
    BY <2>1 DEF CountRec
  <2> QED
    BY <2>2
<1>20. ASSUME NEW j \in Jobs, EvictDir(j) \/ EvictRow(j) \/ EvictEnd(j) \/ EvictFails(j)
       PROVE  Core'
  BY <1>0, <1>20 DEF EvictDir, EvictRow, EvictEnd, EvictFails
<1>21. ASSUME UNCHANGED <<meta, disk, marker, lock, run, evict>> PROVE Core'
  BY <1>21 DEF Core, Rows, Own, Apart, run
<1>22. ASSUME NEW s \in Steps, Age(s) PROVE Core'
  BY <1>21, <1>22 DEF Age
<1>23. ASSUME Crash PROVE Core'
  <2>1. UNCHANGED <<meta, disk, marker, lock>> /\ evict' = Idle
    BY <1>23 DEF Crash, store
  <2>2. ASSUME NEW k \in Jobs PROVE pc'[k] \in {"done", "failed", "idle", "begin", "resume"}
                                    /\ rt'[k] = Off
    BY <1>23 DEF Crash, Ended
  <2>3. ASSUME NEW k \in Jobs PROVE pc'[k] \notin Hold /\ ~rt'[k].mark
    BY <2>2 DEF Hold, Locked, Off
  <2>4. \A k \in Jobs : Own(k)' /\ pc'[k] # "mark"
    BY <2>3, Outside
  <2>5. \A k, l \in Jobs : Apart(k, l)'
    BY <2>4 DEF Apart
  <2>6. Rows'
    BY <2>1, Values DEF Core, Rows
  <2> QED
    BY <2>4, <2>5, <2>6 DEF Core
<1>24. ASSUME UNCHANGED vars PROVE Core'
  BY <1>21, <1>24 DEF vars, store, run
<1> QED
  BY <1>1, <1>2, <1>3, <1>4, <1>5, <1>6, <1>7, <1>8, <1>9, <1>10, <1>11, <1>12, <1>13, <1>14,
     <1>15, <1>16, <1>17, <1>18, <1>19, <1>20, <1>22, <1>23, <1>24 DEF Next, JobStep

\* The count of evictions never goes back to zero.
LEMMA EvictionsGrow ==
  ASSUME TInv, [Next]_vars, count'.evictions = 0
  PROVE  count.evictions = 0
<1>1. count \in CountRec
  BY DEF TInv, EvictTypes
<1>2. CASE count' = [count EXCEPT !.evictions = @ + 1]
  <2>1. count.evictions \in Nat /\ count'.evictions = count.evictions + 1
    BY <1>1, <1>2 DEF CountRec
  <2> QED
    BY <2>1
<1>3. CASE count' = [count EXCEPT !.failures = @ + 1] \/ count' = [count EXCEPT !.crashes = @ + 1]
  BY <1>1, <1>3 DEF CountRec
<1>4. CASE count' = count
  BY <1>4
<1> QED
  BY <1>2, <1>3, <1>4 DEF Next, JobStep, PlanStart, PlanStep, BeginTask, CheckCache, HasRoom,
     TakeLock, LockBusy, Recheck, StartRuntime, ExecuteStep, SnapshotStart, SnapshotEnd, Commit,
     WriteMarker, Unlock, PrepareInstance, InsertInstance, Resume, EvictDir, EvictRow, EvictEnd,
     EvictBegin, Fail, Failure, EvictFails, CommitFails, Age, Crash, vars

\* The invariant behind the theorems of btrfs.
LEMMA BuildInv == Spec => []SInv
<1>1. Init => SInv
  BY TypesStart, CoreStart DEF SInv
<1>2. ASSUME SInv, [Next]_vars PROVE SInv'
  <2>1. TInv'
    BY <1>2, TypesKept DEF SInv
  <2>2. ASSUME Undisturbed' PROVE Core'
    <3>1. Kind = "btrfs" /\ count'.evictions = 0
      BY <2>2 DEF Undisturbed
    <3>2. Undisturbed
      BY <1>2, <3>1, EvictionsGrow DEF SInv, Undisturbed
    <3> QED
      BY <1>2, <3>1, <3>2, CoreKept DEF SInv
  <2> QED
    BY <2>1, <2>2 DEF SInv
<1> QED
  BY <1>1, <1>2, PTL DEF Spec

\* withStateBuildLock on btrfs: until something is evicted, no two jobs build the same
\* state at the same time, however many jobs want it and wherever they fail or the engine
\* dies (execution.go).  A waiter that finds the marker removes a lock file it does not
\* own; that never frees a state that is still being built.
THEOREM OneBuilder == Spec => []BuiltByOne
<1>1. SInv => BuiltByOne
  <2> SUFFICES ASSUME Core, NEW s \in Steps, NEW j \in Jobs, NEW k \in Jobs,
                      Building(j, s), Building(k, s)
               PROVE  j = k
    BY DEF SInv, BuiltByOne, ExclusiveBuild
  <2>1. Own(j) /\ Own(k) /\ Apart(j, k) /\ Apart(k, j)
    BY DEF Core
  <2>2. step[j] = s /\ step[k] = s /\ pc[j] \in Hold /\ pc[k] \in Hold
        /\ pc[j] \in Build \cup {"mark"} /\ pc[k] \in Build \cup {"mark"}
    BY DEF Building, Hold, Locked, Build
  <2>3. CASE pc[j] = "mark" \/ pc[k] = "mark"
    BY <2>1, <2>2, <2>3 DEF Apart
  <2>4. CASE pc[j] \in Build /\ pc[k] \in Build
    BY <2>1, <2>2, <2>4 DEF Own
  <2> QED
    BY <2>2, <2>3, <2>4
<1> QED
  BY <1>1, BuildInv, PTL

\* A row of the states table on btrfs never stands for a directory that is missing or
\* half copied: executeStateTask commits after the snapshot, and whoever rebuilds a state
\* has seen under the lock that it has no row.
THEOREM RowsAreWhole == Spec => []RowsWhole
<1>1. SInv => RowsWhole
  BY DEF SInv, Core, Rows, RowsWhole, CachedPresent
<1> QED
  BY <1>1, BuildInv, PTL

\* A state_execute task that ends without an error leaves its state in the cache, whether
\* it was found, built, waited for or resumed after a crash.
THEOREM StepsAreCached == Spec => StepLeavesState
<1>1. ASSUME SInv, Next PROVE Undisturbed => StepCached
  <2> SUFFICES ASSUME Core, NEW j \in Jobs, step'[j] > step[j], pc[j] # "plan"
               PROVE  step[j] \in meta'
    BY <1>1 DEF SInv, StepCached
  <2>0. TInv /\ Own(j) /\ step[j] \in Nat
    BY <1>1, BuildAssumption DEF SInv, Core, TInv, RunTypes
  <2>1. step'[j] # step[j]
    BY <2>0
  <2>2. ASSUME NEW k \in Jobs, Advance(k) PROVE j = k
    BY <2>1, <2>2, <2>0, Next1 DEF TInv
  <2>3. ASSUME NEW k \in Jobs, BeginTask(k) PROVE step[j] \in meta'
    BY <2>1, <2>2, <2>3 DEF BeginTask, store
  <2>4. ASSUME NEW k \in Jobs, CheckCache(k) PROVE step[j] \in meta'
    BY <2>1, <2>2, <2>4 DEF CheckCache, store
  <2>5. ASSUME NEW k \in Jobs, LockBusy(k) PROVE step[j] \in meta'
    <3>1. marker[step[k]] /\ j = k /\ pc[k] = "busy" /\ meta' = meta
      BY <2>1, <2>2, <2>5 DEF LockBusy
    <3>2. step[j] \in Steps
      BY <2>0, <3>1, OnStep DEF TInv, Past, Ended
    <3> QED
      BY <3>1, <3>2 DEF Core, Rows
  <2>6. ASSUME NEW k \in Jobs, Unlock(k) PROVE step[j] \in meta'
    <3>1. ~bad[k] /\ j = k /\ pc[k] = "unlock" /\ meta' = meta
      BY <2>1, <2>2, <2>6 DEF Unlock
    <3> QED
      BY <3>1, <2>0 DEF Own
  <2>7. ASSUME NEW k \in Jobs, Resume(k) PROVE step[j] \in meta'
    BY <2>1, <2>2, <2>7 DEF Resume, store
  <2>8. ASSUME NEW k \in Jobs, PlanStep(k) PROVE FALSE
    BY <2>0, <2>1, <2>8 DEF PlanStep, TInv, RunTypes
  <2>9. ASSUME Crash PROVE FALSE
    BY <2>1, <2>9 DEF Crash
  <2> QED
    BY <1>1, <2>1, <2>3, <2>4, <2>5, <2>6, <2>7, <2>8, <2>9 DEF Next, JobStep, PlanStart, HasRoom,
       TakeLock, Recheck, StartRuntime, ExecuteStep, SnapshotStart, SnapshotEnd, Commit,
       WriteMarker, PrepareInstance, InsertInstance, EvictDir, EvictRow, EvictEnd, EvictBegin,
       Fail, EvictFails, CommitFails, Age, run
<1>2. SInv /\ [Next]_vars => [Undisturbed => StepCached]_vars
  BY <1>1
<1> QED
  BY <1>2, BuildInv, PTL DEF Spec, StepLeavesState

=============================================================================
