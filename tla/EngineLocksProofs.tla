-------------------------- MODULE EngineLocksProofs --------------------------
(***************************************************************************)
(* The theorems about the lock files of an engine.  BaseInit: for any set  *)
(* of jobs and any number of failing calls and crashes, one initdb at a    *)
(* time, and no job uses a base directory before a whole initdb.           *)
(* CacheCapacity: for any cache, any sizes and any number of callers, one  *)
(* eviction at a time, few states evicted in vain, and none just committed.*)
(***************************************************************************)
EXTENDS EngineLocks, Sequences, FiniteSetTheorems, WellFoundedInduction, TLAPS

-----------------------------------------------------------------------------
(* The inductive invariant.  The lock file alone does not exclude anybody: *)
(* a waiter that sees the marker removes it under the feet of its holder.  *)
(* What holds is that until the marker is there the lock is respected, and *)
(* that from then on no job works in the directory.                        *)

Working == {"reset", "initdb", "mark"}
Holding == Working \cup {"locked", "unlock", "unlockfail"}

\* The directory is wiped only if it was left by another backend.
NoWipe == ~foreign => dir # "foreign" /\ \A j \in Jobs : pc[j] # "wipe"

\* Without a marker there is one holder at most, and it has the lock file.
LockRespected ==
    ~foreign /\ ~marker =>
      \A j \in Jobs : pc[j] \in Holding =>
        lock /\ \A k \in Jobs : pc[k] \in Holding => k = j

\* With a marker nobody works in the directory, and the marker stays.
MarkerEndsWork ==
    ~foreign => /\ marker => \A j \in Jobs : pc[j] \notin Working
                /\ \A j \in Jobs : pc[j] \in {"use", "unlock"} => marker

\* Data that is not whole belongs to the initdb that is running; what gets or has
\* the marker is whole.
DataWhole ==
    ~foreign /\ ~spoilt =>
      /\ marker => data = "full"
      /\ \A j \in Jobs : pc[j] = "mark" => data = "full"
      /\ data = "partial" => \E j \in Jobs : pc[j] = "initdb"

Control == NoWipe /\ LockRespected /\ MarkerEndsWork /\ DataWhole

IInv == TypeOK /\ Control

-----------------------------------------------------------------------------
\* A set without two different elements has at most one.
LEMMA AtMostOne ==
  ASSUME NEW S, \A x, y \in S : x = y
  PROVE  Cardinality(S) <= 1
<1>1. CASE S = {}
  BY <1>1, FS_EmptySet
<1>2. CASE S # {}
  <2>1. PICK x \in S : TRUE
    BY <1>2
  <2>2. S = {x}
    BY <2>1
  <2> QED
    BY <2>2, FS_Singleton
<1> QED
  BY <1>1, <1>2

\* No file, no job: the initial states satisfy the invariant.
LEMMA InvInit == Init => IInv
<1> SUFFICES ASSUME Init PROVE IInv
  OBVIOUS
<1>1. TypeOK
  <2>1. fails \in 0..MaxFails /\ crashes \in 0..MaxCrashes
    BY BaseAssumption DEF Init
  <2> QED
    BY <2>1, Zenon DEF Init, TypeOK
<1>2. Control
  BY DEF Init, Control, NoWipe, LockRespected, MarkerEndsWork, DataWhole, Holding, Working
<1> QED
  BY <1>1, <1>2 DEF IInv

\* A failing call counts, up to the bound.
LEMMA FailCounts == fails \in 0..MaxFails /\ Fail => fails' \in 0..MaxFails
  BY BaseAssumption DEF Fail

\* Every call of a job, every crash and every step of waiting keeps the types.
LEMMA TypeStep == TypeOK /\ [Next]_vars => TypeOK'
<1> SUFFICES ASSUME TypeOK, [Next]_vars PROVE TypeOK'
  OBVIOUS
<1> USE BaseAssumption, FailCounts DEF TypeOK, fixed, Goto
<1>1. ASSUME NEW j \in Jobs, EnsureBaseState(j) PROVE TypeOK'
  BY <1>1 DEF EnsureBaseState
<1>2. ASSUME NEW j \in Jobs, MkdirBase(j) PROVE TypeOK'
  BY <1>2 DEF MkdirBase
<1>3. ASSUME NEW j \in Jobs, StatSubvolume(j) PROVE TypeOK'
  BY <1>3 DEF StatSubvolume
<1>4. ASSUME NEW j \in Jobs, WipeForeign(j) PROVE TypeOK'
  BY <1>4 DEF WipeForeign
<1>5. ASSUME NEW j \in Jobs, CreateSubvolume(j) PROVE TypeOK'
  BY <1>5 DEF CreateSubvolume
<1>6. ASSUME NEW j \in Jobs, TakeLock(j) PROVE TypeOK'
  BY <1>6 DEF TakeLock
<1>7. ASSUME NEW j \in Jobs, SkipLock(j) PROVE TypeOK'
  BY <1>7 DEF SkipLock
<1>8. ASSUME NEW j \in Jobs, GiveUp(j) PROVE TypeOK'
  BY <1>8 DEF GiveUp
<1>9. ASSUME NEW j \in Jobs, UnderLock(j) PROVE TypeOK'
  BY <1>9 DEF UnderLock
<1>10. ASSUME NEW j \in Jobs, ResetAndInitdb(j) PROVE TypeOK'
  BY <1>10 DEF ResetAndInitdb
<1>11. ASSUME NEW j \in Jobs, InitdbDone(j) PROVE TypeOK'
  BY <1>11 DEF InitdbDone
<1>12. ASSUME NEW j \in Jobs, WriteInitMarker(j) PROVE TypeOK'
  BY <1>12 DEF WriteInitMarker
<1>13. ASSUME NEW j \in Jobs, Unlock(j) PROVE TypeOK'
  BY <1>13 DEF Unlock
<1>14. CASE Crash
  BY <1>14 DEF Crash
<1>15. CASE UNCHANGED vars
  BY <1>15 DEF vars
<1> QED
  BY <1>1, <1>2, <1>3, <1>4, <1>5, <1>6, <1>7, <1>8, <1>9, <1>10, <1>11, <1>12, <1>13, <1>14,
     <1>15 DEF Next, Progress, Poll, Finished

\* The same for the part about lock, marker and data.
LEMMA ControlStep == IInv /\ [Next]_vars => Control'
<1> SUFFICES ASSUME IInv, [Next]_vars PROVE Control'
  OBVIOUS
<1> USE DEF IInv, TypeOK, Control, NoWipe, LockRespected, MarkerEndsWork, DataWhole, Holding,
        Working, fixed, Goto
<1>1. ASSUME NEW j \in Jobs, EnsureBaseState(j) PROVE Control'
  BY <1>1 DEF EnsureBaseState
<1>2. ASSUME NEW j \in Jobs, MkdirBase(j) PROVE Control'
  BY <1>2 DEF MkdirBase
<1>3. ASSUME NEW j \in Jobs, StatSubvolume(j) PROVE Control'
  BY <1>3 DEF StatSubvolume
<1>4. ASSUME NEW j \in Jobs, WipeForeign(j) PROVE Control'
  BY <1>4 DEF WipeForeign
<1>5. ASSUME NEW j \in Jobs, CreateSubvolume(j) PROVE Control'
  BY <1>5 DEF CreateSubvolume
<1>6. ASSUME NEW j \in Jobs, TakeLock(j) PROVE Control'
  BY <1>6 DEF TakeLock
<1>7. ASSUME NEW j \in Jobs, SkipLock(j) PROVE Control'
  BY <1>7 DEF SkipLock
<1>8. ASSUME NEW j \in Jobs, GiveUp(j) PROVE Control'
  BY <1>8 DEF GiveUp
<1>9. ASSUME NEW j \in Jobs, UnderLock(j) PROVE Control'
  BY <1>9 DEF UnderLock
<1>10. ASSUME NEW j \in Jobs, ResetAndInitdb(j) PROVE Control'
  BY <1>10 DEF ResetAndInitdb
<1>11. ASSUME NEW j \in Jobs, InitdbDone(j) PROVE Control'
  BY <1>11 DEF InitdbDone
<1>12. ASSUME NEW j \in Jobs, WriteInitMarker(j) PROVE Control'
  BY <1>12 DEF WriteInitMarker
<1>13. ASSUME NEW j \in Jobs, Unlock(j) PROVE Control'
  BY <1>13 DEF Unlock
<1>14. CASE Crash
  BY <1>14 DEF Crash
<1>15. CASE UNCHANGED vars
  BY <1>15 DEF vars
<1> QED
  BY <1>1, <1>2, <1>3, <1>4, <1>5, <1>6, <1>7, <1>8, <1>9, <1>10, <1>11, <1>12, <1>13, <1>14,
     <1>15 DEF Next, Progress, Poll, Finished

\* The invariant holds in every execution of ensureBaseState.
LEMMA Inductive == Spec => []IInv
<1>1. IInv /\ [Next]_vars => IInv'
  BY TypeStep, ControlStep DEF IInv
<1> QED
  BY <1>1, InvInit, PTL DEF Spec

-----------------------------------------------------------------------------
\* Files, data and jobs keep the values ensureBaseState gives them.
THEOREM BaseTypes == Spec => []TypeOK
<1>1. IInv => TypeOK
  BY DEF IInv
<1> QED
  BY <1>1, Inductive, PTL

\* In every execution on a directory that no other backend left, at most one job is
\* between resetBaseDirContents and its marker, although waiters remove lock files
\* they do not hold and crashes leave some behind.
THEOREM OneInitdb == Spec => []InitExclusive
<1>1. IInv => InitExclusive
  <2> SUFFICES ASSUME IInv, ~foreign
               PROVE  Cardinality({j \in Jobs : pc[j] \in Working}) <= 1
    BY DEF InitExclusive, Working
  <2>1. \A j, k \in Jobs : pc[j] \in Working /\ pc[k] \in Working => j = k
    BY DEF IInv, Control, LockRespected, MarkerEndsWork, Holding
  <2>2. \A j, k \in {i \in Jobs : pc[i] \in Working} : j = k
    BY <2>1
  <2> QED
    BY <2>2, AtMostOne
<1> QED
  BY <1>1, Inductive, PTL

\* In every execution a job goes on from ensureBaseState only over a whole initdb,
\* unless one was cut short with PG_VERSION in place, PG_VERSION could not be
\* inspected, or the directory was left by another backend.
THEOREM UsedOnlyComplete == Spec => []UsedComplete
<1>1. IInv => UsedComplete
  BY DEF IInv, Control, MarkerEndsWork, DataWhole, UsedComplete
<1> QED
  BY <1>1, Inductive, PTL

\* In every execution ensureBaseState keeps both promises: one initdb at a time, and no
\* job that goes on over an unfinished one.
THEOREM BaseAlwaysComplete == Spec => []BaseComplete
<1>1. UsedComplete /\ InitExclusive => BaseComplete
  BY DEF BaseComplete
<1> QED
  BY <1>1, OneInitdb, UsedOnlyComplete, PTL

-----------------------------------------------------------------------------
(* ensureCacheCapacity.  First what ListEvictionCandidates chooses: the    *)
(* order is total enough for every finite set to have a last element, so   *)
(* for every finite set to have a sorted enumeration.                      *)

\* No state goes before itself, and the order is transitive.
LEMMA GoesOrder ==
  /\ \A a \in Cache!States : ~Cache!Goes(a, a)
  /\ \A a, b, c \in Cache!States : Cache!Goes(a, b) /\ Cache!Goes(b, c) => Cache!Goes(a, c)
<1>1. \A a \in Cache!States : LastUsed[a] \in Nat /\ Size[a] \in Nat
  BY CacheAssumption
<1> QED
  BY <1>1 DEF Cache!Goes

\* A set of finite subsets that is not empty has a least one by inclusion.
LEMMA LeastSubset ==
  ASSUME NEW S, NEW F \in SUBSET FiniteSubsetsOf(S), F # {}
  PROVE  \E U \in F : \A V \in F : ~(V \subseteq U /\ V # U)
<1>1. PICK U \in F : \A V \in F : <<V, U>> \notin StrictSubsetOrdering(S)
  BY FS_StrictSubsetOrderingWellFounded, WFMin
<1>2. ASSUME NEW V \in F, V \subseteq U, V # U
      PROVE  FALSE
  <2>1. <<V, U>> \in StrictSubsetOrdering(S)
    BY <1>2 DEF StrictSubsetOrdering, FiniteSubsetsOf
  <2> QED
    BY <1>1, <2>1
<1> QED
  BY <1>2

\* A finite set of states that is not empty has one that goes before none of the others.
LEMMA LastOne ==
  ASSUME NEW S \in SUBSET Cache!States, IsFiniteSet(S), S # {}
  PROVE  \E m \in S : \A x \in S : ~Cache!Goes(m, x)
<1> DEFINE Lasts(U) == \E m \in U : \A x \in U : ~Cache!Goes(m, x)
           F == {U \in FiniteSubsetsOf(S) : U # {} /\ ~Lasts(U)}
<1> SUFFICES ASSUME F # {} PROVE FALSE
  <2>1. S \in FiniteSubsetsOf(S)
    BY DEF FiniteSubsetsOf
  <2> QED
    BY <2>1
<1>1. PICK U \in F : \A V \in F : ~(V \subseteq U /\ V # U)
  <2>1. F \in SUBSET FiniteSubsetsOf(S)
    OBVIOUS
  <2> HIDE DEF F
  <2> QED
    BY <2>1, LeastSubset
<1>2. U \in SUBSET Cache!States /\ IsFiniteSet(U) /\ U # {} /\ ~Lasts(U) /\ U \subseteq S
  BY DEF FiniteSubsetsOf
<1>3. PICK x \in U : TRUE
  BY <1>2
<1> DEFINE V == U \ {x}
<1>4. V \in FiniteSubsetsOf(S) /\ V \subseteq U /\ V # U
  BY <1>2, <1>3, FS_RemoveElement DEF FiniteSubsetsOf
<1>5. V = {} \/ Lasts(V)
  BY <1>1, <1>4
<1>6. CASE V = {}
  <2>1. U = {x}
    BY <1>6, <1>3
  <2> QED
    BY <2>1, <1>2, <1>3, GoesOrder
<1>7. CASE Lasts(V)
  <2>1. PICK m \in V : \A y \in V : ~Cache!Goes(m, y)
    BY <1>7
  <2>2. CASE ~Cache!Goes(m, x)
    BY <2>1, <2>2, <1>2
  <2>3. CASE Cache!Goes(m, x)
    <3>1. \A y \in V : ~Cache!Goes(x, y)
      BY <2>1, <2>3, <1>2, <1>3, GoesOrder
    <3>2. ~Cache!Goes(x, x)
      BY <1>2, <1>3, GoesOrder
    <3> QED
      BY <3>1, <3>2, <1>2, <1>3
  <2> QED
    BY <2>2, <2>3
<1> QED
  BY <1>5, <1>6, <1>7

\* Sorted(q, n, S): q enumerates n different elements of S in the order of eviction.
Sorted(q, n, S) == q \in [1..n -> S] /\ Cache!InOrder(q)

\* Every finite set of states can be sorted.
LEMMA SortedExists ==
  ASSUME NEW S \in SUBSET Cache!States, IsFiniteSet(S)
  PROVE  \E q : Sorted(q, Cardinality(S), S)
<1> DEFINE F == {U \in FiniteSubsetsOf(S) : ~\E q : Sorted(q, Cardinality(U), U)}
<1> SUFFICES ASSUME F # {} PROVE FALSE
  <2>1. S \in FiniteSubsetsOf(S)
    BY DEF FiniteSubsetsOf
  <2> QED
    BY <2>1
<1>1. PICK U \in F : \A V \in F : ~(V \subseteq U /\ V # U)
  <2>1. F \in SUBSET FiniteSubsetsOf(S)
    OBVIOUS
  <2> HIDE DEF F
  <2> QED
    BY <2>1, LeastSubset
<1>2. U \in SUBSET Cache!States /\ IsFiniteSet(U) /\ U \subseteq S
      /\ ~\E q : Sorted(q, Cardinality(U), U)
  BY DEF FiniteSubsetsOf
<1>3. U # {}
  <2> SUFFICES ASSUME U = {} PROVE FALSE
    OBVIOUS
  <2>1. Cardinality(U) = 0
    BY FS_EmptySet
  <2>2. Sorted([i \in 1..0 |-> 0], 0, U)
    BY DEF Sorted, Cache!InOrder
  <2> QED
    BY <2>1, <2>2, <1>2
<1>4. PICK m \in U : \A x \in U : ~Cache!Goes(m, x)
  BY <1>2, <1>3, LastOne
<1> DEFINE V == U \ {m}
           n == Cardinality(V)
<1>5. V \in FiniteSubsetsOf(S) /\ V \subseteq U /\ V # U
  BY <1>2, <1>4, FS_RemoveElement DEF FiniteSubsetsOf
<1>6. n \in Nat /\ Cardinality(U) = n + 1
  <2>1. IsFiniteSet(V) /\ Cardinality(V) = Cardinality(U) - 1
    BY <1>2, <1>4, FS_RemoveElement
  <2>2. Cardinality(V) \in Nat /\ Cardinality(U) \in Nat
    BY <2>1, <1>2, FS_CardinalityType
  <2> QED
    BY <2>1, <2>2
<1>7. PICK q : Sorted(q, n, V)
  <2>1. V \notin F
    BY <1>1, <1>5
  <2>2. \E q : Sorted(q, Cardinality(V), V)
    BY <2>1, <1>5
  <2> QED
    BY <2>2
<1> DEFINE r == [i \in 1..n+1 |-> IF i = n + 1 THEN m ELSE q[i]]
<1>8. Sorted(r, n + 1, U)
  <2> HIDE DEF n
  <2>1. \A i \in 1..n : q[i] \in V /\ r[i] = q[i]
    BY <1>6, <1>7 DEF Sorted, Cache!InOrder
  <2>2. r[n + 1] = m
    BY <1>6
  <2>3. r \in [1..n+1 -> U]
    <3>1. ASSUME NEW i \in 1..n+1 PROVE r[i] \in U
      <4>1. i = n + 1 \/ i \in 1..n
        BY <1>6
      <4> QED
        BY <4>1, <2>1, <2>2, <1>4
    <3>2. r = [i \in 1..n+1 |-> r[i]]
      OBVIOUS
    <3> HIDE DEF r
    <3> QED
      BY <3>1, <3>2
  <2>4. ASSUME NEW i \in 1..n+1, NEW k \in 1..n+1, i < k
        PROVE  r[i] # r[k] /\ ~Cache!Goes(r[k], r[i])
    <3>1. CASE k = n + 1
      <4>1. i \in 1..n
        BY <3>1, <2>4, <1>6
      <4> QED
        BY <3>1, <4>1, <2>1, <2>2, <1>4
    <3>2. CASE k # n + 1
      <4>1. i \in 1..n /\ k \in 1..n
        BY <3>2, <2>4, <1>6
      <4> QED
        BY <4>1, <2>1, <2>4, <1>7 DEF Sorted, Cache!InOrder
    <3> QED
      BY <3>1, <3>2
  <2> QED
    BY <2>3, <2>4 DEF Sorted, Cache!InOrder
<1> QED
  BY <1>2, <1>6, <1>8

-----------------------------------------------------------------------------
(* The inductive invariant of the cache is Cache!IInv, next to the model.  *)

\* What the store takes is a number, and rows and directories are finitely many.
LEMMA CacheMeasured ==
  ASSUME Cache!TypeOK
  PROVE  Cache!MeasureCacheUsage \in Nat /\ Cache!FreeBytes \in Int
  BY CacheAssumption DEF Cache!TypeOK, Cache!MeasureCacheUsage, Cache!FreeBytes

\* The watermarks are numbers.
LEMMA CacheMarks == Cache!EffectiveMax \in Int /\ Cache!LowBytes \in Int
<1>1. \A a, b \in Int : Cache!Max({a, b}) \in Int /\ Cache!Min({a, b}) \in Int
  BY DEF Cache!Max, Cache!Min
<1>2. Cache!EffectiveMax \in Int
  <2> DEFINE store == Cache!Max({0, Disk - Reserve})
  <2>1. Disk - Reserve \in Int /\ MaxBytes \in Int /\ 0 \in Int
    BY CacheAssumption
  <2>2. store \in Int
    BY <1>1, <2>1
  <2>3. Cache!Min({MaxBytes, store}) \in Int
    <3> HIDE DEF store
    <3> QED
      BY <1>1, <2>1, <2>2
  <2>4. Cache!EffectiveMax = IF MaxBytes > 0 THEN Cache!Min({MaxBytes, store}) ELSE store
    BY DEF Cache!EffectiveMax
  <2> HIDE DEF store
  <2> QED
    BY <2>2, <2>3, <2>4
<1> QED
  BY <1>2, CacheAssumption DEF Cache!LowBytes

\* There are finitely many states.
LEMMA CacheStatesFinite == IsFiniteSet(Cache!States)
<1> DEFINE f == [j \in Writers |-> NewState[j]]
           T == {NewState[j] : j \in Writers}
<1>1. f \in Surjection(Writers, T)
  BY DEF Surjection
<1>2. IsFiniteSet(T)
  BY <1>1, CacheAssumption, FS_Surjection
<1> QED
  BY <1>2, CacheAssumption, FS_Union DEF Cache!States

\* The instance counts as this module does.
LEMMA CacheCardinality == \A S : Cache!Cardinality(S) = Cardinality(S)
  BY DEF Cache!Cardinality, Cardinality

\* The candidates of a pass are a sequence of the states that are eligible.
LEMMA CandidatesEligible ==
  ASSUME NEW p \in Cache!Callers, Cache!TypeOK
  PROVE  /\ Cache!ListEvictionCandidates(p) \in Seq(Cache!States)
         /\ \A i \in 1..Len(Cache!ListEvictionCandidates(p)) :
              Cache!ListEvictionCandidates(p)[i] \in Cache!Eligible(p)
<1> DEFINE E == Cache!Eligible(p)
           n == Cardinality(E)
<1>1. E \in SUBSET Cache!States
  BY DEF Cache!TypeOK, Cache!Eligible
<1>2. IsFiniteSet(E)
  BY <1>1, CacheStatesFinite, FS_Subset
<1>3. n \in Nat
  BY <1>2, FS_CardinalityType
<1>4. \E q : Sorted(q, n, E)
  BY <1>1, <1>2, SortedExists
<1> DEFINE q == Cache!ListEvictionCandidates(p)
<1>5. q \in [1..n -> E]
  <2>1. \E x \in [1..n -> E] : Cache!InOrder(x)
    BY <1>4 DEF Sorted
  <2>2. q = CHOOSE x \in [1..n -> E] : Cache!InOrder(x)
    BY CacheCardinality DEF Cache!ListEvictionCandidates
  <2> HIDE DEF q, n, E
  <2> QED
    BY <2>1, <2>2
<1>6. q \in Seq(E) /\ Len(q) = n
  <2> HIDE DEF q, n, E
  <2> QED
    BY <1>3, <1>5
<1>7. \A i \in 1..Len(q) : q[i] \in E
  <2> HIDE DEF q, n, E
  <2> QED
    BY <1>3, <1>5, <1>6
<1>8. q \in Seq(Cache!States)
  <2> HIDE DEF q, n, E
  <2>1. q \in [1..n -> Cache!States]
    BY <1>1, <1>5
  <2> QED
    BY <2>1, <1>3
<1> QED
  BY <1>7, <1>8

\* An idle start-up caller over the old cache: the initial states satisfy the invariant.
LEMMA CacheInit == Cache!Init => Cache!IInv
<1> SUFFICES ASSUME Cache!Init PROVE Cache!IInv
  OBVIOUS
<1>1. Cache!TypeOK
  <2>1. r1 \in [Cache!Callers -> Cache!Steps] /\ r12 \in [Writers -> Cache!Phases]
    BY DEF Cache!Init, Cache!Steps, Cache!Phases
  <2>2. r4 \subseteq Cache!States /\ r5 \subseteq Cache!States
    BY DEF Cache!Init, Cache!States
  <2>3. r6 \in [Cache!Callers -> Seq(Cache!States)]
    BY DEF Cache!Init
  <2>4. r7 \in [Cache!Callers -> Nat] /\ r8 \in [Cache!Callers -> Int] /\ r9 \in [Cache!Callers -> Nat]
    BY DEF Cache!Init
  <2>5. r10 \in 0..MaxEvictFaults /\ r11 \in 0..MaxEvictCrashes
    BY CacheAssumption DEF Cache!Init
  <2> QED
    BY <2>1, <2>2, <2>3, <2>4, <2>5 DEF Cache!Init, Cache!TypeOK
<1>2. Cache!LockRespected /\ Cache!MeasuredSince /\ Cache!FewUnneeded
  BY CacheAssumption DEF Cache!Init, Cache!LockRespected, Cache!MeasuredSince, Cache!FewUnneeded, Cache!Holding
<1>3. Cache!OnlyOldListed /\ Cache!CommittedKept
  BY CacheAssumption DEF Cache!Init, Cache!OnlyOldListed, Cache!CommittedKept, Cache!Callers
<1> QED
  BY <1>1, <1>2, <1>3 DEF Cache!IInv

\* A failing measurement, query or removal counts, up to the bound.
LEMMA EvictFaultCounts == r10 \in 0..MaxEvictFaults /\ Cache!Fault => r10' \in 0..MaxEvictFaults
  BY CacheAssumption DEF Cache!Fault

\* Every step of ensureCacheCapacity and of a job keeps the types.
LEMMA CacheTypeStep == Cache!TypeOK /\ Cache!OnlyOldListed /\ [Cache!Next]_(Cache!vars) => Cache!TypeOK'
<1> SUFFICES ASSUME Cache!TypeOK, Cache!OnlyOldListed, [Cache!Next]_(Cache!vars) PROVE Cache!TypeOK'
  OBVIOUS
<1> USE CacheAssumption, CacheMeasured, EvictFaultCounts DEF Cache!TypeOK, Cache!Goto, Cache!Measure, Cache!Forget,
        Cache!Steps, Cache!Holding, Cache!Phases
<1>1. ASSUME NEW p \in Cache!Callers, Cache!Check(p) PROVE Cache!TypeOK'
  BY <1>1 DEF Cache!Check
<1>2. ASSUME NEW p \in Cache!Callers, Cache!OpenLock(p) PROVE Cache!TypeOK'
  BY <1>2 DEF Cache!OpenLock
<1>3. ASSUME NEW p \in Cache!Callers, Cache!StatLock(p) PROVE Cache!TypeOK'
  BY <1>3 DEF Cache!StatLock
<1>4. ASSUME NEW p \in Cache!Callers, Cache!RemoveLock(p) PROVE Cache!TypeOK'
  BY <1>4 DEF Cache!RemoveLock
<1>5. ASSUME NEW p \in Cache!Callers, Cache!ListStates(p) PROVE Cache!TypeOK'
  <2>1. Cache!ListEvictionCandidates(p) \in Seq(Cache!States)
    BY CandidatesEligible
  <2> QED
    BY <1>5, <2>1 DEF Cache!ListStates
<1>6. ASSUME NEW p \in Cache!Callers, Cache!EvictNext(p) PROVE Cache!TypeOK'
  <2>1. r6[p] # <<>> => Tail(r6[p]) \in Seq(Cache!States)
    OBVIOUS
  <2>2. r6' \in [Cache!Callers -> Seq(Cache!States)]
    BY <1>6, <2>1 DEF Cache!EvictNext
  <2>3. r9' \in [Cache!Callers -> Nat] /\ r10' \in 0..MaxEvictFaults
    <3>1. r9[p] + 1 \in Nat /\ r9[p] + 0 \in Nat
      OBVIOUS
    <3>2. r9' = r9 \/ r9' = [r9 EXCEPT ![p] = r9[p] + 1] \/ r9' = [r9 EXCEPT ![p] = r9[p] + 0]
      BY <1>6 DEF Cache!EvictNext
    <3>3. r9' \in [Cache!Callers -> Nat]
      BY <3>1, <3>2
    <3>4. r10' = r10 \/ Cache!Fault
      BY <1>6 DEF Cache!EvictNext
    <3> QED
      BY <3>3, <3>4
  <2>4. r1' \in [Cache!Callers -> Cache!Steps] /\ r5' \subseteq Cache!States
    BY <1>6 DEF Cache!EvictNext
  <2> QED
    BY <1>6, <2>2, <2>3, <2>4 DEF Cache!EvictNext
<1>7. ASSUME NEW p \in Cache!Callers, Cache!EvictRow(p) PROVE Cache!TypeOK'
  <2>1. Tail(r6[p]) \in Seq(Cache!States)
    BY <1>7 DEF Cache!EvictRow, Cache!OnlyOldListed
  <2>2. r6' \in [Cache!Callers -> Seq(Cache!States)]
    BY <1>7, <2>1 DEF Cache!EvictRow
  <2>3. r1' \in [Cache!Callers -> Cache!Steps] /\ r4' \subseteq Cache!States
    BY <1>7 DEF Cache!EvictRow
  <2>4. r10' = r10 \/ Cache!Fault
    BY <1>7 DEF Cache!EvictRow
  <2> QED
    BY <1>7, <2>2, <2>3, <2>4 DEF Cache!EvictRow
<1>8. ASSUME NEW p \in Cache!Callers, Cache!EvictMeasure(p) PROVE Cache!TypeOK'
  BY <1>8 DEF Cache!EvictMeasure
<1>9. ASSUME NEW p \in Cache!Callers, Cache!Unlock(p) PROVE Cache!TypeOK'
  BY <1>9 DEF Cache!Unlock
<1>10. ASSUME NEW p \in Cache!Callers, Cache!Recheck(p) PROVE Cache!TypeOK'
  BY <1>10 DEF Cache!Recheck
<1>11. ASSUME NEW p \in Cache!Callers, Cache!CheckFails(p) PROVE Cache!TypeOK'
  BY <1>11 DEF Cache!CheckFails
<1>12. ASSUME NEW j \in Writers, Cache!StartRuntime(j) PROVE Cache!TypeOK'
  BY <1>12 DEF Cache!StartRuntime, Cache!Callers
<1>13. ASSUME NEW j \in Writers, Cache!CommitState(j) PROVE Cache!TypeOK'
  BY <1>13 DEF Cache!CommitState, Cache!Callers, Cache!States
<1>14. ASSUME NEW j \in Writers, Cache!StepDone(j) PROVE Cache!TypeOK'
  BY <1>14 DEF Cache!StepDone, Cache!Callers
<1>15. CASE Cache!Recover
  BY <1>15 DEF Cache!Recover, Cache!Callers
<1>16. CASE Cache!LockAges
  BY <1>16 DEF Cache!LockAges
<1>17. CASE Cache!Crash
  BY <1>17 DEF Cache!Crash, Cache!Callers
<1>18. CASE UNCHANGED Cache!vars
  BY <1>18 DEF Cache!vars
<1> QED
  BY <1>1, <1>2, <1>3, <1>4, <1>5, <1>6, <1>7, <1>8, <1>9, <1>10, <1>11, <1>12, <1>13, <1>14, <1>15, <1>16, <1>17, <1>18
     DEF Cache!Next, Cache!Progress, Cache!Callers

\* Every step keeps the lock file in the hands of the one caller that evicts.
LEMMA CacheLockStep == Cache!TypeOK /\ Cache!LockRespected /\ [Cache!Next]_(Cache!vars) => Cache!LockRespected'
<1> SUFFICES ASSUME Cache!TypeOK /\ Cache!LockRespected, [Cache!Next]_(Cache!vars) PROVE Cache!LockRespected'
  OBVIOUS
<1> USE DEF Cache!LockRespected, Cache!TypeOK, Cache!Goto, Cache!Fault, Cache!Forget, Cache!Holding
<1>1. ASSUME NEW p \in Cache!Callers, Cache!Check(p) PROVE Cache!LockRespected'
  BY <1>1 DEF Cache!Check
<1>2. ASSUME NEW p \in Cache!Callers, Cache!OpenLock(p) PROVE Cache!LockRespected'
  BY <1>2 DEF Cache!OpenLock
<1>3. ASSUME NEW p \in Cache!Callers, Cache!StatLock(p) PROVE Cache!LockRespected'
  BY <1>3 DEF Cache!StatLock
<1>4. ASSUME NEW p \in Cache!Callers, Cache!RemoveLock(p) PROVE Cache!LockRespected'
  BY <1>4 DEF Cache!RemoveLock
<1>5. ASSUME NEW p \in Cache!Callers, Cache!ListStates(p) PROVE Cache!LockRespected'
  BY <1>5 DEF Cache!ListStates
<1>6. ASSUME NEW p \in Cache!Callers, Cache!EvictNext(p) PROVE Cache!LockRespected'
  BY <1>6 DEF Cache!EvictNext
<1>7. ASSUME NEW p \in Cache!Callers, Cache!EvictRow(p) PROVE Cache!LockRespected'
  BY <1>7 DEF Cache!EvictRow
<1>8. ASSUME NEW p \in Cache!Callers, Cache!EvictMeasure(p) PROVE Cache!LockRespected'
  BY <1>8 DEF Cache!EvictMeasure
<1>9. ASSUME NEW p \in Cache!Callers, Cache!Unlock(p) PROVE Cache!LockRespected'
  BY <1>9 DEF Cache!Unlock
<1>10. ASSUME NEW p \in Cache!Callers, Cache!Recheck(p) PROVE Cache!LockRespected'
  BY <1>10 DEF Cache!Recheck
<1>11. ASSUME NEW p \in Cache!Callers, Cache!CheckFails(p) PROVE Cache!LockRespected'
  BY <1>11 DEF Cache!CheckFails
<1>12. ASSUME NEW j \in Writers, Cache!StartRuntime(j) PROVE Cache!LockRespected'
  <2>1. j \in Cache!Callers /\ UNCHANGED <<r2, r3>> /\ (Cache!Goto(j, "idle") \/ Cache!Goto(j, "refused"))
    BY <1>12 DEF Cache!StartRuntime, Cache!Callers
  <2> QED
    BY <2>1
<1>13. ASSUME NEW j \in Writers, Cache!CommitState(j) PROVE Cache!LockRespected'
  BY <1>13 DEF Cache!CommitState, Cache!Callers
<1>14. ASSUME NEW j \in Writers, Cache!StepDone(j) PROVE Cache!LockRespected'
  BY <1>14 DEF Cache!StepDone, Cache!Callers
<1>15. CASE Cache!Recover
  BY <1>15 DEF Cache!Recover, Cache!Callers
<1>16. CASE Cache!LockAges
  BY <1>16 DEF Cache!LockAges
<1>17. CASE Cache!Crash
  BY <1>17 DEF Cache!Crash, Cache!Callers
<1>18. CASE UNCHANGED Cache!vars
  BY <1>18 DEF Cache!vars
<1> QED
  BY <1>1, <1>2, <1>3, <1>4, <1>5, <1>6, <1>7, <1>8, <1>9, <1>10, <1>11, <1>12, <1>13, <1>14, <1>15, <1>16, <1>17, <1>18
     DEF Cache!Next, Cache!Progress, Cache!Callers

\* While no state directory goes, the store does not shrink.
LEMMA CacheGrows ==
  ASSUME Cache!TypeOK, Cache!TypeOK', r5 \subseteq r5'
  PROVE  Cache!MeasureCacheUsage <= Cache!MeasureCacheUsage' /\ Cache!FreeBytes' <= Cache!FreeBytes
<1>1. Cache!Bytes(r5) \in Nat /\ Cache!Bytes(r5') \in Nat /\ Cache!Bytes(r5) <= Cache!Bytes(r5')
  BY CacheAssumption DEF Cache!TypeOK
<1> QED
  BY <1>1, CacheAssumption DEF Cache!MeasureCacheUsage, Cache!FreeBytes

\* A store that is above a measurement with pressure has pressure.
LEMMA StillPressed ==
  ASSUME NEW u \in Nat, NEW f \in Int, ~Cache!Relieved(u, f),
         NEW v \in Nat, NEW g \in Int, u <= v, g <= f
  PROVE  ~Cache!Relieved(v, g)
  BY CacheMarks, CacheAssumption DEF Cache!Relieved

\* What a step does to the pass of caller q: nothing, a new count, or a measurement.
PassKept(q) ==
  \/ /\ r9'[q] = r9[q] /\ r10' >= r10
     /\ r1'[q] = "loop" => r1[q] = "loop" /\ r7'[q] = r7[q] /\ r8'[q] = r8[q]
  \/ r9'[q] <= r10'
  \/ /\ r9'[q] = r9[q] /\ r10' = r10
     /\ r7'[q] = Cache!MeasureCacheUsage /\ r8'[q] = Cache!FreeBytes

\* Such a step keeps the bound when no directory goes.
LEMMA PassFrame ==
  ASSUME Cache!IInv, Cache!TypeOK', r5 \subseteq r5', r3' = r3, \A q \in Cache!Callers : PassKept(q)
  PROVE  (Cache!MeasuredSince /\ Cache!FewUnneeded)'
<1>1. Cache!MeasureCacheUsage <= Cache!MeasureCacheUsage' /\ Cache!FreeBytes' <= Cache!FreeBytes
  BY CacheGrows DEF Cache!IInv
<1>2. Cache!MeasureCacheUsage \in Nat /\ Cache!FreeBytes \in Int
  BY CacheMeasured DEF Cache!IInv
<1>3. Cache!MeasureCacheUsage' \in Nat /\ Cache!FreeBytes' \in Int
  BY CacheAssumption DEF Cache!TypeOK, Cache!MeasureCacheUsage, Cache!FreeBytes
<1>4. r10 \in Nat /\ r10' \in Nat
  BY CacheAssumption DEF Cache!IInv, Cache!TypeOK
<1>5. \A q \in Cache!Callers : /\ r9[q] \in Nat /\ r9'[q] \in Nat /\ r7[q] \in Nat /\ r8[q] \in Int
                               /\ r7'[q] \in Nat /\ r8'[q] \in Int
  BY DEF Cache!IInv, Cache!TypeOK
<1>6. ASSUME NEW q \in Cache!Callers, ~r3
      PROVE  /\ r9'[q] <= 1 + r10'
             /\ r1'[q] = "loop" /\ r9'[q] > r10' =>
                  r7'[q] <= Cache!MeasureCacheUsage' /\ Cache!FreeBytes' <= r8'[q]
  <2>1. r9[q] <= 1 + r10
    BY <1>6 DEF Cache!IInv, Cache!FewUnneeded
  <2>2. r1[q] = "loop" /\ r9[q] > r10 => r7[q] <= Cache!MeasureCacheUsage /\ Cache!FreeBytes <= r8[q]
    BY <1>6 DEF Cache!IInv, Cache!MeasuredSince
  <2>3. PassKept(q)
    OBVIOUS
  <2>4. CASE r9'[q] <= r10'
    BY <2>4, <1>4, <1>5
  <2>5. CASE r9'[q] = r9[q] /\ r10' >= r10
             /\ (r1'[q] = "loop" => r1[q] = "loop" /\ r7'[q] = r7[q] /\ r8'[q] = r8[q])
    BY <2>1, <2>2, <2>5, <1>1, <1>2, <1>3, <1>4, <1>5
  <2>6. CASE r9'[q] = r9[q] /\ r10' = r10
             /\ r7'[q] = Cache!MeasureCacheUsage /\ r8'[q] = Cache!FreeBytes
    BY <2>1, <2>6, <1>1, <1>2, <1>3, <1>4, <1>5
  <2> QED
    BY <2>3, <2>4, <2>5, <2>6 DEF PassKept
<1> QED
  BY <1>6 DEF Cache!MeasuredSince, Cache!FewUnneeded

\* Every step keeps the bound on states evicted in vain.
LEMMA CachePassStep == Cache!IInv /\ Cache!TypeOK' /\ [Cache!Next]_(Cache!vars) => (Cache!MeasuredSince /\ Cache!FewUnneeded)'
<1> SUFFICES ASSUME Cache!IInv /\ Cache!TypeOK', [Cache!Next]_(Cache!vars) PROVE (Cache!MeasuredSince /\ Cache!FewUnneeded)'
  OBVIOUS
<1>a. r10 \in Nat /\ r10' \in Nat
  BY CacheAssumption DEF Cache!IInv, Cache!TypeOK
<1>b. \A q \in Cache!Callers : r9[q] \in Nat /\ (r9[q] <= 1 + r10 \/ r3)
  BY DEF Cache!IInv, Cache!TypeOK, Cache!FewUnneeded
<1>c. /\ r1 \in [Cache!Callers -> Cache!Steps] /\ r7 \in [Cache!Callers -> Nat]
      /\ r8 \in [Cache!Callers -> Int] /\ r9 \in [Cache!Callers -> Nat] /\ r3 \in BOOLEAN
  BY DEF Cache!IInv, Cache!TypeOK
<1> USE DEF PassKept, Cache!Goto, Cache!Measure, Cache!Forget
<1>1. ASSUME NEW p \in Cache!Callers, Cache!Check(p) PROVE (Cache!MeasuredSince /\ Cache!FewUnneeded)'
  <2>1. r5 \subseteq r5' /\ r3' = r3 /\ \A q \in Cache!Callers : PassKept(q)
    BY <1>1, <1>a, <1>c DEF Cache!Check
  <2> QED
    BY <2>1, PassFrame
<1>2. ASSUME NEW p \in Cache!Callers, Cache!OpenLock(p) PROVE (Cache!MeasuredSince /\ Cache!FewUnneeded)'
  <2>1. r5 \subseteq r5' /\ r3' = r3 /\ \A q \in Cache!Callers : PassKept(q)
    BY <1>2, <1>a, <1>c DEF Cache!OpenLock
  <2> QED
    BY <2>1, PassFrame
<1>3. ASSUME NEW p \in Cache!Callers, Cache!StatLock(p) PROVE (Cache!MeasuredSince /\ Cache!FewUnneeded)'
  <2>1. r5 \subseteq r5' /\ r3' = r3 /\ \A q \in Cache!Callers : PassKept(q)
    BY <1>3, <1>a, <1>c DEF Cache!StatLock
  <2> QED
    BY <2>1, PassFrame
<1>4. ASSUME NEW p \in Cache!Callers, Cache!RemoveLock(p) PROVE (Cache!MeasuredSince /\ Cache!FewUnneeded)'
  <2>1. r5 \subseteq r5' /\ r3' = r3 /\ \A q \in Cache!Callers : PassKept(q)
    BY <1>4, <1>a, <1>c DEF Cache!RemoveLock
  <2> QED
    BY <2>1, PassFrame
<1>5. ASSUME NEW p \in Cache!Callers, Cache!ListStates(p) PROVE (Cache!MeasuredSince /\ Cache!FewUnneeded)'
  <2>1. r5 \subseteq r5' /\ r3' = r3 /\ \A q \in Cache!Callers : PassKept(q)
    BY <1>5, <1>a, <1>c DEF Cache!ListStates
  <2> QED
    BY <2>1, PassFrame
<1>6. ASSUME NEW p \in Cache!Callers, Cache!EvictNext(p) PROVE (Cache!MeasuredSince /\ Cache!FewUnneeded)'
  <2>0. CASE r3
    BY <1>6, <2>0 DEF Cache!EvictNext, Cache!MeasuredSince, Cache!FewUnneeded
  <2>1. CASE r5' = r5 /\ r9' = r9
    <3>1. r5 \subseteq r5' /\ r3' = r3 /\ \A q \in Cache!Callers : PassKept(q)
      BY <1>6, <2>1, <1>a, <1>c DEF Cache!EvictNext, Cache!Fault
    <3> QED
      BY <3>1, PassFrame
  <2>2. CASE ~r3 /\ ~(r5' = r5 /\ r9' = r9)
    <3>1. r1[p] = "loop" /\ r1' = [r1 EXCEPT ![p] = "dir"] /\ UNCHANGED <<r3, r7, r8, r10>>
          /\ ~Cache!Relieved(r7[p], r8[p])
          /\ r9' = [r9 EXCEPT ![p] = r9[p] + (IF Cache!Relieved(Cache!MeasureCacheUsage, Cache!FreeBytes) THEN 1 ELSE 0)]
      BY <1>6, <2>2 DEF Cache!EvictNext
    <3>2. \A q \in Cache!Callers : r1'[q] # "loop"
      BY <2>2, <3>1, <1>c DEF Cache!IInv, Cache!LockRespected, Cache!Holding
    <3>3. ASSUME r9[p] > r10 PROVE ~Cache!Relieved(Cache!MeasureCacheUsage, Cache!FreeBytes)
      <4>1. r7[p] <= Cache!MeasureCacheUsage /\ Cache!FreeBytes <= r8[p]
        BY <2>2, <3>1, <3>3 DEF Cache!IInv, Cache!MeasuredSince
      <4>2. Cache!MeasureCacheUsage \in Nat /\ Cache!FreeBytes \in Int
        BY CacheMeasured DEF Cache!IInv
      <4> QED
        BY <3>1, <4>1, <4>2, <1>c, StillPressed
    <3>4. \A q \in Cache!Callers : r9'[q] <= 1 + r10'
      <4>1. ASSUME NEW q \in Cache!Callers, q # p PROVE r9'[q] <= 1 + r10'
        BY <2>2, <3>1, <4>1, <1>b, <1>c
      <4>2. CASE Cache!Relieved(Cache!MeasureCacheUsage, Cache!FreeBytes)
        <5>0. r9' = [r9 EXCEPT ![p] = r9[p] + 1]
          BY <3>1, <4>2
        <5>1. r9'[p] = r9[p] + 1 /\ ~(r9[p] > r10)
          BY <5>0, <3>3, <4>2, <1>c
        <5> QED
          BY <3>1, <4>1, <5>1, <1>a, <1>c
      <4>3. CASE ~Cache!Relieved(Cache!MeasureCacheUsage, Cache!FreeBytes)
        <5>0. r9' = [r9 EXCEPT ![p] = r9[p] + 0]
          BY <3>1, <4>3
        <5>1. r9'[p] = r9[p] + 0
          BY <5>0, <1>c
        <5> QED
          BY <2>2, <3>1, <4>1, <5>1, <1>a, <1>b, <1>c
      <4> QED
        BY <4>2, <4>3
    <3> QED
      BY <3>1, <3>2, <3>4 DEF Cache!MeasuredSince, Cache!FewUnneeded
  <2> QED
    BY <2>0, <2>1, <2>2, <1>c
<1>7. ASSUME NEW p \in Cache!Callers, Cache!EvictRow(p) PROVE (Cache!MeasuredSince /\ Cache!FewUnneeded)'
  <2>1. CASE r3
    BY <1>7, <2>1 DEF Cache!EvictRow, Cache!MeasuredSince, Cache!FewUnneeded
  <2>2. CASE ~r3
    <3>1. r5 \subseteq r5' /\ r3' = r3 /\ \A q \in Cache!Callers : PassKept(q)
      BY <1>7, <2>2, <1>a, <1>b, <1>c DEF Cache!EvictRow, Cache!Fault
    <3> QED
      BY <3>1, PassFrame
  <2> QED
    BY <2>1, <2>2
<1>8. ASSUME NEW p \in Cache!Callers, Cache!EvictMeasure(p) PROVE (Cache!MeasuredSince /\ Cache!FewUnneeded)'
  <2>1. r5 \subseteq r5' /\ r3' = r3 /\ \A q \in Cache!Callers : PassKept(q)
    BY <1>8, <1>a, <1>c DEF Cache!EvictMeasure
  <2> QED
    BY <2>1, PassFrame
<1>9. ASSUME NEW p \in Cache!Callers, Cache!Unlock(p) PROVE (Cache!MeasuredSince /\ Cache!FewUnneeded)'
  <2>1. r5 \subseteq r5' /\ r3' = r3 /\ \A q \in Cache!Callers : PassKept(q)
    BY <1>9, <1>a, <1>c DEF Cache!Unlock
  <2> QED
    BY <2>1, PassFrame
<1>10. ASSUME NEW p \in Cache!Callers, Cache!Recheck(p) PROVE (Cache!MeasuredSince /\ Cache!FewUnneeded)'
  <2>1. r5 \subseteq r5' /\ r3' = r3 /\ \A q \in Cache!Callers : PassKept(q)
    BY <1>10, <1>a, <1>c DEF Cache!Recheck
  <2> QED
    BY <2>1, PassFrame
<1>11. ASSUME NEW p \in Cache!Callers, Cache!CheckFails(p) PROVE (Cache!MeasuredSince /\ Cache!FewUnneeded)'
  <2>1. r5 \subseteq r5' /\ r3' = r3 /\ \A q \in Cache!Callers : PassKept(q)
    BY <1>11, <1>a, <1>c DEF Cache!CheckFails, Cache!Fault
  <2> QED
    BY <2>1, PassFrame
<1>12. ASSUME NEW j \in Writers, Cache!StartRuntime(j) PROVE (Cache!MeasuredSince /\ Cache!FewUnneeded)'
  <2>1. r5 \subseteq r5' /\ r3' = r3 /\ \A q \in Cache!Callers : PassKept(q)
    BY <1>12, <1>a, <1>c DEF Cache!StartRuntime, Cache!Callers
  <2> QED
    BY <2>1, PassFrame
<1>13. ASSUME NEW j \in Writers, Cache!CommitState(j) PROVE (Cache!MeasuredSince /\ Cache!FewUnneeded)'
  <2>1. r5 \subseteq r5' /\ r3' = r3 /\ \A q \in Cache!Callers : PassKept(q)
    BY <1>13, <1>a, <1>c DEF Cache!CommitState, Cache!Callers
  <2> QED
    BY <2>1, PassFrame
<1>14. ASSUME NEW j \in Writers, Cache!StepDone(j) PROVE (Cache!MeasuredSince /\ Cache!FewUnneeded)'
  <2>1. r5 \subseteq r5' /\ r3' = r3 /\ \A q \in Cache!Callers : PassKept(q)
    BY <1>14, <1>a, <1>c DEF Cache!StepDone, Cache!Callers
  <2> QED
    BY <2>1, PassFrame
<1>15. CASE Cache!Recover
  <2>1. r5 \subseteq r5' /\ r3' = r3 /\ \A q \in Cache!Callers : PassKept(q)
    BY <1>15, <1>a, <1>c DEF Cache!Recover, Cache!Callers
  <2> QED
    BY <2>1, PassFrame
<1>16. CASE Cache!LockAges
  BY <1>16 DEF Cache!LockAges, Cache!MeasuredSince, Cache!FewUnneeded
<1>17. CASE Cache!Crash
  <2>1. r5 \subseteq r5' /\ r3' = r3 /\ \A q \in Cache!Callers : PassKept(q)
    BY <1>17, <1>a, <1>c DEF Cache!Crash, Cache!Callers
  <2> QED
    BY <2>1, PassFrame
<1>18. CASE UNCHANGED Cache!vars
  <2>1. r5 \subseteq r5' /\ r3' = r3 /\ \A q \in Cache!Callers : PassKept(q)
    BY <1>18, <1>a, <1>c DEF Cache!vars
  <2> QED
    BY <2>1, PassFrame
<1> QED
  BY <1>1, <1>2, <1>3, <1>4, <1>5, <1>6, <1>7, <1>8, <1>9, <1>10, <1>11, <1>12, <1>13, <1>14, <1>15, <1>16, <1>17, <1>18
     DEF Cache!Next, Cache!Progress, Cache!Callers

\* Every step keeps the states that jobs have committed.
LEMMA CacheCommitStep == Cache!IInv /\ [Cache!Next]_(Cache!vars) => (Cache!OnlyOldListed /\ Cache!CommittedKept)'
<1> SUFFICES ASSUME Cache!IInv, [Cache!Next]_(Cache!vars) PROVE (Cache!OnlyOldListed /\ Cache!CommittedKept)'
  OBVIOUS
<1> USE CacheAssumption DEF Cache!IInv, Cache!TypeOK, Cache!OnlyOldListed, Cache!CommittedKept, Cache!Goto, Cache!Forget
<1>1. ASSUME NEW p \in Cache!Callers, Cache!Check(p) PROVE (Cache!OnlyOldListed /\ Cache!CommittedKept)'
  <2>1. UNCHANGED <<r4, r5, r6, r12>> /\ \E s \in {"refused", "open", "passed"} : r1' = [r1 EXCEPT ![p] = s]
    BY <1>1 DEF Cache!Check
  <2>2. PICK s \in {"refused", "open", "passed"} : r1' = [r1 EXCEPT ![p] = s]
    BY <2>1
  <2> QED
    BY <2>1, <2>2
<1>2. ASSUME NEW p \in Cache!Callers, Cache!OpenLock(p) PROVE (Cache!OnlyOldListed /\ Cache!CommittedKept)'
  <2>1. UNCHANGED <<r4, r5, r6, r12>> /\ \E s \in {"list", "stat"} : r1' = [r1 EXCEPT ![p] = s]
    BY <1>2 DEF Cache!OpenLock
  <2>2. PICK s \in {"list", "stat"} : r1' = [r1 EXCEPT ![p] = s]
    BY <2>1
  <2> QED
    BY <2>1, <2>2
<1>3. ASSUME NEW p \in Cache!Callers, Cache!StatLock(p) PROVE (Cache!OnlyOldListed /\ Cache!CommittedKept)'
  BY <1>3 DEF Cache!StatLock
<1>4. ASSUME NEW p \in Cache!Callers, Cache!RemoveLock(p) PROVE (Cache!OnlyOldListed /\ Cache!CommittedKept)'
  BY <1>4 DEF Cache!RemoveLock
<1>5. ASSUME NEW p \in Cache!Callers, Cache!ListStates(p) PROVE (Cache!OnlyOldListed /\ Cache!CommittedKept)'
  <2>1. \A i \in 1..Len(Cache!ListEvictionCandidates(p)) :
          Cache!ListEvictionCandidates(p)[i] \in r4 \ Cache!Protected(p) /\ ~Cache!Young(Cache!ListEvictionCandidates(p)[i])
    BY CandidatesEligible DEF Cache!Eligible
  <2>2. MinAge => \A i \in 1..Len(Cache!ListEvictionCandidates(p)) : Cache!ListEvictionCandidates(p)[i] \in Old
    BY <2>1 DEF Cache!Young
  <2> QED
    BY <1>5, <2>2 DEF Cache!ListStates
<1>6. ASSUME NEW p \in Cache!Callers, Cache!EvictNext(p) PROVE (Cache!OnlyOldListed /\ Cache!CommittedKept)'
  <2>1. r6[p] # <<>> => /\ Head(r6[p]) = r6[p][1] /\ 1 \in 1..Len(r6[p])
                        /\ Len(Tail(r6[p])) = Len(r6[p]) - 1
                        /\ \A i \in 1..Len(Tail(r6[p])) : Tail(r6[p])[i] = r6[p][i + 1] /\ i + 1 \in 1..Len(r6[p])
    OBVIOUS
  <2>2. MinAge /\ r6[p] # <<>> => /\ Head(r6[p]) \in Old
                                  /\ \A i \in 1..Len(Tail(r6[p])) : Tail(r6[p])[i] \in Old
    BY <2>1
  <2>3. \A j \in Writers : NewState[j] # Head(r6[p]) \/ ~(MinAge /\ r6[p] # <<>>)
    BY <2>2, CacheAssumption
  <2>4. CASE r1' = [r1 EXCEPT ![p] = "unlock"] /\ UNCHANGED <<r4, r5, r6, r12>>
    BY <1>6, <2>4 DEF Cache!EvictNext
  <2>5. CASE /\ r6[p] # <<>> /\ r1' = [r1 EXCEPT ![p] = "dir"]
             /\ r5' = r5 \ {Head(r6[p])} /\ UNCHANGED <<r4, r6, r12>>
    <3>1. \A q \in Cache!Callers : r1'[q] = "dir" => r6'[q] # <<>>
      BY <2>5
    <3>2. \A q \in Writers : r1'[q] = "built" => r1[q] = "built"
      BY <2>5
    <3> QED
      BY <2>3, <2>5, <3>1, <3>2
  <2>6. CASE /\ r6[p] # <<>> /\ r6' = [r6 EXCEPT ![p] = Tail(r6[p])] /\ r1[p] = "loop" /\ UNCHANGED <<r1, r4, r5, r12>>
    <3>1. \A q \in Cache!Callers : r1'[q] = "dir" => r6'[q] # <<>>
      BY <2>6
    <3>2. MinAge => \A q \in Cache!Callers : \A i \in 1..Len(r6'[q]) : r6'[q][i] \in Old
      BY <2>2, <2>6
    <3> QED
      BY <2>6, <3>1, <3>2
  <2> QED
    BY <1>6, <2>4, <2>5, <2>6 DEF Cache!EvictNext
<1>7. ASSUME NEW p \in Cache!Callers, Cache!EvictRow(p) PROVE (Cache!OnlyOldListed /\ Cache!CommittedKept)'
  <2>1. r6[p] # <<>> => /\ Head(r6[p]) = r6[p][1] /\ 1 \in 1..Len(r6[p])
                        /\ Len(Tail(r6[p])) = Len(r6[p]) - 1
                        /\ \A i \in 1..Len(Tail(r6[p])) : Tail(r6[p])[i] = r6[p][i + 1] /\ i + 1 \in 1..Len(r6[p])
    OBVIOUS
  <2>2. MinAge /\ r6[p] # <<>> => /\ Head(r6[p]) \in Old
                                  /\ \A i \in 1..Len(Tail(r6[p])) : Tail(r6[p])[i] \in Old
    BY <2>1
  <2>3. \A j \in Writers : NewState[j] # Head(r6[p]) \/ ~(MinAge /\ r6[p] # <<>>)
    BY <2>2, CacheAssumption
  <2>4. /\ r1[p] = "dir" /\ r6[p] # <<>> /\ r6' = [r6 EXCEPT ![p] = Tail(r6[p])] /\ UNCHANGED <<r5, r12>>
        /\ r4' \subseteq r4 /\ r4 \ {Head(r6[p])} \subseteq r4'
        /\ \E s \in {"measure", "loop"} : r1' = [r1 EXCEPT ![p] = s]
    BY <1>7 DEF Cache!EvictRow
  <2>5. PICK s \in {"measure", "loop"} : r1' = [r1 EXCEPT ![p] = s]
    BY <2>4
  <2>6. \A q \in Cache!Callers : r1'[q] = "dir" => r6'[q] # <<>>
    BY <2>4, <2>5
  <2>7. MinAge => \A q \in Cache!Callers : \A i \in 1..Len(r6'[q]) : r6'[q][i] \in Old
    BY <2>2, <2>4
  <2>8. \A q \in Writers : r1'[q] = "built" => r1[q] = "built"
    BY <2>4, <2>5
  <2> QED
    BY <2>3, <2>4, <2>6, <2>7, <2>8
<1>8. ASSUME NEW p \in Cache!Callers, Cache!EvictMeasure(p) PROVE (Cache!OnlyOldListed /\ Cache!CommittedKept)'
  BY <1>8 DEF Cache!EvictMeasure
<1>9. ASSUME NEW p \in Cache!Callers, Cache!Unlock(p) PROVE (Cache!OnlyOldListed /\ Cache!CommittedKept)'
  BY <1>9 DEF Cache!Unlock
<1>10. ASSUME NEW p \in Cache!Callers, Cache!Recheck(p) PROVE (Cache!OnlyOldListed /\ Cache!CommittedKept)'
  BY <1>10 DEF Cache!Recheck
<1>11. ASSUME NEW p \in Cache!Callers, Cache!CheckFails(p) PROVE (Cache!OnlyOldListed /\ Cache!CommittedKept)'
  BY <1>11 DEF Cache!CheckFails
<1>12. ASSUME NEW j \in Writers, Cache!StartRuntime(j) PROVE (Cache!OnlyOldListed /\ Cache!CommittedKept)'
  BY <1>12 DEF Cache!StartRuntime, Cache!Callers
<1>13. ASSUME NEW j \in Writers, Cache!CommitState(j) PROVE (Cache!OnlyOldListed /\ Cache!CommittedKept)'
  BY <1>13 DEF Cache!CommitState, Cache!Callers
<1>14. ASSUME NEW j \in Writers, Cache!StepDone(j) PROVE (Cache!OnlyOldListed /\ Cache!CommittedKept)'
  BY <1>14 DEF Cache!StepDone, Cache!Callers
<1>15. CASE Cache!Recover
  BY <1>15 DEF Cache!Recover, Cache!Callers
<1>16. CASE Cache!LockAges
  BY <1>16 DEF Cache!LockAges
<1>17. CASE Cache!Crash
  BY <1>17 DEF Cache!Crash, Cache!Callers
<1>18. CASE UNCHANGED Cache!vars
  BY <1>18 DEF Cache!vars
<1> QED
  BY <1>1, <1>2, <1>3, <1>4, <1>5, <1>6, <1>7, <1>8, <1>9, <1>10, <1>11, <1>12, <1>13, <1>14, <1>15, <1>16, <1>17, <1>18
     DEF Cache!Next, Cache!Progress, Cache!Callers

\* The invariant holds in every execution of ensureCacheCapacity and its callers.
LEMMA CacheInductive == Cache!Spec => []Cache!IInv
<1>1. Cache!IInv /\ [Cache!Next]_(Cache!vars) => Cache!IInv'
  <2> SUFFICES ASSUME Cache!IInv, [Cache!Next]_(Cache!vars) PROVE Cache!IInv'
    OBVIOUS
  <2>1. Cache!TypeOK'
    BY CacheTypeStep DEF Cache!IInv
  <2>2. Cache!LockRespected'
    BY CacheLockStep DEF Cache!IInv
  <2>3. (Cache!MeasuredSince /\ Cache!FewUnneeded)'
    BY <2>1, CachePassStep
  <2>4. (Cache!OnlyOldListed /\ Cache!CommittedKept)'
    BY CacheCommitStep
  <2> QED
    BY <2>1, <2>2, <2>3, <2>4 DEF Cache!IInv
<1> QED
  BY <1>1, CacheInit, PTL DEF Cache!Spec

\* Callers, lock file, rows, directories, candidates and measurements keep the values
\* ensureCacheCapacity gives them.
THEOREM CacheTypes == Cache!Spec => []Cache!TypeOK
<1>1. Cache!IInv => Cache!TypeOK
  BY DEF Cache!IInv
<1> QED
  BY <1>1, CacheInductive, PTL

\* In every execution of ensureCacheCapacity, for any cache, sizes and number of jobs:
\* until a lock file is five minutes old there is one eviction at a time, and a pass
\* that starts from an old measurement evicts at most one state in vain and one more for
\* each failed removal; and a step never loses the state it has committed.
THEOREM EvictionsBounded == Cache!Spec => []EvictionBounded
<1>1. Cache!IInv => EvictionBounded
  <2> SUFFICES ASSUME Cache!IInv PROVE Cache!EvictExclusive /\ Cache!FewUnneeded /\ Cache!CommittedKept
    BY DEF EvictionBounded
  <2>1. ASSUME ~r3 PROVE Cache!Cardinality({p \in Cache!Callers : r1[p] \in Cache!Holding}) <= 1
    <3>1. \A p, q \in {c \in Cache!Callers : r1[c] \in Cache!Holding} : p = q
      BY <2>1 DEF Cache!IInv, Cache!LockRespected
    <3> QED
      BY <3>1, AtMostOne, CacheCardinality
  <2> QED
    BY <2>1 DEF Cache!IInv, Cache!EvictExclusive
<1> QED
  BY <1>1, CacheInductive, PTL

=============================================================================
