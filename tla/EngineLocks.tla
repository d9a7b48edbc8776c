----------------------------- MODULE EngineLocks -----------------------------
(***************************************************************************)
(* The two lock files of an engine next to each other: the lock of a base  *)
(* directory (BaseInit, extended) and the eviction lock (CacheCapacity).   *)
(* They do not touch each other's state, so a behaviour is one of them;    *)
(* r1, r2, ... hold the variables of the cache, and in MCWaiting those of  *)
(* other parts.                                                            *)
(***************************************************************************)
EXTENDS BaseInit

CONSTANTS
  Writers, Startup,                \* callers of ensureCacheCapacity
  Old, NewState, Base, Parent, Size, LastUsed, InUse, NoState,
  Disk, MaxBytes, Reserve, HighPct, LowPct, MinAge,
  MaxEvictFaults, MaxEvictCrashes

VARIABLES part, r1, r2, r3, r4, r5, r6, r7, r8, r9, r10, r11, r12, r13

Cache == INSTANCE CacheCapacity WITH
  Referenced <- InUse,
  Jobs <- Writers, MaxFaults <- MaxEvictFaults, MaxCrashes <- MaxEvictCrashes,
  pc <- r1, lock <- r2, aged <- r3, rows <- r4, dirs <- r5, list <- r6, usage <- r7, free <- r8,
  unneeded <- r9, faults <- r10, crashes <- r11, phase <- r12

\* Callers and states are finitely many, no step builds a state of the old cache, and
\* more state directories never take fewer bytes.
ASSUME CacheAssumption ==
  /\ IsFiniteSet(Writers) /\ Startup \notin Writers /\ IsFiniteSet(Old)
  /\ \A j \in Writers : NewState[j] \notin Old
  /\ Size \in [Cache!States -> Nat] /\ LastUsed \in [Cache!States -> Nat]
  /\ Disk \in Nat /\ MaxBytes \in Nat /\ Reserve \in Nat /\ HighPct \in Nat /\ LowPct \in Nat
  /\ MinAge \in BOOLEAN /\ MaxEvictFaults \in Nat /\ MaxEvictCrashes \in Nat
  /\ \A S \in SUBSET Cache!States : Cache!Bytes(S) \in Nat
  /\ \A S, T \in SUBSET Cache!States : S \subseteq T => Cache!Bytes(S) <= Cache!Bytes(T)

Evicting == part = "cache"

-----------------------------------------------------------------------------
\* Until a lock file is five minutes old no two callers evict at once, a pass that
\* starts from an old measurement removes at most one state too many, and nobody
\* evicts a state that has just been committed.
EvictionBounded ==
  Evicting => Cache!EvictExclusive /\ Cache!FewUnneeded /\ Cache!CommittedKept
=============================================================================
