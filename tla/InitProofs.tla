----------------------------- MODULE InitProofs -----------------------------
(***************************************************************************)
(* The theorems of `sqlrs init`, for any number of commands, failures,     *)
(* reboots and restarts of WSL: on Windows the engine runs only on a btrfs *)
(* store that an init made (InitWSL), on Linux init can be run again after *)
(* anything and reports btrfs only where there is btrfs (InitLocal), and   *)
(* neither gives up a file system with data unless it was told --reinit.   *)
(***************************************************************************)
EXTENDS CommandLine, TLAPS

-----------------------------------------------------------------------------
(* InitWSL.                                                                *)

\* A new file system on a disk.
LEMMA DiskFormatted ==
  ASSUME NEW d \in WSL!Disks, NEW e, e = WSL!Formatted(d)
  PROVE  /\ e \in WSL!Disks
         /\ e.there = d.there /\ e.part = d.part /\ e.fs = "btrfs"
         /\ e.data = FALSE /\ e.sub = FALSE /\ e.gen = d.gen + 1 /\ e.gen > 0
<1>1. d.gen \in Nat
  BY DEF WSL!Disks
<1> DEFINE g == d.gen + 1
<1>2. g \in Nat /\ g > 0
  BY <1>1
<1>3. e = [d EXCEPT !.fs = "btrfs", !.data = FALSE, !.sub = FALSE, !.gen = g]
  BY DEF WSL!Formatted
<1> HIDE DEF g
<1>4. /\ e \in WSL!Disks
      /\ e.there = d.there /\ e.part = d.part /\ e.fs = "btrfs"
      /\ e.data = FALSE /\ e.sub = FALSE /\ e.gen = g
  BY <1>2, <1>3 DEF WSL!Disks
<1>5. e.gen > 0
  BY <1>2, <1>4
<1> QED
  BY <1>4, <1>5 DEF g

\* A disk whose signatures are gone.
LEMMA DiskWiped ==
  ASSUME NEW d \in WSL!Disks
  PROVE  LET e == WSL!Wiped(d)
         IN  /\ e \in WSL!Disks
             /\ e.there = d.there /\ e.part = d.part /\ e.fs = ""
             /\ e.data = FALSE /\ e.sub = FALSE /\ e.gen = d.gen
  BY DEF WSL!Disks, WSL!Wiped

\* Where there is no disk.
LEMMA NoDiskTyped ==
  /\ WSL!NoDisk \in WSL!Disks
  /\ WSL!NoDisk.there = FALSE /\ WSL!NoDisk.part = FALSE /\ WSL!NoDisk.fs = ""
  /\ WSL!NoDisk.data = FALSE
<1>1. 1 \in WSL!Sizes
  BY DEF WSL!Sizes
<1>2. WSL!NoDisk \in WSL!Disks
  BY <1>1 DEF WSL!Disks, WSL!NoDisk
<1>3. /\ WSL!NoDisk.there = FALSE /\ WSL!NoDisk.part = FALSE /\ WSL!NoDisk.fs = ""
      /\ WSL!NoDisk.data = FALSE
  BY DEF WSL!NoDisk
<1> QED
  BY <1>2, <1>3

\* A removed disk image.
LEMMA DiskRemoved ==
  ASSUME NEW d \in WSL!Disks, NEW e, e = [WSL!NoDisk EXCEPT !.gen = d.gen]
  PROVE  /\ e \in WSL!Disks
         /\ e.there = FALSE /\ e.part = FALSE /\ e.fs = "" /\ e.data = FALSE
<1>1. d.gen \in Nat
  BY DEF WSL!Disks
<1> QED
  BY <1>1, NoDiskTyped DEF WSL!Disks

\* A new disk image.
LEMMA DiskCreated ==
  ASSUME NEW d \in WSL!Disks, NEW z \in WSL!Sizes
  PROVE  LET e == [d EXCEPT !.there = TRUE, !.size = z]
         IN  /\ e \in WSL!Disks
             /\ e.there = TRUE /\ e.part = d.part /\ e.fs = d.fs /\ e.data = d.data
             /\ e.sub = d.sub /\ e.gen = d.gen
  BY DEF WSL!Disks

\* A partition on a disk.
LEMMA DiskPartitioned ==
  ASSUME NEW d \in WSL!Disks
  PROVE  LET e == [d EXCEPT !.part = TRUE]
         IN  /\ e \in WSL!Disks
             /\ e.there = d.there /\ e.part = TRUE /\ e.fs = d.fs /\ e.data = d.data
             /\ e.sub = d.sub /\ e.gen = d.gen
  BY DEF WSL!Disks

\* Subvolumes on a disk.
LEMMA DiskDivided ==
  ASSUME NEW d \in WSL!Disks
  PROVE  LET e == [d EXCEPT !.sub = TRUE]
         IN  /\ e \in WSL!Disks
             /\ e.there = d.there /\ e.part = d.part /\ e.fs = d.fs /\ e.data = d.data
             /\ e.sub = TRUE /\ e.gen = d.gen
  BY DEF WSL!Disks

\* Data on a disk.
LEMMA DiskUsed ==
  ASSUME NEW d \in WSL!Disks
  PROVE  LET e == [d EXCEPT !.data = TRUE]
         IN  /\ e \in WSL!Disks
             /\ e.there = d.there /\ e.part = d.part /\ e.fs = d.fs /\ e.data = TRUE
             /\ e.sub = d.sub /\ e.gen = d.gen
  BY DEF WSL!Disks

\* What ensureWSLStoreMount leaves: what was mounted stays, or the unit's btrfs disk is
\* mounted, attached if it is the VHDX.
StoreMounted ==
  /\ (r3 => r3') /\ (r3' => r3 \/ r1.there)
  /\ \/ r4' = r4
     \/ r4 = "none" /\ r4' = r5.disk /\ WSL!Disk(r5.disk).fs = "btrfs" /\ (r5.disk = "ours" => r3')

\* EnsureStoreMount leaves just that.
LEMMA StoreMountEnsured ==
  ASSUME r3' = WSL!EnsureStoreMount.attached, r4' = WSL!EnsureStoreMount.mounted
  PROVE  StoreMounted
  BY DEF WSL!EnsureStoreMount, WSL!Present, StoreMounted

\* What the invariant of the store says besides the types.
WSLSound == WSL!MountsSound /\ WSL!UnitsSound /\ WSL!StepsSound /\ WSL!InitReady /\ WSL!EngineOnStore

\* An init that gives up leaves the disks, the unit and the mount alone.
LEMMA WSLStopped ==
  ASSUME WSL!IInv, WSL!Fault \/ WSL!Refuse
  PROVE  WSLSound'
<1>1. UNCHANGED <<r1, r2, r3, r4, r5, r6, r7, r9, r11, r12, r15>> /\ r10' = "done" /\ r14' \in {"fail", "degraded"}
  BY DEF WSL!Fault, WSL!Refuse, WSL!Unavailable, WSL!host, WSL!local
<1>2. WSL!MountsSound'
  BY <1>1 DEF WSL!IInv, WSL!MountsSound, WSL!Disk
<1>3. WSL!UnitsSound'
  BY <1>1 DEF WSL!IInv, WSL!UnitsSound, WSL!StartsAtBoot, WSL!Disk, WSL!ReinitSteps, WSL!DiskSteps
<1>4. WSL!StepsSound'
  BY <1>1 DEF WSL!IInv, WSL!StepsSound, WSL!Disk, WSL!ReinitSteps, WSL!DiskSteps, WSL!UnitSteps
<1>5. WSL!InitReady' /\ WSL!EngineOnStore'
  BY <1>1 DEF WSL!IInv, WSL!InitReady, WSL!EngineOnStore, WSL!NotStarted
<1> QED
  BY <1>2, <1>3, <1>4, <1>5 DEF WSLSound

\* Every step of an init, of WSL or of an engine start keeps what InitReady and
\* EngineOnStore rest on.
LEMMA WSLSoundStep ==
  WSL!IInv /\ [WSL!Next]_(WSL!vars) => WSLSound'
<1> SUFFICES ASSUME WSL!IInv, [WSL!Next]_(WSL!vars)
             PROVE  WSLSound'
  OBVIOUS
<1>m. WSL!MountsSound
  BY DEF WSL!IInv
<1>u. WSL!UnitsSound
  BY DEF WSL!IInv
<1>s. WSL!StepsSound
  BY DEF WSL!IInv
<1>r. WSL!InitReady
  BY DEF WSL!IInv
<1>e. WSL!EngineOnStore
  BY DEF WSL!IInv
<1>t. /\ r1 \in WSL!Disks /\ r2 \in WSL!Disks /\ r9 \in WSL!Commands
      /\ r4 \in {"none", "ours", "alien"} /\ r12 \in {"none", "ours", "alien"}
      /\ r5.disk \in {"none", "ours", "alien"}
      /\ (r1.data => r1.fs = "btrfs") /\ (r1.there \/ r1.fs = "")
  BY DEF WSL!IInv, WSL!TypeOK, WSL!Units
<1>stop. (WSL!Fault \/ WSL!Refuse) => WSLSound'
  BY WSLStopped
<1>1. CASE WSL!Start
  <2>1. CASE r10 = "idle" /\ r10' = "bootstrap"
        /\ UNCHANGED <<r1, r2, r3, r4, r5, r6, r7, r8, r11, r12, r13, r14, r15, r17, r18>>
    <3>1. WSL!MountsSound'
      BY <1>m, <2>1 DEF WSL!MountsSound, WSL!Disk
    <3>2. WSL!UnitsSound'
      BY <1>u, <2>1 DEF WSL!UnitsSound, WSL!StartsAtBoot, WSL!Disk, WSL!ReinitSteps, WSL!DiskSteps
    <3>3. WSL!StepsSound'
      BY <1>s, <2>1 DEF WSL!StepsSound, WSL!Disk, WSL!ReinitSteps, WSL!DiskSteps, WSL!UnitSteps
    <3>4. WSL!InitReady'
      BY <1>r, <1>s, <2>1 DEF WSL!InitReady, WSL!Disk, WSL!StepsSound, WSL!ReinitSteps, WSL!DiskSteps, WSL!UnitSteps
    <3>5. WSL!EngineOnStore'
      BY <1>e, <2>1 DEF WSL!EngineOnStore, WSL!NotStarted
    <3> QED
      BY <3>1, <3>2, <3>3, <3>4, <3>5 DEF WSLSound
  <2>9. (r10 = "idle" /\ r10' = "bootstrap"
            /\ UNCHANGED <<r1, r2, r3, r4, r5, r6, r7, r8, r11, r12, r13, r14, r15, r17, r18>>)
    BY <1>1 DEF WSL!Start, WSL!host
  <2> QED
    BY <2>9, <2>1
<1>2. CASE WSL!Bootstrap
  <2>1. CASE r10 = "bootstrap" /\ r10' = (IF r9.reinit THEN "rmunit" ELSE "vhdx")
        /\ UNCHANGED <<r1, r2, r3, r4, r5, r6, r7, r8, r9, r11, r12, r13, r14, r15, r16, r17, r18>>
    <3>1. WSL!MountsSound'
      BY <1>m, <2>1 DEF WSL!MountsSound, WSL!Disk
    <3>2. WSL!UnitsSound'
      BY <1>u, <2>1 DEF WSL!UnitsSound, WSL!StartsAtBoot, WSL!Disk, WSL!ReinitSteps, WSL!DiskSteps
    <3>3. WSL!StepsSound'
      BY <1>s, <2>1 DEF WSL!StepsSound, WSL!Disk, WSL!ReinitSteps, WSL!DiskSteps, WSL!UnitSteps
    <3>4. WSL!InitReady'
      BY <1>r, <1>s, <2>1 DEF WSL!InitReady, WSL!Disk, WSL!StepsSound, WSL!ReinitSteps, WSL!DiskSteps, WSL!UnitSteps
    <3>5. WSL!EngineOnStore'
      BY <1>e, <2>1 DEF WSL!EngineOnStore, WSL!NotStarted
    <3> QED
      BY <3>1, <3>2, <3>3, <3>4, <3>5 DEF WSLSound
  <2>9. (WSL!Fault \/ WSL!Refuse)
        \/ (r10 = "bootstrap" /\ r10' = (IF r9.reinit THEN "rmunit" ELSE "vhdx")
            /\ UNCHANGED <<r1, r2, r3, r4, r5, r6, r7, r8, r9, r11, r12, r13, r14, r15, r16, r17, r18>>)
    BY <1>2 DEF WSL!Bootstrap, WSL!Goto, WSL!Unavailable, WSL!host, WSL!local, WSL!counts
  <2> QED
    BY <2>9, <2>1, <1>stop
<1>3. CASE WSL!RemoveUnit
  <2>1. CASE r10 = "rmunit" /\ r10' = "umount" /\ (r4' = r4 \/ r4' = "none")
        /\ ((r5' = WSL!NoUnit /\ (r6' = FALSE \/ r6' = r6)) \/ (r5' = r5 /\ r6' = FALSE))
        /\ UNCHANGED <<r1, r2, r3, r7, r8, r9, r11, r12, r13, r14, r15, r16, r18>>
    <3>0. r5'.disk \in {"none", r5.disk}
      BY <2>1 DEF WSL!NoUnit
    <3>6. ~WSL!StartsAtBoot'
      BY <2>1 DEF WSL!NoUnit, WSL!StartsAtBoot
    <3>1. WSL!MountsSound'
      BY <1>m, <2>1, <3>0 DEF WSL!MountsSound, WSL!Disk
    <3>2. WSL!UnitsSound'
      BY <3>6 DEF WSL!UnitsSound
    <3>3. WSL!StepsSound'
      BY <1>s, <2>1 DEF WSL!StepsSound, WSL!Disk, WSL!ReinitSteps, WSL!DiskSteps, WSL!UnitSteps
    <3>4. WSL!InitReady'
      BY <1>r, <1>s, <2>1 DEF WSL!InitReady, WSL!Disk, WSL!StepsSound, WSL!ReinitSteps, WSL!DiskSteps, WSL!UnitSteps
    <3>5. WSL!EngineOnStore'
      BY <1>e, <2>1 DEF WSL!EngineOnStore, WSL!NotStarted
    <3> QED
      BY <3>1, <3>2, <3>3, <3>4, <3>5 DEF WSLSound
  <2>9. (r10 = "rmunit" /\ r10' = "umount" /\ (r4' = r4 \/ r4' = "none")
            /\ ((r5' = WSL!NoUnit /\ (r6' = FALSE \/ r6' = r6)) \/ (r5' = r5 /\ r6' = FALSE))
            /\ UNCHANGED <<r1, r2, r3, r7, r8, r9, r11, r12, r13, r14, r15, r16, r18>>)
    BY <1>3 DEF WSL!RemoveUnit, WSL!Goto, WSL!Ignored, WSL!local, WSL!counts
  <2> QED
    BY <2>9, <2>1
<1>4. CASE WSL!UnmountState
  <2>1. CASE r10 = "umount" /\ r10' = "detach" /\ (r4' = r4 \/ r4' = "none")
        /\ UNCHANGED <<r1, r2, r3, r5, r6, r7, r8, r9, r11, r12, r13, r14, r15, r16, r18>>
    <3>1. WSL!MountsSound'
      BY <1>m, <2>1 DEF WSL!MountsSound, WSL!Disk
    <3>2. WSL!UnitsSound'
      BY <1>u, <2>1 DEF WSL!UnitsSound, WSL!StartsAtBoot, WSL!Disk, WSL!ReinitSteps, WSL!DiskSteps
    <3>3. WSL!StepsSound'
      BY <1>s, <2>1 DEF WSL!StepsSound, WSL!Disk, WSL!ReinitSteps, WSL!DiskSteps, WSL!UnitSteps
    <3>4. WSL!InitReady'
      BY <1>r, <1>s, <2>1 DEF WSL!InitReady, WSL!Disk, WSL!StepsSound, WSL!ReinitSteps, WSL!DiskSteps, WSL!UnitSteps
    <3>5. WSL!EngineOnStore'
      BY <1>e, <2>1 DEF WSL!EngineOnStore, WSL!NotStarted
    <3> QED
      BY <3>1, <3>2, <3>3, <3>4, <3>5 DEF WSLSound
  <2>9. (WSL!Fault \/ WSL!Refuse)
        \/ (r10 = "umount" /\ r10' = "detach" /\ (r4' = r4 \/ r4' = "none")
            /\ UNCHANGED <<r1, r2, r3, r5, r6, r7, r8, r9, r11, r12, r13, r14, r15, r16, r18>>)
    BY <1>4 DEF WSL!UnmountState, WSL!Goto, WSL!Unavailable, WSL!Ignored, WSL!host, WSL!local, WSL!counts
  <2> QED
    BY <2>9, <2>1, <1>stop
<1>5. CASE WSL!Detach
  <2>1. CASE r10 = "detach" /\ r10' = "rmvhdx" /\ (r3' => r3) /\ (r3 /\ r4 = "ours" => r3')
        /\ UNCHANGED <<r1, r2, r4, r5, r6, r7, r8, r9, r11, r12, r13, r14, r15, r16, r18>>
    <3>1. WSL!MountsSound'
      BY <1>m, <2>1 DEF WSL!MountsSound, WSL!Disk
    <3>2. WSL!UnitsSound'
      BY <1>u, <2>1 DEF WSL!UnitsSound, WSL!StartsAtBoot, WSL!Disk, WSL!ReinitSteps, WSL!DiskSteps
    <3>3. WSL!StepsSound'
      BY <1>s, <2>1 DEF WSL!StepsSound, WSL!Disk, WSL!ReinitSteps, WSL!DiskSteps, WSL!UnitSteps
    <3>4. WSL!InitReady'
      BY <1>r, <1>s, <2>1 DEF WSL!InitReady, WSL!Disk, WSL!StepsSound, WSL!ReinitSteps, WSL!DiskSteps, WSL!UnitSteps
    <3>5. WSL!EngineOnStore'
      BY <1>e, <2>1 DEF WSL!EngineOnStore, WSL!NotStarted
    <3> QED
      BY <3>1, <3>2, <3>3, <3>4, <3>5 DEF WSLSound
  <2>9. (r10 = "detach" /\ r10' = "rmvhdx" /\ (r3' => r3) /\ (r3 /\ r4 = "ours" => r3')
            /\ UNCHANGED <<r1, r2, r4, r5, r6, r7, r8, r9, r11, r12, r13, r14, r15, r16, r18>>)
    <3>1. r10 = "detach" /\ r10' = "rmvhdx" /\ (r3' = (r3 /\ r4 = "ours") \/ r3' = r3)
      BY <1>5 DEF WSL!Detach, WSL!Goto, WSL!Ignored
    <3>2. (r3' => r3) /\ (r3 /\ r4 = "ours" => r3')
      <4>1. CASE r3' = r3
        BY <4>1
      <4>2. CASE r3' = (r3 /\ r4 = "ours")
        BY <4>2, Zenon
      <4> QED
        BY <3>1, <4>1, <4>2
    <3>3. UNCHANGED <<r1, r2, r4, r5, r6, r7, r8, r9, r11, r12, r13, r14, r15, r16, r18>>
      BY <1>5 DEF WSL!Detach, WSL!Goto, WSL!Ignored, WSL!local, WSL!counts
    <3> QED
      BY <3>1, <3>2, <3>3
  <2> QED
    BY <2>9, <2>1
<1>6. CASE WSL!RemoveVHDX
  <2>1. CASE r10 = "rmvhdx" /\ r10' = "vhdx" /\ ~r3 /\ r1' = [WSL!NoDisk EXCEPT !.gen = r1.gen]
        /\ UNCHANGED <<r2, r3, r4, r5, r6, r7, r8, r9, r11, r12, r13, r14, r15, r16, r17, r18>>
    <3>0. r1'.there = FALSE /\ r1'.part = FALSE /\ r1'.fs = "" /\ r1'.data = FALSE
      BY <1>t, <2>1, DiskRemoved
    <3>1. WSL!MountsSound'
      BY <1>m, <2>1, <3>0 DEF WSL!MountsSound, WSL!Disk
    <3>2. WSL!UnitsSound'
      BY <1>u, <1>s, <2>1, <3>0 DEF WSL!UnitsSound, WSL!StartsAtBoot, WSL!Disk, WSL!ReinitSteps, WSL!DiskSteps, WSL!StepsSound, WSL!UnitSteps
    <3>3. WSL!StepsSound'
      BY <1>s, <2>1, <3>0 DEF WSL!StepsSound, WSL!Disk, WSL!ReinitSteps, WSL!DiskSteps, WSL!UnitSteps
    <3>4. WSL!InitReady'
      BY <1>r, <1>s, <2>1, <3>0 DEF WSL!InitReady, WSL!Disk, WSL!StepsSound, WSL!ReinitSteps, WSL!DiskSteps, WSL!UnitSteps
    <3>5. WSL!EngineOnStore'
      BY <1>e, <2>1, <3>0 DEF WSL!EngineOnStore, WSL!NotStarted
    <3> QED
      BY <3>1, <3>2, <3>3, <3>4, <3>5 DEF WSLSound
  <2>9. (WSL!Fault \/ WSL!Refuse)
        \/ (r10 = "rmvhdx" /\ r10' = "vhdx" /\ ~r3 /\ r1' = [WSL!NoDisk EXCEPT !.gen = r1.gen]
            /\ UNCHANGED <<r2, r3, r4, r5, r6, r7, r8, r9, r11, r12, r13, r14, r15, r16, r17, r18>>)
    BY <1>6 DEF WSL!RemoveVHDX, WSL!Goto, WSL!Unavailable, WSL!host, WSL!local, WSL!counts
  <2> QED
    BY <2>9, <2>1, <1>stop
<1>7. CASE WSL!EnsureHostVHDX
  <2>1. CASE r10 = "vhdx" /\ r10' = "find" /\ r1.there
        /\ UNCHANGED <<r1, r2, r3, r4, r5, r6, r7, r8, r9, r11, r12, r13, r14, r15, r16, r17, r18>>
    <3>1. WSL!MountsSound'
      BY <1>m, <2>1 DEF WSL!MountsSound, WSL!Disk
    <3>2. WSL!UnitsSound'
      BY <1>u, <1>s, <2>1 DEF WSL!UnitsSound, WSL!StartsAtBoot, WSL!Disk, WSL!ReinitSteps, WSL!DiskSteps, WSL!StepsSound, WSL!UnitSteps
    <3>3. WSL!StepsSound'
      BY <1>s, <2>1 DEF WSL!StepsSound, WSL!Disk, WSL!ReinitSteps, WSL!DiskSteps, WSL!UnitSteps
    <3>4. WSL!InitReady'
      BY <1>r, <1>s, <2>1 DEF WSL!InitReady, WSL!Disk, WSL!StepsSound, WSL!ReinitSteps, WSL!DiskSteps, WSL!UnitSteps
    <3>5. WSL!EngineOnStore'
      BY <1>e, <2>1 DEF WSL!EngineOnStore, WSL!NotStarted
    <3> QED
      BY <3>1, <3>2, <3>3, <3>4, <3>5 DEF WSLSound
  <2>2. CASE r10 = "vhdx" /\ r10' = "find" /\ ~r1.there /\ r11' = TRUE
        /\ r1' = [r1 EXCEPT !.there = TRUE, !.size = r9.size]
        /\ UNCHANGED <<r2, r3, r4, r5, r6, r7, r8, r9, r12, r13, r14, r15, r16, r17, r18>>
    <3>0. r1'.there = TRUE /\ r1'.fs = r1.fs /\ r1'.data = r1.data /\ r1'.sub = r1.sub /\ r1'.gen = r1.gen
      <4>1. r9.size \in WSL!Sizes
        BY <1>t DEF WSL!Commands
      <4> QED
        BY <1>t, <2>2, <4>1, DiskCreated
    <3>1. WSL!MountsSound'
      BY <1>m, <2>2, <3>0 DEF WSL!MountsSound, WSL!Disk
    <3>2. WSL!UnitsSound'
      BY <1>u, <2>2, <3>0 DEF WSL!UnitsSound, WSL!StartsAtBoot, WSL!Disk, WSL!ReinitSteps, WSL!DiskSteps
    <3>3. WSL!StepsSound'
      BY <1>s, <1>t, <2>2, <3>0 DEF WSL!StepsSound, WSL!Disk, WSL!ReinitSteps, WSL!DiskSteps, WSL!UnitSteps
    <3>4. WSL!InitReady'
      BY <1>r, <1>s, <2>2, <3>0 DEF WSL!InitReady, WSL!Disk, WSL!StepsSound, WSL!ReinitSteps, WSL!DiskSteps, WSL!UnitSteps
    <3>5. WSL!EngineOnStore'
      BY <1>e, <2>2, <3>0 DEF WSL!EngineOnStore, WSL!NotStarted
    <3> QED
      BY <3>1, <3>2, <3>3, <3>4, <3>5 DEF WSLSound
  <2>9. (WSL!Fault \/ WSL!Refuse)
        \/ (r10 = "vhdx" /\ r10' = "find" /\ r1.there
            /\ UNCHANGED <<r1, r2, r3, r4, r5, r6, r7, r8, r9, r11, r12, r13, r14, r15, r16, r17, r18>>)
        \/ (r10 = "vhdx" /\ r10' = "find" /\ ~r1.there /\ r11' = TRUE
            /\ r1' = [r1 EXCEPT !.there = TRUE, !.size = r9.size]
            /\ UNCHANGED <<r2, r3, r4, r5, r6, r7, r8, r9, r12, r13, r14, r15, r16, r17, r18>>)
    BY <1>7 DEF WSL!EnsureHostVHDX, WSL!Goto, WSL!Unavailable, WSL!host, WSL!local, WSL!counts
  <2> QED
    BY <2>9, <2>1, <2>2, <1>stop
<1>8. CASE WSL!Find
  <2>1. CASE r10 = "find" /\ r10' = "partition"
        /\ UNCHANGED <<r1, r2, r3, r4, r5, r6, r7, r8, r9, r11, r12, r13, r14, r15, r16, r17, r18>>
    <3>1. WSL!MountsSound'
      BY <1>m, <2>1 DEF WSL!MountsSound, WSL!Disk
    <3>2. WSL!UnitsSound'
      BY <1>u, <2>1 DEF WSL!UnitsSound, WSL!StartsAtBoot, WSL!Disk, WSL!ReinitSteps, WSL!DiskSteps
    <3>3. WSL!StepsSound'
      BY <1>s, <2>1 DEF WSL!StepsSound, WSL!Disk, WSL!ReinitSteps, WSL!DiskSteps, WSL!UnitSteps
    <3>4. WSL!InitReady'
      BY <1>r, <1>s, <2>1 DEF WSL!InitReady, WSL!Disk, WSL!StepsSound, WSL!ReinitSteps, WSL!DiskSteps, WSL!UnitSteps
    <3>5. WSL!EngineOnStore'
      BY <1>e, <2>1 DEF WSL!EngineOnStore, WSL!NotStarted
    <3> QED
      BY <3>1, <3>2, <3>3, <3>4, <3>5 DEF WSLSound
  <2>2. CASE r10 = "find" /\ r10' = "format" /\ ((r12' = "ours" /\ r3) \/ (r12' = "alien" /\ r2.there))
        /\ UNCHANGED <<r1, r2, r3, r4, r5, r6, r7, r8, r9, r11, r13, r14, r15, r16, r17, r18>>
    <3>1. WSL!MountsSound'
      BY <1>m, <2>2 DEF WSL!MountsSound, WSL!Disk
    <3>2. WSL!UnitsSound'
      BY <1>u, <2>2 DEF WSL!UnitsSound, WSL!StartsAtBoot, WSL!Disk, WSL!ReinitSteps, WSL!DiskSteps
    <3>3. WSL!StepsSound'
      BY <1>s, <2>2 DEF WSL!StepsSound, WSL!Disk, WSL!ReinitSteps, WSL!DiskSteps, WSL!UnitSteps
    <3>4. WSL!InitReady'
      BY <1>r, <1>s, <2>2 DEF WSL!InitReady, WSL!Disk, WSL!StepsSound, WSL!ReinitSteps, WSL!DiskSteps, WSL!UnitSteps
    <3>5. WSL!EngineOnStore'
      BY <1>e, <2>2 DEF WSL!EngineOnStore, WSL!NotStarted
    <3> QED
      BY <3>1, <3>2, <3>3, <3>4, <3>5 DEF WSLSound
  <2>9. (WSL!Fault \/ WSL!Refuse)
        \/ (r10 = "find" /\ r10' = "partition"
            /\ UNCHANGED <<r1, r2, r3, r4, r5, r6, r7, r8, r9, r11, r12, r13, r14, r15, r16, r17, r18>>)
        \/ (r10 = "find" /\ r10' = "format" /\ ((r12' = "ours" /\ r3) \/ (r12' = "alien" /\ r2.there))
            /\ UNCHANGED <<r1, r2, r3, r4, r5, r6, r7, r8, r9, r11, r13, r14, r15, r16, r17, r18>>)
    <3>1. CASE WSL!Candidates \in {{"ours"}, {"alien"}} /\ r12' = (CHOOSE d \in WSL!Candidates : TRUE)
      <4>1. r12' \in WSL!Candidates
        BY <3>1
      <4>2. (r12' = "ours" /\ r3) \/ (r12' = "alien" /\ r2.there)
        BY <4>1 DEF WSL!Candidates, WSL!Disk
      <4> QED
        BY <1>8, <4>2 DEF WSL!Find, WSL!Goto, WSL!host, WSL!local, WSL!counts
    <3> QED
      BY <1>8, <3>1 DEF WSL!Find, WSL!Goto, WSL!host, WSL!local, WSL!counts
  <2> QED
    BY <2>9, <2>1, <2>2, <1>stop
<1>9. CASE WSL!Partition
  <2>1. CASE r10 = "partition" /\ r10' = "attach" /\ ~r3 /\ r1' = [r1 EXCEPT !.part = TRUE]
        /\ UNCHANGED <<r2, r3, r4, r5, r6, r7, r8, r9, r11, r12, r13, r14, r15, r16, r17, r18>>
    <3>0. r1'.there = r1.there /\ r1'.fs = r1.fs /\ r1'.data = r1.data /\ r1'.sub = r1.sub /\ r1'.gen = r1.gen
      BY <1>t, <2>1, DiskPartitioned
    <3>1. WSL!MountsSound'
      BY <1>m, <2>1, <3>0 DEF WSL!MountsSound, WSL!Disk
    <3>2. WSL!UnitsSound'
      BY <1>u, <2>1, <3>0 DEF WSL!UnitsSound, WSL!StartsAtBoot, WSL!Disk, WSL!ReinitSteps, WSL!DiskSteps
    <3>3. WSL!StepsSound'
      BY <1>s, <2>1, <3>0 DEF WSL!StepsSound, WSL!Disk, WSL!ReinitSteps, WSL!DiskSteps, WSL!UnitSteps
    <3>4. WSL!InitReady'
      BY <1>r, <1>s, <2>1, <3>0 DEF WSL!InitReady, WSL!Disk, WSL!StepsSound, WSL!ReinitSteps, WSL!DiskSteps, WSL!UnitSteps
    <3>5. WSL!EngineOnStore'
      BY <1>e, <2>1, <3>0 DEF WSL!EngineOnStore, WSL!NotStarted
    <3> QED
      BY <3>1, <3>2, <3>3, <3>4, <3>5 DEF WSLSound
  <2>9. (WSL!Fault \/ WSL!Refuse)
        \/ (r10 = "partition" /\ r10' = "attach" /\ ~r3 /\ r1' = [r1 EXCEPT !.part = TRUE]
            /\ UNCHANGED <<r2, r3, r4, r5, r6, r7, r8, r9, r11, r12, r13, r14, r15, r16, r17, r18>>)
    BY <1>9 DEF WSL!Partition, WSL!Goto, WSL!Unavailable, WSL!host, WSL!local, WSL!counts
  <2> QED
    BY <2>9, <2>1, <1>stop
<1>10. CASE WSL!Attach
  <2>1. CASE r10 = "attach" /\ r10' = "refind" /\ r3' = TRUE
        /\ UNCHANGED <<r1, r2, r4, r5, r6, r7, r8, r9, r11, r12, r13, r14, r15, r16, r17, r18>>
    <3>1. WSL!MountsSound'
      BY <1>m, <1>s, <2>1 DEF WSL!MountsSound, WSL!Disk, WSL!StepsSound, WSL!ReinitSteps, WSL!DiskSteps, WSL!UnitSteps
    <3>2. WSL!UnitsSound'
      BY <1>u, <2>1 DEF WSL!UnitsSound, WSL!StartsAtBoot, WSL!Disk, WSL!ReinitSteps, WSL!DiskSteps
    <3>3. WSL!StepsSound'
      BY <1>s, <2>1 DEF WSL!StepsSound, WSL!Disk, WSL!ReinitSteps, WSL!DiskSteps, WSL!UnitSteps
    <3>4. WSL!InitReady'
      BY <1>r, <1>s, <2>1 DEF WSL!InitReady, WSL!Disk, WSL!StepsSound, WSL!ReinitSteps, WSL!DiskSteps, WSL!UnitSteps
    <3>5. WSL!EngineOnStore'
      BY <1>e, <2>1 DEF WSL!EngineOnStore, WSL!NotStarted
    <3> QED
      BY <3>1, <3>2, <3>3, <3>4, <3>5 DEF WSLSound
  <2>9. (WSL!Fault \/ WSL!Refuse)
        \/ (r10 = "attach" /\ r10' = "refind" /\ r3' = TRUE
            /\ UNCHANGED <<r1, r2, r4, r5, r6, r7, r8, r9, r11, r12, r13, r14, r15, r16, r17, r18>>)
    BY <1>10 DEF WSL!Attach, WSL!Goto, WSL!Unavailable, WSL!host, WSL!local, WSL!counts
  <2> QED
    BY <2>9, <2>1, <1>stop
<1>11. CASE WSL!Refind
  <2>1. CASE r10 = "refind" /\ r10' = "format" /\ r12' = "ours" /\ r3
        /\ UNCHANGED <<r1, r2, r3, r4, r5, r6, r7, r8, r9, r11, r13, r14, r15, r16, r17, r18>>
    <3>1. WSL!MountsSound'
      BY <1>m, <2>1 DEF WSL!MountsSound, WSL!Disk
    <3>2. WSL!UnitsSound'
      BY <1>u, <2>1 DEF WSL!UnitsSound, WSL!StartsAtBoot, WSL!Disk, WSL!ReinitSteps, WSL!DiskSteps
    <3>3. WSL!StepsSound'
      BY <1>s, <2>1 DEF WSL!StepsSound, WSL!Disk, WSL!ReinitSteps, WSL!DiskSteps, WSL!UnitSteps
    <3>4. WSL!InitReady'
      BY <1>r, <1>s, <2>1 DEF WSL!InitReady, WSL!Disk, WSL!StepsSound, WSL!ReinitSteps, WSL!DiskSteps, WSL!UnitSteps
    <3>5. WSL!EngineOnStore'
      BY <1>e, <2>1 DEF WSL!EngineOnStore, WSL!NotStarted
    <3> QED
      BY <3>1, <3>2, <3>3, <3>4, <3>5 DEF WSLSound
  <2>9. (WSL!Fault \/ WSL!Refuse)
        \/ (r10 = "refind" /\ r10' = "format" /\ r12' = "ours" /\ r3
            /\ UNCHANGED <<r1, r2, r3, r4, r5, r6, r7, r8, r9, r11, r13, r14, r15, r16, r17, r18>>)
    BY <1>11 DEF WSL!Refind, WSL!Candidates, WSL!Goto, WSL!Unavailable, WSL!host, WSL!local, WSL!counts
  <2> QED
    BY <2>9, <2>1, <1>stop
<1>12. CASE WSL!EnsureBtrfs
  <2>1. CASE r10 = "format" /\ r10' = "unit" /\ WSL!Disk(r12).fs = "btrfs"
        /\ UNCHANGED <<r1, r2, r3, r4, r5, r6, r7, r8, r9, r11, r12, r13, r14, r15, r16, r17, r18>>
    <3>1. WSL!MountsSound'
      BY <1>m, <2>1 DEF WSL!MountsSound, WSL!Disk
    <3>2. WSL!UnitsSound'
      BY <1>u, <2>1 DEF WSL!UnitsSound, WSL!StartsAtBoot, WSL!Disk, WSL!ReinitSteps, WSL!DiskSteps
    <3>3. WSL!StepsSound'
      BY <1>s, <2>1 DEF WSL!StepsSound, WSL!Disk, WSL!ReinitSteps, WSL!DiskSteps, WSL!UnitSteps
    <3>4. WSL!InitReady'
      BY <1>r, <1>s, <2>1 DEF WSL!InitReady, WSL!Disk, WSL!StepsSound, WSL!ReinitSteps, WSL!DiskSteps, WSL!UnitSteps
    <3>5. WSL!EngineOnStore'
      BY <1>e, <2>1 DEF WSL!EngineOnStore, WSL!NotStarted
    <3> QED
      BY <3>1, <3>2, <3>3, <3>4, <3>5 DEF WSLSound
  <2>2. CASE r10 = "format" /\ r10' = "unit" /\ r4 # r12 /\ WSL!AllowFormat
        /\ r1' = (IF r12 = "ours" THEN WSL!Formatted(r1) ELSE r1)
        /\ r2' = (IF r12 = "alien" THEN WSL!Formatted(r2) ELSE r2)
        /\ UNCHANGED <<r3, r4, r5, r6, r7, r8, r9, r11, r12, r13, r14, r15, r16, r17, r18>>
    <3>0. /\ r12 \in {"ours", "alien"} /\ r1'.there = r1.there /\ r2'.there = r2.there
          /\ r1'.data => r1.data
          /\ r12 = "ours" => r2' = r2 /\ r1'.fs = "btrfs" /\ r1'.data = FALSE /\ r1'.gen > 0
          /\ r12 = "alien" => r1' = r1 /\ r2'.fs = "btrfs"
          /\ r11 \/ r9.reinit \/ WSL!Disk(r12).fs = ""
      <4>1. r12 \in {"ours", "alien"} /\ (r11 \/ r9.reinit \/ WSL!Disk(r12).fs = "")
        BY <1>s, <1>t, <2>2 DEF WSL!StepsSound, WSL!AllowFormat, WSL!Detected
      <4>2. CASE r12 = "ours"
        <5>1. r1' = WSL!Formatted(r1) /\ r2' = r2
          BY <2>2, <4>2
        <5>2. r1'.there = r1.there /\ r1'.fs = "btrfs" /\ r1'.data = FALSE /\ r1'.gen > 0
          BY <1>t, <5>1, DiskFormatted
        <5> QED
          BY <4>1, <4>2, <5>1, <5>2
      <4>3. CASE r12 = "alien"
        <5>1. r2' = WSL!Formatted(r2) /\ r1' = r1
          BY <2>2, <4>3
        <5>2. r2'.there = r2.there /\ r2'.fs = "btrfs"
          BY <1>t, <5>1, DiskFormatted
        <5> QED
          BY <4>1, <4>3, <5>1, <5>2
      <4> QED
        BY <4>1, <4>2, <4>3
    <3>1. WSL!MountsSound'
      BY <1>m, <1>t, <2>2, <3>0 DEF WSL!MountsSound, WSL!Disk
    <3>2. WSL!UnitsSound'
      BY <1>u, <1>t, <2>2, <3>0 DEF WSL!UnitsSound, WSL!StartsAtBoot, WSL!Disk, WSL!ReinitSteps, WSL!DiskSteps
    <3>3. WSL!StepsSound'
      BY <1>s, <1>t, <2>2, <3>0 DEF WSL!StepsSound, WSL!Disk, WSL!ReinitSteps, WSL!DiskSteps, WSL!UnitSteps
    <3>4. WSL!InitReady'
      BY <1>r, <1>s, <2>2, <3>0 DEF WSL!InitReady, WSL!Disk, WSL!StepsSound, WSL!ReinitSteps, WSL!DiskSteps, WSL!UnitSteps
    <3>5. WSL!EngineOnStore'
      BY <1>e, <2>2, <3>0 DEF WSL!EngineOnStore, WSL!NotStarted
    <3> QED
      BY <3>1, <3>2, <3>3, <3>4, <3>5 DEF WSLSound
  <2>3. CASE r10 = "format" /\ r10' = "done" /\ r14' # "ok" /\ r4 # r12 /\ WSL!AllowFormat
        /\ r1' = (IF r12 = "ours" THEN WSL!Wiped(r1) ELSE r1)
        /\ r2' = (IF r12 = "alien" THEN WSL!Wiped(r2) ELSE r2)
        /\ UNCHANGED <<r3, r4, r5, r6, r7, r8, r9, r11, r12, r15, r16, r18>>
    <3>0. /\ r12 \in {"ours", "alien"} /\ r1'.there = r1.there /\ r2'.there = r2.there
          /\ r1'.data => r1.data
          /\ r12 = "ours" => r2' = r2 /\ r1'.fs = "" /\ r1'.data = FALSE /\ r1'.gen = r1.gen
          /\ r12 = "alien" => r1' = r1 /\ r2'.fs = ""
          /\ r11 \/ r9.reinit \/ WSL!Disk(r12).fs = ""
      <4>1. r12 \in {"ours", "alien"} /\ (r11 \/ r9.reinit \/ WSL!Disk(r12).fs = "")
        BY <1>s, <1>t, <2>3 DEF WSL!StepsSound, WSL!AllowFormat, WSL!Detected
      <4>2. CASE r12 = "ours"
        <5>1. r1' = WSL!Wiped(r1) /\ r2' = r2
          BY <2>3, <4>2
        <5>2. r1'.there = r1.there /\ r1'.fs = "" /\ r1'.data = FALSE /\ r1'.gen = r1.gen
          BY <1>t, <5>1, DiskWiped
        <5>3. r1.gen \in Nat
          BY <1>t DEF WSL!Disks
        <5> QED
          BY <4>1, <4>2, <5>1, <5>2, <5>3
      <4>3. CASE r12 = "alien"
        <5>1. r2' = WSL!Wiped(r2) /\ r1' = r1
          BY <2>3, <4>3
        <5>2. r2'.there = r2.there /\ r2'.fs = ""
          BY <1>t, <5>1, DiskWiped
        <5> QED
          BY <4>1, <4>3, <5>1, <5>2
      <4> QED
        BY <4>1, <4>2, <4>3
    <3>1. WSL!MountsSound'
      BY <1>m, <1>t, <2>3, <3>0 DEF WSL!MountsSound, WSL!Disk
    <3>2. WSL!UnitsSound'
      BY <1>u, <1>t, <2>3, <3>0 DEF WSL!UnitsSound, WSL!StartsAtBoot, WSL!Disk, WSL!ReinitSteps, WSL!DiskSteps
    <3>3. WSL!StepsSound'
      BY <1>s, <1>t, <2>3, <3>0 DEF WSL!StepsSound, WSL!Disk, WSL!ReinitSteps, WSL!DiskSteps, WSL!UnitSteps
    <3>4. WSL!InitReady'
      BY <1>r, <1>s, <2>3, <3>0 DEF WSL!InitReady, WSL!Disk, WSL!StepsSound, WSL!ReinitSteps, WSL!DiskSteps, WSL!UnitSteps
    <3>5. WSL!EngineOnStore'
      BY <1>e, <2>3, <3>0 DEF WSL!EngineOnStore, WSL!NotStarted
    <3> QED
      BY <3>1, <3>2, <3>3, <3>4, <3>5 DEF WSLSound
  <2>9. (WSL!Fault \/ WSL!Refuse)
        \/ (r10 = "format" /\ r10' = "unit" /\ WSL!Disk(r12).fs = "btrfs"
            /\ UNCHANGED <<r1, r2, r3, r4, r5, r6, r7, r8, r9, r11, r12, r13, r14, r15, r16, r17, r18>>)
        \/ (r10 = "format" /\ r10' = "unit" /\ r4 # r12 /\ WSL!AllowFormat
            /\ r1' = (IF r12 = "ours" THEN WSL!Formatted(r1) ELSE r1)
            /\ r2' = (IF r12 = "alien" THEN WSL!Formatted(r2) ELSE r2)
            /\ UNCHANGED <<r3, r4, r5, r6, r7, r8, r9, r11, r12, r13, r14, r15, r16, r17, r18>>)
        \/ (r10 = "format" /\ r10' = "done" /\ r14' # "ok" /\ r4 # r12 /\ WSL!AllowFormat
            /\ r1' = (IF r12 = "ours" THEN WSL!Wiped(r1) ELSE r1)
            /\ r2' = (IF r12 = "alien" THEN WSL!Wiped(r2) ELSE r2)
            /\ UNCHANGED <<r3, r4, r5, r6, r7, r8, r9, r11, r12, r15, r16, r18>>)
    BY <1>12 DEF WSL!EnsureBtrfs, WSL!Goto, WSL!Unavailable, WSL!host, WSL!local, WSL!counts
  <2> QED
    BY <2>9, <2>1, <2>2, <2>3, <1>stop
<1>13. CASE WSL!InstallUnit
  <2>1. CASE r10 = "unit" /\ r5'.disk = r12 /\ ((r6' = TRUE /\ r10' = "mount" /\ r14' = r14) \/ (r6' = r6 /\ r10' = "done" /\ r14' # "ok"))
        /\ UNCHANGED <<r1, r2, r3, r4, r7, r8, r9, r11, r12, r15, r16, r18>>
    <3>1. WSL!MountsSound'
      BY <1>m, <2>1 DEF WSL!MountsSound, WSL!Disk
    <3>2. WSL!UnitsSound'
      BY <1>u, <1>s, <2>1 DEF WSL!UnitsSound, WSL!StartsAtBoot, WSL!Disk, WSL!ReinitSteps, WSL!DiskSteps, WSL!StepsSound, WSL!UnitSteps
    <3>3. WSL!StepsSound'
      BY <1>s, <2>1 DEF WSL!StepsSound, WSL!Disk, WSL!ReinitSteps, WSL!DiskSteps, WSL!UnitSteps
    <3>4. WSL!InitReady'
      BY <1>r, <1>s, <2>1 DEF WSL!InitReady, WSL!Disk, WSL!StepsSound, WSL!ReinitSteps, WSL!DiskSteps, WSL!UnitSteps
    <3>5. WSL!EngineOnStore'
      BY <1>e, <2>1 DEF WSL!EngineOnStore, WSL!NotStarted
    <3> QED
      BY <3>1, <3>2, <3>3, <3>4, <3>5 DEF WSLSound
  <2>9. (WSL!Fault \/ WSL!Refuse)
        \/ (r10 = "unit" /\ r5'.disk = r12 /\ ((r6' = TRUE /\ r10' = "mount" /\ r14' = r14) \/ (r6' = r6 /\ r10' = "done" /\ r14' # "ok"))
            /\ UNCHANGED <<r1, r2, r3, r4, r7, r8, r9, r11, r12, r15, r16, r18>>)
    BY <1>13 DEF WSL!InstallUnit, WSL!Goto, WSL!Unavailable, WSL!host, WSL!local, WSL!counts
  <2> QED
    BY <2>9, <2>1, <1>stop
<1>14. CASE WSL!MountState
  <2>1. CASE r10 = "mount" /\ r10' = "subvolumes" /\ r4' = (IF r4 # "none" THEN r4 ELSE r5.disk)
        /\ UNCHANGED <<r1, r2, r3, r5, r6, r7, r8, r9, r11, r12, r13, r14, r15, r16, r17, r18>>
    <3>1. WSL!MountsSound'
      BY <1>m, <1>s, <2>1 DEF WSL!MountsSound, WSL!Disk, WSL!StepsSound, WSL!ReinitSteps, WSL!DiskSteps, WSL!UnitSteps
    <3>2. WSL!UnitsSound'
      BY <1>u, <2>1 DEF WSL!UnitsSound, WSL!StartsAtBoot, WSL!Disk, WSL!ReinitSteps, WSL!DiskSteps
    <3>3. WSL!StepsSound'
      BY <1>s, <2>1 DEF WSL!StepsSound, WSL!Disk, WSL!ReinitSteps, WSL!DiskSteps, WSL!UnitSteps
    <3>4. WSL!InitReady'
      BY <1>r, <1>s, <2>1 DEF WSL!InitReady, WSL!Disk, WSL!StepsSound, WSL!ReinitSteps, WSL!DiskSteps, WSL!UnitSteps
    <3>5. WSL!EngineOnStore'
      BY <1>e, <2>1 DEF WSL!EngineOnStore, WSL!NotStarted
    <3> QED
      BY <3>1, <3>2, <3>3, <3>4, <3>5 DEF WSLSound
  <2>9. (WSL!Fault \/ WSL!Refuse)
        \/ (r10 = "mount" /\ r10' = "subvolumes" /\ r4' = (IF r4 # "none" THEN r4 ELSE r5.disk)
            /\ UNCHANGED <<r1, r2, r3, r5, r6, r7, r8, r9, r11, r12, r13, r14, r15, r16, r17, r18>>)
    BY <1>14 DEF WSL!MountState, WSL!Goto, WSL!Unavailable, WSL!host, WSL!local, WSL!counts
  <2> QED
    BY <2>9, <2>1, <1>stop
<1>15. CASE WSL!Subvolumes
  <2>1. CASE r10 = "subvolumes" /\ r10' = "done" /\ r14' = "ok" /\ r7'.disk = r12
        /\ r1' = (IF r4 = "ours" THEN [r1 EXCEPT !.sub = TRUE] ELSE r1)
        /\ r2' = (IF r4 = "alien" THEN [r2 EXCEPT !.sub = TRUE] ELSE r2)
        /\ UNCHANGED <<r3, r4, r5, r6, r8, r9, r11, r12, r13, r15, r16, r17, r18>>
    <3>0. /\ r1'.there = r1.there /\ r1'.fs = r1.fs /\ r1'.data = r1.data /\ r1'.gen = r1.gen
          /\ r2'.there = r2.there /\ r2'.fs = r2.fs
          /\ (r4 = "ours" => r1'.sub = TRUE) /\ (r4 = "alien" => r2'.sub = TRUE)
      <4>1. CASE r4 = "ours"
        BY <1>t, <2>1, <4>1, DiskDivided
      <4>2. CASE r4 = "alien"
        BY <1>t, <2>1, <4>2, DiskDivided
      <4>3. CASE r4 \notin {"ours", "alien"}
        BY <2>1, <4>3
      <4> QED
        BY <4>1, <4>2, <4>3
    <3>1. WSL!MountsSound'
      BY <1>m, <2>1, <3>0 DEF WSL!MountsSound, WSL!Disk
    <3>2. WSL!UnitsSound'
      BY <1>u, <2>1, <3>0 DEF WSL!UnitsSound, WSL!StartsAtBoot, WSL!Disk, WSL!ReinitSteps, WSL!DiskSteps
    <3>3. WSL!StepsSound'
      BY <1>s, <2>1, <3>0 DEF WSL!StepsSound, WSL!Disk, WSL!ReinitSteps, WSL!DiskSteps, WSL!UnitSteps
    <3>4. WSL!InitReady'
      BY <1>r, <1>m, <1>s, <1>t, <2>1, <3>0 DEF WSL!InitReady, WSL!Disk, WSL!MountsSound, WSL!StepsSound, WSL!ReinitSteps, WSL!DiskSteps, WSL!UnitSteps
    <3>5. WSL!EngineOnStore'
      BY <1>e, <2>1, <3>0 DEF WSL!EngineOnStore, WSL!NotStarted
    <3> QED
      BY <3>1, <3>2, <3>3, <3>4, <3>5 DEF WSLSound
  <2>9. (WSL!Fault \/ WSL!Refuse)
        \/ (r10 = "subvolumes" /\ r10' = "done" /\ r14' = "ok" /\ r7'.disk = r12
            /\ r1' = (IF r4 = "ours" THEN [r1 EXCEPT !.sub = TRUE] ELSE r1)
            /\ r2' = (IF r4 = "alien" THEN [r2 EXCEPT !.sub = TRUE] ELSE r2)
            /\ UNCHANGED <<r3, r4, r5, r6, r8, r9, r11, r12, r13, r15, r16, r17, r18>>)
    BY <1>15 DEF WSL!Subvolumes, WSL!Unavailable, WSL!host, WSL!local, WSL!counts
  <2> QED
    BY <2>9, <2>1, <1>stop
<1>16. CASE WSL!Finish
  <2>1. CASE r10 = "done" /\ r10' = "idle" /\ r9' = WSL!NoCmd /\ r11' = FALSE /\ r12' = "none" /\ r14' = "none"
        /\ UNCHANGED <<r1, r2, r3, r4, r5, r6, r7, r8, r15, r16, r17, r18>>
    <3>1. WSL!MountsSound'
      BY <1>m, <2>1 DEF WSL!MountsSound, WSL!Disk
    <3>2. WSL!UnitsSound'
      BY <1>u, <2>1 DEF WSL!UnitsSound, WSL!StartsAtBoot, WSL!Disk, WSL!ReinitSteps, WSL!DiskSteps
    <3>3. WSL!StepsSound'
      BY <1>s, <2>1 DEF WSL!StepsSound, WSL!Disk, WSL!ReinitSteps, WSL!DiskSteps, WSL!UnitSteps
    <3>4. WSL!InitReady'
      BY <1>r, <2>1 DEF WSL!InitReady, WSL!Disk
    <3>5. WSL!EngineOnStore'
      BY <1>e, <2>1 DEF WSL!EngineOnStore, WSL!NotStarted
    <3> QED
      BY <3>1, <3>2, <3>3, <3>4, <3>5 DEF WSLSound
  <2>9. (r10 = "done" /\ r10' = "idle" /\ r9' = WSL!NoCmd /\ r11' = FALSE /\ r12' = "none" /\ r14' = "none"
            /\ UNCHANGED <<r1, r2, r3, r4, r5, r6, r7, r8, r15, r16, r17, r18>>)
    BY <1>16 DEF WSL!Finish, WSL!host, WSL!counts
  <2> QED
    BY <2>9, <2>1
<1>17. CASE WSL!Restart
  <2>1. CASE r10 = "idle" /\ r3' = FALSE
        /\ r4' = (IF r6 /\ WSL!Present(r5, FALSE) THEN r5.disk ELSE "none")
        /\ UNCHANGED <<r1, r2, r5, r6, r7, r8, r9, r10, r11, r12, r13, r14, r15, r16, r17>>
    <3>1. WSL!MountsSound'
      BY <1>m, <1>u, <2>1 DEF WSL!MountsSound, WSL!Disk, WSL!UnitsSound, WSL!StartsAtBoot, WSL!ReinitSteps, WSL!DiskSteps, WSL!Present
    <3>2. WSL!UnitsSound'
      BY <1>u, <2>1 DEF WSL!UnitsSound, WSL!StartsAtBoot, WSL!Disk, WSL!ReinitSteps, WSL!DiskSteps
    <3>3. WSL!StepsSound'
      BY <1>s, <2>1 DEF WSL!StepsSound, WSL!Disk, WSL!ReinitSteps, WSL!DiskSteps, WSL!UnitSteps
    <3>4. WSL!InitReady'
      BY <1>r, <1>s, <2>1 DEF WSL!InitReady, WSL!Disk, WSL!StepsSound, WSL!ReinitSteps, WSL!DiskSteps, WSL!UnitSteps
    <3>5. WSL!EngineOnStore'
      BY <1>e, <2>1 DEF WSL!EngineOnStore, WSL!NotStarted
    <3> QED
      BY <3>1, <3>2, <3>3, <3>4, <3>5 DEF WSLSound
  <2>9. (r10 = "idle" /\ r3' = FALSE
            /\ r4' = (IF r6 /\ WSL!Present(r5, FALSE) THEN r5.disk ELSE "none")
            /\ UNCHANGED <<r1, r2, r5, r6, r7, r8, r9, r10, r11, r12, r13, r14, r15, r16, r17>>)
    BY <1>17 DEF WSL!Restart, WSL!local
  <2> QED
    BY <2>9, <2>1
<1>18. CASE WSL!StartEngine
  <2>1. CASE r10 = "idle" /\ StoreMounted /\ r4' # "none" /\ WSL!Disk(r4').fs = "btrfs"
        /\ r15' = [disk |-> r4', gen |-> WSL!Disk(r4').gen]
        /\ r1' = (IF r4' = "ours" THEN [r1 EXCEPT !.data = TRUE] ELSE r1)
        /\ r2' = (IF r4' = "alien" THEN [r2 EXCEPT !.data = TRUE] ELSE r2)
        /\ UNCHANGED <<r5, r6, r7, r8, r9, r10, r11, r12, r13, r14, r16, r17, r18>>
    <3>0. /\ r1'.there = r1.there /\ r1'.fs = r1.fs /\ r1'.gen = r1.gen
          /\ r2'.there = r2.there /\ r2'.fs = r2.fs
      <4>1. CASE r4' = "ours"
        BY <1>t, <2>1, <4>1, DiskUsed
      <4>2. CASE r4' = "alien"
        BY <1>t, <2>1, <4>2, DiskUsed
      <4>3. CASE r4' \notin {"ours", "alien"}
        BY <2>1, <4>3
      <4> QED
        BY <4>1, <4>2, <4>3
    <3>1. WSL!MountsSound'
      BY <1>m, <1>t, <2>1, <3>0 DEF WSL!MountsSound, WSL!Disk, StoreMounted
    <3>2. WSL!UnitsSound'
      BY <1>u, <2>1, <3>0 DEF WSL!UnitsSound, WSL!StartsAtBoot, WSL!Disk, WSL!ReinitSteps, WSL!DiskSteps
    <3>3. WSL!StepsSound'
      BY <1>s, <2>1, <3>0 DEF WSL!StepsSound, WSL!Disk, WSL!ReinitSteps, WSL!DiskSteps, WSL!UnitSteps
    <3>4. WSL!InitReady'
      BY <1>r, <1>s, <2>1, <3>0 DEF WSL!InitReady, WSL!Disk, WSL!StepsSound, WSL!ReinitSteps, WSL!DiskSteps, WSL!UnitSteps
    <3>5. WSL!EngineOnStore'
      <4>1. r4' \in {"ours", "alien"} /\ (r4' = "alien" => r2.there)
        BY <1>m, <1>t, <2>1, <3>1 DEF WSL!MountsSound, StoreMounted
      <4>2. CASE r4' = "alien"
        BY <3>0, <4>1, <4>2 DEF WSL!EngineOnStore
      <4>3. CASE r4' = "ours"
        <5>1. r15'.disk = "ours" /\ r15'.gen = r1.gen /\ r1.fs = "btrfs"
          BY <2>1, <4>3 DEF WSL!Disk
        <5>2. r1.gen > 0
          BY <1>m, <5>1 DEF WSL!MountsSound
        <5> QED
          BY <5>1, <5>2 DEF WSL!EngineOnStore
      <4> QED
        BY <4>1, <4>2, <4>3
    <3> QED
      BY <3>1, <3>2, <3>3, <3>4, <3>5 DEF WSLSound
  <2>2. CASE r10 = "idle" /\ StoreMounted
        /\ UNCHANGED <<r1, r2, r5, r6, r7, r8, r9, r10, r11, r12, r13, r14, r15, r16, r17, r18>>
    <3>1. WSL!MountsSound'
      BY <1>m, <1>t, <2>2 DEF WSL!MountsSound, WSL!Disk, StoreMounted
    <3>2. WSL!UnitsSound'
      BY <1>u, <2>2 DEF WSL!UnitsSound, WSL!StartsAtBoot, WSL!Disk, WSL!ReinitSteps, WSL!DiskSteps
    <3>3. WSL!StepsSound'
      BY <1>s, <2>2 DEF WSL!StepsSound, WSL!Disk, WSL!ReinitSteps, WSL!DiskSteps, WSL!UnitSteps
    <3>4. WSL!InitReady'
      BY <1>r, <1>s, <2>2 DEF WSL!InitReady, WSL!Disk, WSL!StepsSound, WSL!ReinitSteps, WSL!DiskSteps, WSL!UnitSteps
    <3>5. WSL!EngineOnStore'
      BY <1>e, <2>2 DEF WSL!EngineOnStore, WSL!NotStarted
    <3> QED
      BY <3>1, <3>2, <3>3, <3>4, <3>5 DEF WSLSound
  <2>9. (r10 = "idle" /\ StoreMounted /\ r4' # "none" /\ WSL!Disk(r4').fs = "btrfs"
            /\ r15' = [disk |-> r4', gen |-> WSL!Disk(r4').gen]
            /\ r1' = (IF r4' = "ours" THEN [r1 EXCEPT !.data = TRUE] ELSE r1)
            /\ r2' = (IF r4' = "alien" THEN [r2 EXCEPT !.data = TRUE] ELSE r2)
            /\ UNCHANGED <<r5, r6, r7, r8, r9, r10, r11, r12, r13, r14, r16, r17, r18>>)
        \/ (r10 = "idle" /\ StoreMounted
            /\ UNCHANGED <<r1, r2, r5, r6, r7, r8, r9, r10, r11, r12, r13, r14, r15, r16, r17, r18>>)
    <3>1. CASE WSL!VerifyMount(r4')
      BY <1>18, <3>1, StoreMountEnsured DEF WSL!StartEngine, WSL!VerifyMount, WSL!local, WSL!counts
    <3>2. CASE ~WSL!VerifyMount(r4')
      BY <1>18, <3>2, StoreMountEnsured DEF WSL!StartEngine, WSL!local, WSL!counts
    <3> QED
      BY <3>1, <3>2
  <2> QED
    BY <2>9, <2>1, <2>2
<1>19. CASE UNCHANGED WSL!vars
  <2>1. UNCHANGED <<r1, r2, r3, r4, r5, r6, r7, r8, r9, r10, r11, r12, r13, r14, r15, r16, r17, r18>>
    BY <1>19 DEF WSL!vars, WSL!host, WSL!local, WSL!counts
  <2>2. WSL!MountsSound'
    BY <1>m, <2>1 DEF WSL!MountsSound, WSL!Disk
  <2>3. WSL!UnitsSound'
    BY <1>u, <2>1 DEF WSL!UnitsSound, WSL!StartsAtBoot, WSL!Disk, WSL!ReinitSteps, WSL!DiskSteps
  <2>4. WSL!StepsSound'
    BY <1>s, <2>1 DEF WSL!StepsSound, WSL!Disk, WSL!ReinitSteps, WSL!DiskSteps, WSL!UnitSteps
  <2>5. WSL!InitReady'
    BY <1>r, <2>1 DEF WSL!InitReady, WSL!Disk
  <2>6. WSL!EngineOnStore'
    BY <1>e, <2>1 DEF WSL!EngineOnStore, WSL!NotStarted
  <2> QED
    BY <2>2, <2>3, <2>4, <2>5, <2>6 DEF WSLSound
<1> QED
  BY <1>1, <1>2, <1>3, <1>4, <1>5, <1>6, <1>7, <1>8, <1>9, <1>10, <1>11, <1>12, <1>13, <1>14, <1>15, <1>16, <1>17, <1>18, <1>19 DEF WSL!Next

\* The types of the store's variables, by what they are: disks,
WSLDisks ==
  /\ r1 \in WSL!Disks /\ r2 \in WSL!Disks
  /\ r1.fs # "ext4" /\ (r1.data => r1.fs = "btrfs") /\ (r1.there \/ (r1.fs = "" /\ ~r1.part))
\* names of disks,
WSLNames == /\ r5 \in WSL!Units /\ r7 \in WSL!Units
            /\ r4 \in {"none", "ours", "alien"} /\ r12 \in {"none", "ours", "alien"}
\* flags,
WSLFlags == /\ r3 \in BOOLEAN /\ r6 \in BOOLEAN /\ r8 \in BOOLEAN /\ r11 \in BOOLEAN
            /\ r13 \in BOOLEAN
\* where the command is,
WSLPlace == /\ r10 \in WSL!Steps /\ r9 \in WSL!Commands
            /\ r14 \in {"none", "ok", "fail", "degraded"}
\* and how much has happened.
WSLCounts == r16 \in 0..InitCmds /\ r17 \in 0..MaxFaults /\ r18 \in 0..MaxRestarts

\* They make up TypeOK.
LEMMA WSLTypeParts ==
  /\ WSL!TypeOK <=> WSLDisks /\ WSLNames /\ WSLFlags /\ WSLPlace /\ WSLCounts
  /\ WSL!TypeOK' <=> WSLDisks' /\ WSLNames' /\ WSLFlags' /\ WSLPlace' /\ WSLCounts'
<1>1. {r3, r6, r8, r11, r13} \subseteq BOOLEAN <=> WSLFlags
  BY DEF WSLFlags
<1>2. {r3', r6', r8', r11', r13'} \subseteq BOOLEAN <=> WSLFlags'
  BY DEF WSLFlags
<1>3. WSL!TypeOK <=> WSLDisks /\ WSLNames /\ WSLFlags /\ WSLPlace /\ WSLCounts
  BY <1>1 DEF WSL!TypeOK, WSLDisks, WSLNames, WSLPlace, WSLCounts
<1>4. WSL!TypeOK' <=> WSLDisks' /\ WSLNames' /\ WSLFlags' /\ WSLPlace' /\ WSLCounts'
  BY <1>2 DEF WSL!TypeOK, WSLDisks, WSLNames, WSLPlace, WSLCounts
<1> QED
  BY <1>3, <1>4

\* A bounded counter goes up by one at most, below its bound.
LEMMA CountsUp ==
  ASSUME NEW n \in Nat, NEW x \in 0..n, NEW y, y = x \/ (x < n /\ y = x + 1)
  PROVE  y \in 0..n
  OBVIOUS

\* Every step of an init, a restart or an engine start keeps the types.
LEMMA WSLTypeStep ==
  WSL!IInv /\ [WSL!Next]_(WSL!vars) => WSL!TypeOK'
<1> SUFFICES ASSUME WSL!IInv, [WSL!Next]_(WSL!vars)
             PROVE  WSL!TypeOK'
  OBVIOUS
<1>m. WSL!MountsSound
  BY DEF WSL!IInv
<1>s. WSL!StepsSound
  BY DEF WSL!IInv
<1>d. WSLDisks
  BY WSLTypeParts DEF WSL!IInv
<1>n. WSLNames
  BY WSLTypeParts DEF WSL!IInv
<1>f. WSLFlags
  BY WSLTypeParts DEF WSL!IInv
<1>p. WSLPlace
  BY WSLTypeParts DEF WSL!IInv
<1>c. WSLCounts
  BY WSLTypeParts DEF WSL!IInv
<1>b. InitCmds \in Nat /\ MaxFaults \in Nat /\ MaxRestarts \in Nat
  BY BoundsAssumption, ProcessAssumption
<1>z. \A q \in {"idle", "bootstrap", "vhdx", "done", "rmunit", "umount", "detach", "rmvhdx", "find",
                "partition", "attach", "refind", "format", "unit", "mount", "subvolumes"} : q \in WSL!Steps
  BY DEF WSL!Steps, WSL!ReinitSteps, WSL!DiskSteps, WSL!UnitSteps
<1>g. \A q \in {"ours", "alien"} : WSL!Disk(q) \in WSL!Disks /\ WSL!Disk(q).gen \in Nat
  BY <1>d DEF WSLDisks, WSL!Disk, WSL!Disks
<1>1. CASE WSL!Start
  <2>0. UNCHANGED <<r1, r2, r3, r4, r5, r6, r7, r8, r11, r12, r13, r14, r15, r17, r18>>
    BY <1>1 DEF WSL!Start, WSL!host
  <2>1. WSLDisks'
    BY <1>d, <2>0 DEF WSLDisks
  <2>2. WSLNames'
    BY <1>n, <2>0 DEF WSLNames
  <2>3. WSLFlags'
    BY <1>f, <2>0 DEF WSLFlags
  <2>4. WSLPlace'
    BY <1>p, <1>z, <1>1, <2>0 DEF WSLPlace, WSL!Start, WSL!host, WSL!Commands
  <2>5. WSLCounts'
    <3>16. r16' \in 0..InitCmds
      <4>1. r16 \in 0..InitCmds
        BY <1>c DEF WSLCounts
      <4>2. r16' = r16 \/ (r16 < InitCmds /\ r16' = r16 + 1)
        BY <1>1 DEF WSL!Start, WSL!host
      <4> QED
        BY <1>b, <4>1, <4>2, CountsUp
    <3> QED
      BY <1>c, <2>0, <3>16 DEF WSLCounts
  <2> QED
    BY <2>1, <2>2, <2>3, <2>4, <2>5, WSLTypeParts
<1>2. CASE WSL!Bootstrap
  <2>0. UNCHANGED <<r1, r2, r3, r4, r5, r6, r7, r8, r9, r11, r12, r15, r16, r18>>
    BY <1>2 DEF WSL!Bootstrap, WSL!Goto, WSL!Fault, WSL!Unavailable, WSL!host, WSL!local, WSL!counts
  <2>1. WSLDisks'
    BY <1>d, <2>0 DEF WSLDisks
  <2>2. WSLNames'
    BY <1>n, <2>0 DEF WSLNames
  <2>3. WSLFlags'
    BY <1>f, <1>2, <2>0 DEF WSLFlags, WSL!Bootstrap, WSL!Goto, WSL!Fault, WSL!Unavailable, WSL!host, WSL!local, WSL!counts
  <2>4. WSLPlace'
    BY <1>p, <1>z, <1>2, <2>0 DEF WSLPlace, WSL!Bootstrap, WSL!Goto, WSL!Fault, WSL!Unavailable, WSL!host, WSL!local, WSL!counts, WSL!Commands
  <2>5. WSLCounts'
    <3>17. r17' \in 0..MaxFaults
      <4>1. r17 \in 0..MaxFaults
        BY <1>c DEF WSLCounts
      <4>2. r17' = r17 \/ (r17 < MaxFaults /\ r17' = r17 + 1)
        BY <1>2 DEF WSL!Bootstrap, WSL!Goto, WSL!Fault, WSL!Unavailable, WSL!host, WSL!local, WSL!counts
      <4> QED
        BY <1>b, <4>1, <4>2, CountsUp
    <3> QED
      BY <1>c, <2>0, <3>17 DEF WSLCounts
  <2> QED
    BY <2>1, <2>2, <2>3, <2>4, <2>5, WSLTypeParts
<1>3. CASE WSL!RemoveUnit
  <2>0. UNCHANGED <<r1, r2, r3, r7, r8, r9, r11, r12, r13, r14, r15, r16, r18>>
    BY <1>3 DEF WSL!RemoveUnit, WSL!NoUnit, WSL!Goto, WSL!Ignored, WSL!local, WSL!counts
  <2>1. WSLDisks'
    BY <1>d, <2>0 DEF WSLDisks
  <2>2. WSLNames'
    BY <1>n, <1>g, <1>s, <1>3, <2>0 DEF WSLNames, WSL!RemoveUnit, WSL!NoUnit, WSL!Goto, WSL!Ignored, WSL!local, WSL!counts, WSL!Units, WSL!StepsSound, WSL!UnitSteps
  <2>3. WSLFlags'
    BY <1>f, <1>3, <2>0 DEF WSLFlags, WSL!RemoveUnit, WSL!NoUnit, WSL!Goto, WSL!Ignored, WSL!local, WSL!counts
  <2>4. WSLPlace'
    BY <1>p, <1>z, <1>3, <2>0 DEF WSLPlace, WSL!RemoveUnit, WSL!NoUnit, WSL!Goto, WSL!Ignored, WSL!local, WSL!counts, WSL!Commands
  <2>5. WSLCounts'
    <3>17. r17' \in 0..MaxFaults
      <4>1. r17 \in 0..MaxFaults
        BY <1>c DEF WSLCounts
      <4>2. r17' = r17 \/ (r17 < MaxFaults /\ r17' = r17 + 1)
        BY <1>3 DEF WSL!RemoveUnit, WSL!NoUnit, WSL!Goto, WSL!Ignored, WSL!local, WSL!counts
      <4> QED
        BY <1>b, <4>1, <4>2, CountsUp
    <3> QED
      BY <1>c, <2>0, <3>17 DEF WSLCounts
  <2> QED
    BY <2>1, <2>2, <2>3, <2>4, <2>5, WSLTypeParts
<1>4. CASE WSL!UnmountState
  <2>0. UNCHANGED <<r1, r2, r3, r5, r6, r7, r8, r9, r11, r12, r15, r16, r18>>
    BY <1>4 DEF WSL!UnmountState, WSL!Goto, WSL!Fault, WSL!Unavailable, WSL!Ignored, WSL!host, WSL!local, WSL!counts
  <2>1. WSLDisks'
    BY <1>d, <2>0 DEF WSLDisks
  <2>2. WSLNames'
    BY <1>n, <1>g, <1>s, <1>4, <2>0 DEF WSLNames, WSL!UnmountState, WSL!Goto, WSL!Fault, WSL!Unavailable, WSL!Ignored, WSL!host, WSL!local, WSL!counts, WSL!Units, WSL!StepsSound, WSL!UnitSteps
  <2>3. WSLFlags'
    BY <1>f, <1>4, <2>0 DEF WSLFlags, WSL!UnmountState, WSL!Goto, WSL!Fault, WSL!Unavailable, WSL!Ignored, WSL!host, WSL!local, WSL!counts
  <2>4. WSLPlace'
    BY <1>p, <1>z, <1>4, <2>0 DEF WSLPlace, WSL!UnmountState, WSL!Goto, WSL!Fault, WSL!Unavailable, WSL!Ignored, WSL!host, WSL!local, WSL!counts, WSL!Commands
  <2>5. WSLCounts'
    <3>17. r17' \in 0..MaxFaults
      <4>1. r17 \in 0..MaxFaults
        BY <1>c DEF WSLCounts
      <4>2. r17' = r17 \/ (r17 < MaxFaults /\ r17' = r17 + 1)
        BY <1>4 DEF WSL!UnmountState, WSL!Goto, WSL!Fault, WSL!Unavailable, WSL!Ignored, WSL!host, WSL!local, WSL!counts
      <4> QED
        BY <1>b, <4>1, <4>2, CountsUp
    <3> QED
      BY <1>c, <2>0, <3>17 DEF WSLCounts
  <2> QED
    BY <2>1, <2>2, <2>3, <2>4, <2>5, WSLTypeParts
<1>5. CASE WSL!Detach
  <2>0. UNCHANGED <<r1, r2, r4, r5, r6, r7, r8, r9, r11, r12, r13, r14, r15, r16, r18>>
    BY <1>5 DEF WSL!Detach, WSL!Goto, WSL!Ignored, WSL!local, WSL!counts
  <2>1. WSLDisks'
    BY <1>d, <2>0 DEF WSLDisks
  <2>2. WSLNames'
    BY <1>n, <2>0 DEF WSLNames
  <2>3. WSLFlags'
    BY <1>f, <1>5, <2>0 DEF WSLFlags, WSL!Detach, WSL!Goto, WSL!Ignored, WSL!local, WSL!counts
  <2>4. WSLPlace'
    BY <1>p, <1>z, <1>5, <2>0 DEF WSLPlace, WSL!Detach, WSL!Goto, WSL!Ignored, WSL!local, WSL!counts, WSL!Commands
  <2>5. WSLCounts'
    <3>17. r17' \in 0..MaxFaults
      <4>1. r17 \in 0..MaxFaults
        BY <1>c DEF WSLCounts
      <4>2. r17' = r17 \/ (r17 < MaxFaults /\ r17' = r17 + 1)
        BY <1>5 DEF WSL!Detach, WSL!Goto, WSL!Ignored, WSL!local, WSL!counts
      <4> QED
        BY <1>b, <4>1, <4>2, CountsUp
    <3> QED
      BY <1>c, <2>0, <3>17 DEF WSLCounts
  <2> QED
    BY <2>1, <2>2, <2>3, <2>4, <2>5, WSLTypeParts
<1>6. CASE WSL!RemoveVHDX
  <2>0. UNCHANGED <<r2, r3, r4, r5, r6, r7, r8, r9, r11, r12, r15, r16, r18>>
    BY <1>6 DEF WSL!RemoveVHDX, WSL!Goto, WSL!Fault, WSL!Refuse, WSL!Unavailable, WSL!host, WSL!local, WSL!counts
  <2>1. WSLDisks'
    <3>1. r1' = r1 \/ r1' = [WSL!NoDisk EXCEPT !.gen = r1.gen]
      BY <1>6 DEF WSL!RemoveVHDX, WSL!Goto, WSL!Fault, WSL!Refuse, WSL!Unavailable, WSL!host
    <3>2. CASE r1' = r1
      BY <1>d, <2>0, <3>2 DEF WSLDisks
    <3>3. CASE r1' # r1
      BY <1>d, <2>0, <3>1, <3>3, DiskRemoved DEF WSLDisks
    <3> QED
      BY <3>2, <3>3
  <2>2. WSLNames'
    BY <1>n, <2>0 DEF WSLNames
  <2>3. WSLFlags'
    BY <1>f, <1>6, <2>0 DEF WSLFlags, WSL!RemoveVHDX, WSL!Goto, WSL!Fault, WSL!Refuse, WSL!Unavailable, WSL!host, WSL!local, WSL!counts
  <2>4. WSLPlace'
    BY <1>p, <1>z, <1>6, <2>0 DEF WSLPlace, WSL!RemoveVHDX, WSL!Goto, WSL!Fault, WSL!Refuse, WSL!Unavailable, WSL!host, WSL!local, WSL!counts, WSL!Commands
  <2>5. WSLCounts'
    <3>17. r17' \in 0..MaxFaults
      <4>1. r17 \in 0..MaxFaults
        BY <1>c DEF WSLCounts
      <4>2. r17' = r17 \/ (r17 < MaxFaults /\ r17' = r17 + 1)
        BY <1>6 DEF WSL!RemoveVHDX, WSL!Goto, WSL!Fault, WSL!Refuse, WSL!Unavailable, WSL!host, WSL!local, WSL!counts
      <4> QED
        BY <1>b, <4>1, <4>2, CountsUp
    <3> QED
      BY <1>c, <2>0, <3>17 DEF WSLCounts
  <2> QED
    BY <2>1, <2>2, <2>3, <2>4, <2>5, WSLTypeParts
<1>7. CASE WSL!EnsureHostVHDX
  <2>0. UNCHANGED <<r2, r3, r4, r5, r6, r7, r8, r9, r12, r15, r16, r18>>
    BY <1>7 DEF WSL!EnsureHostVHDX, WSL!Goto, WSL!Fault, WSL!Unavailable, WSL!host, WSL!local, WSL!counts
  <2>1. WSLDisks'
    <3>1. r1' = r1 \/ r1' = [r1 EXCEPT !.there = TRUE, !.size = r9.size]
      BY <1>7 DEF WSL!EnsureHostVHDX, WSL!Goto, WSL!Fault, WSL!Refuse, WSL!Unavailable, WSL!host
    <3>2. CASE r1' = r1
      BY <1>d, <2>0, <3>2 DEF WSLDisks
    <3>3. CASE r1' # r1
      <4>1. r9.size \in WSL!Sizes /\ r1 \in WSL!Disks
        BY <1>d, <1>p DEF WSLDisks, WSLPlace, WSL!Commands
      <4>2. r1' \in WSL!Disks /\ r1'.there /\ r1'.fs = r1.fs /\ r1'.data = r1.data
        BY <3>1, <3>3, <4>1, DiskCreated
      <4> QED
        BY <1>d, <2>0, <4>2 DEF WSLDisks
    <3> QED
      BY <3>2, <3>3
  <2>2. WSLNames'
    BY <1>n, <2>0 DEF WSLNames
  <2>3. WSLFlags'
    BY <1>f, <1>7, <2>0 DEF WSLFlags, WSL!EnsureHostVHDX, WSL!Goto, WSL!Fault, WSL!Unavailable, WSL!host, WSL!local, WSL!counts
  <2>4. WSLPlace'
    BY <1>p, <1>z, <1>7, <2>0 DEF WSLPlace, WSL!EnsureHostVHDX, WSL!Goto, WSL!Fault, WSL!Unavailable, WSL!host, WSL!local, WSL!counts, WSL!Commands
  <2>5. WSLCounts'
    <3>17. r17' \in 0..MaxFaults
      <4>1. r17 \in 0..MaxFaults
        BY <1>c DEF WSLCounts
      <4>2. r17' = r17 \/ (r17 < MaxFaults /\ r17' = r17 + 1)
        BY <1>7 DEF WSL!EnsureHostVHDX, WSL!Goto, WSL!Fault, WSL!Unavailable, WSL!host, WSL!local, WSL!counts
      <4> QED
        BY <1>b, <4>1, <4>2, CountsUp
    <3> QED
      BY <1>c, <2>0, <3>17 DEF WSLCounts
  <2> QED
    BY <2>1, <2>2, <2>3, <2>4, <2>5, WSLTypeParts
<1>8. CASE WSL!Find
  <2>0. UNCHANGED <<r1, r2, r3, r4, r5, r6, r7, r8, r9, r11, r15, r16, r18>>
    BY <1>8 DEF WSL!Find, WSL!Goto, WSL!Fault, WSL!Refuse, WSL!Unavailable, WSL!host, WSL!local, WSL!counts
  <2>1. WSLDisks'
    BY <1>d, <2>0 DEF WSLDisks
  <2>2. WSLNames'
    BY <1>n, <1>g, <1>s, <1>8, <2>0 DEF WSLNames, WSL!Find, WSL!Goto, WSL!Fault, WSL!Refuse, WSL!Unavailable, WSL!host, WSL!local, WSL!counts, WSL!Units, WSL!StepsSound, WSL!UnitSteps
  <2>3. WSLFlags'
    BY <1>f, <1>8, <2>0 DEF WSLFlags, WSL!Find, WSL!Goto, WSL!Fault, WSL!Refuse, WSL!Unavailable, WSL!host, WSL!local, WSL!counts
  <2>4. WSLPlace'
    BY <1>p, <1>z, <1>8, <2>0 DEF WSLPlace, WSL!Find, WSL!Goto, WSL!Fault, WSL!Refuse, WSL!Unavailable, WSL!host, WSL!local, WSL!counts, WSL!Commands
  <2>5. WSLCounts'
    <3>17. r17' \in 0..MaxFaults
      <4>1. r17 \in 0..MaxFaults
        BY <1>c DEF WSLCounts
      <4>2. r17' = r17 \/ (r17 < MaxFaults /\ r17' = r17 + 1)
        BY <1>8 DEF WSL!Find, WSL!Goto, WSL!Fault, WSL!Refuse, WSL!Unavailable, WSL!host, WSL!local, WSL!counts
      <4> QED
        BY <1>b, <4>1, <4>2, CountsUp
    <3> QED
      BY <1>c, <2>0, <3>17 DEF WSLCounts
  <2> QED
    BY <2>1, <2>2, <2>3, <2>4, <2>5, WSLTypeParts
<1>9. CASE WSL!Partition
  <2>0. UNCHANGED <<r2, r3, r4, r5, r6, r7, r8, r9, r11, r12, r15, r16, r18>>
    BY <1>9 DEF WSL!Partition, WSL!Goto, WSL!Fault, WSL!Refuse, WSL!Unavailable, WSL!host, WSL!local, WSL!counts
  <2>1. WSLDisks'
    <3>1. r1' = r1 \/ r1' = [r1 EXCEPT !.part = TRUE]
      BY <1>9 DEF WSL!Partition, WSL!Goto, WSL!Fault, WSL!Refuse, WSL!Unavailable, WSL!host
    <3>4. r1.there
      BY <1>s, <1>9 DEF WSL!StepsSound, WSL!DiskSteps, WSL!Partition
    <3>2. CASE r1' = r1
      BY <1>d, <2>0, <3>2 DEF WSLDisks
    <3>3. CASE r1' # r1
      BY <1>d, <2>0, <3>1, <3>3, DiskPartitioned, <3>4 DEF WSLDisks
    <3> QED
      BY <3>2, <3>3
  <2>2. WSLNames'
    BY <1>n, <2>0 DEF WSLNames
  <2>3. WSLFlags'
    BY <1>f, <1>9, <2>0 DEF WSLFlags, WSL!Partition, WSL!Goto, WSL!Fault, WSL!Refuse, WSL!Unavailable, WSL!host, WSL!local, WSL!counts
  <2>4. WSLPlace'
    BY <1>p, <1>z, <1>9, <2>0 DEF WSLPlace, WSL!Partition, WSL!Goto, WSL!Fault, WSL!Refuse, WSL!Unavailable, WSL!host, WSL!local, WSL!counts, WSL!Commands
  <2>5. WSLCounts'
    <3>17. r17' \in 0..MaxFaults
      <4>1. r17 \in 0..MaxFaults
        BY <1>c DEF WSLCounts
      <4>2. r17' = r17 \/ (r17 < MaxFaults /\ r17' = r17 + 1)
        BY <1>9 DEF WSL!Partition, WSL!Goto, WSL!Fault, WSL!Refuse, WSL!Unavailable, WSL!host, WSL!local, WSL!counts
      <4> QED
        BY <1>b, <4>1, <4>2, CountsUp
    <3> QED
      BY <1>c, <2>0, <3>17 DEF WSLCounts
  <2> QED
    BY <2>1, <2>2, <2>3, <2>4, <2>5, WSLTypeParts
<1>10. CASE WSL!Attach
  <2>0. UNCHANGED <<r1, r2, r4, r5, r6, r7, r8, r9, r11, r12, r15, r16, r18>>
    BY <1>10 DEF WSL!Attach, WSL!Goto, WSL!Fault, WSL!Unavailable, WSL!host, WSL!local, WSL!counts
  <2>1. WSLDisks'
    BY <1>d, <2>0 DEF WSLDisks
  <2>2. WSLNames'
    BY <1>n, <2>0 DEF WSLNames
  <2>3. WSLFlags'
    BY <1>f, <1>10, <2>0 DEF WSLFlags, WSL!Attach, WSL!Goto, WSL!Fault, WSL!Unavailable, WSL!host, WSL!local, WSL!counts
  <2>4. WSLPlace'
    BY <1>p, <1>z, <1>10, <2>0 DEF WSLPlace, WSL!Attach, WSL!Goto, WSL!Fault, WSL!Unavailable, WSL!host, WSL!local, WSL!counts, WSL!Commands
  <2>5. WSLCounts'
    <3>17. r17' \in 0..MaxFaults
      <4>1. r17 \in 0..MaxFaults
        BY <1>c DEF WSLCounts
      <4>2. r17' = r17 \/ (r17 < MaxFaults /\ r17' = r17 + 1)
        BY <1>10 DEF WSL!Attach, WSL!Goto, WSL!Fault, WSL!Unavailable, WSL!host, WSL!local, WSL!counts
      <4> QED
        BY <1>b, <4>1, <4>2, CountsUp
    <3> QED
      BY <1>c, <2>0, <3>17 DEF WSLCounts
  <2> QED
    BY <2>1, <2>2, <2>3, <2>4, <2>5, WSLTypeParts
<1>11. CASE WSL!Refind
  <2>0. UNCHANGED <<r1, r2, r3, r4, r5, r6, r7, r8, r9, r11, r15, r16, r18>>
    BY <1>11 DEF WSL!Refind, WSL!Goto, WSL!Fault, WSL!Refuse, WSL!Unavailable, WSL!host, WSL!local, WSL!counts
  <2>1. WSLDisks'
    BY <1>d, <2>0 DEF WSLDisks
  <2>2. WSLNames'
    BY <1>n, <1>g, <1>s, <1>11, <2>0 DEF WSLNames, WSL!Refind, WSL!Goto, WSL!Fault, WSL!Refuse, WSL!Unavailable, WSL!host, WSL!local, WSL!counts, WSL!Units, WSL!StepsSound, WSL!UnitSteps
  <2>3. WSLFlags'
    BY <1>f, <1>11, <2>0 DEF WSLFlags, WSL!Refind, WSL!Goto, WSL!Fault, WSL!Refuse, WSL!Unavailable, WSL!host, WSL!local, WSL!counts
  <2>4. WSLPlace'
    BY <1>p, <1>z, <1>11, <2>0 DEF WSLPlace, WSL!Refind, WSL!Goto, WSL!Fault, WSL!Refuse, WSL!Unavailable, WSL!host, WSL!local, WSL!counts, WSL!Commands
  <2>5. WSLCounts'
    <3>17. r17' \in 0..MaxFaults
      <4>1. r17 \in 0..MaxFaults
        BY <1>c DEF WSLCounts
      <4>2. r17' = r17 \/ (r17 < MaxFaults /\ r17' = r17 + 1)
        BY <1>11 DEF WSL!Refind, WSL!Goto, WSL!Fault, WSL!Refuse, WSL!Unavailable, WSL!host, WSL!local, WSL!counts
      <4> QED
        BY <1>b, <4>1, <4>2, CountsUp
    <3> QED
      BY <1>c, <2>0, <3>17 DEF WSLCounts
  <2> QED
    BY <2>1, <2>2, <2>3, <2>4, <2>5, WSLTypeParts
<1>12. CASE WSL!EnsureBtrfs
  <2>0. UNCHANGED <<r3, r4, r5, r6, r7, r8, r9, r11, r12, r15, r16, r18>>
    BY <1>12 DEF WSL!EnsureBtrfs, WSL!Goto, WSL!Fault, WSL!Refuse, WSL!Unavailable, WSL!host, WSL!local, WSL!counts
  <2>1. WSLDisks'
    <3>1. r1' \in {r1, WSL!Wiped(r1), WSL!Formatted(r1)} /\ r2' \in {r2, WSL!Wiped(r2), WSL!Formatted(r2)}
      BY <1>12 DEF WSL!EnsureBtrfs, WSL!Goto, WSL!Fault, WSL!Refuse, WSL!Unavailable, WSL!host
    <3>2. r1.there
      BY <1>s, <1>12 DEF WSL!StepsSound, WSL!DiskSteps, WSL!EnsureBtrfs
    <3>3. r2' \in WSL!Disks
      BY <1>d, <3>1, DiskWiped, DiskFormatted DEF WSLDisks
    <3>4. CASE r1' = r1
      BY <1>d, <3>3, <3>4 DEF WSLDisks
    <3>5. CASE r1' = WSL!Wiped(r1)
      BY <1>d, <3>2, <3>3, <3>5, DiskWiped DEF WSLDisks
    <3>6. CASE r1' = WSL!Formatted(r1)
      BY <1>d, <3>2, <3>3, <3>6, DiskFormatted DEF WSLDisks
    <3> QED
      BY <3>1, <3>4, <3>5, <3>6
  <2>2. WSLNames'
    BY <1>n, <2>0 DEF WSLNames
  <2>3. WSLFlags'
    BY <1>f, <1>12, <2>0 DEF WSLFlags, WSL!EnsureBtrfs, WSL!Goto, WSL!Fault, WSL!Refuse, WSL!Unavailable, WSL!host, WSL!local, WSL!counts
  <2>4. WSLPlace'
    BY <1>p, <1>z, <1>12, <2>0 DEF WSLPlace, WSL!EnsureBtrfs, WSL!Goto, WSL!Fault, WSL!Refuse, WSL!Unavailable, WSL!host, WSL!local, WSL!counts, WSL!Commands
  <2>5. WSLCounts'
    <3>17. r17' \in 0..MaxFaults
      <4>1. r17 \in 0..MaxFaults
        BY <1>c DEF WSLCounts
      <4>2. r17' = r17 \/ (r17 < MaxFaults /\ r17' = r17 + 1)
        BY <1>12 DEF WSL!EnsureBtrfs, WSL!Goto, WSL!Fault, WSL!Refuse, WSL!Unavailable, WSL!host, WSL!local, WSL!counts
      <4> QED
        BY <1>b, <4>1, <4>2, CountsUp
    <3> QED
      BY <1>c, <2>0, <3>17 DEF WSLCounts
  <2> QED
    BY <2>1, <2>2, <2>3, <2>4, <2>5, WSLTypeParts
<1>13. CASE WSL!InstallUnit
  <2>0. UNCHANGED <<r1, r2, r3, r4, r7, r8, r9, r11, r12, r15, r16, r18>>
    BY <1>13 DEF WSL!InstallUnit, WSL!Goto, WSL!Fault, WSL!Unavailable, WSL!host, WSL!local, WSL!counts
  <2>1. WSLDisks'
    BY <1>d, <2>0 DEF WSLDisks
  <2>2. WSLNames'
    BY <1>n, <1>g, <1>s, <1>13, <2>0 DEF WSLNames, WSL!InstallUnit, WSL!Goto, WSL!Fault, WSL!Unavailable, WSL!host, WSL!local, WSL!counts, WSL!Units, WSL!StepsSound, WSL!UnitSteps
  <2>3. WSLFlags'
    BY <1>f, <1>13, <2>0 DEF WSLFlags, WSL!InstallUnit, WSL!Goto, WSL!Fault, WSL!Unavailable, WSL!host, WSL!local, WSL!counts
  <2>4. WSLPlace'
    BY <1>p, <1>z, <1>13, <2>0 DEF WSLPlace, WSL!InstallUnit, WSL!Goto, WSL!Fault, WSL!Unavailable, WSL!host, WSL!local, WSL!counts, WSL!Commands
  <2>5. WSLCounts'
    <3>17. r17' \in 0..MaxFaults
      <4>1. r17 \in 0..MaxFaults
        BY <1>c DEF WSLCounts
      <4>2. r17' = r17 \/ (r17 < MaxFaults /\ r17' = r17 + 1)
        BY <1>13 DEF WSL!InstallUnit, WSL!Goto, WSL!Fault, WSL!Unavailable, WSL!host, WSL!local, WSL!counts
      <4> QED
        BY <1>b, <4>1, <4>2, CountsUp
    <3> QED
      BY <1>c, <2>0, <3>17 DEF WSLCounts
  <2> QED
    BY <2>1, <2>2, <2>3, <2>4, <2>5, WSLTypeParts
<1>14. CASE WSL!MountState
  <2>0. UNCHANGED <<r1, r2, r3, r5, r6, r7, r8, r9, r11, r12, r15, r16, r18>>
    BY <1>14 DEF WSL!MountState, WSL!Goto, WSL!Fault, WSL!Unavailable, WSL!host, WSL!local, WSL!counts
  <2>1. WSLDisks'
    BY <1>d, <2>0 DEF WSLDisks
  <2>2. WSLNames'
    BY <1>n, <1>g, <1>s, <1>14, <2>0 DEF WSLNames, WSL!MountState, WSL!Goto, WSL!Fault, WSL!Unavailable, WSL!host, WSL!local, WSL!counts, WSL!Units, WSL!StepsSound, WSL!UnitSteps
  <2>3. WSLFlags'
    BY <1>f, <1>14, <2>0 DEF WSLFlags, WSL!MountState, WSL!Goto, WSL!Fault, WSL!Unavailable, WSL!host, WSL!local, WSL!counts
  <2>4. WSLPlace'
    BY <1>p, <1>z, <1>14, <2>0 DEF WSLPlace, WSL!MountState, WSL!Goto, WSL!Fault, WSL!Unavailable, WSL!host, WSL!local, WSL!counts, WSL!Commands
  <2>5. WSLCounts'
    <3>17. r17' \in 0..MaxFaults
      <4>1. r17 \in 0..MaxFaults
        BY <1>c DEF WSLCounts
      <4>2. r17' = r17 \/ (r17 < MaxFaults /\ r17' = r17 + 1)
        BY <1>14 DEF WSL!MountState, WSL!Goto, WSL!Fault, WSL!Unavailable, WSL!host, WSL!local, WSL!counts
      <4> QED
        BY <1>b, <4>1, <4>2, CountsUp
    <3> QED
      BY <1>c, <2>0, <3>17 DEF WSLCounts
  <2> QED
    BY <2>1, <2>2, <2>3, <2>4, <2>5, WSLTypeParts
<1>15. CASE WSL!Subvolumes
  <2>0. UNCHANGED <<r3, r4, r5, r6, r8, r9, r11, r12, r15, r16, r18>>
    BY <1>15 DEF WSL!Subvolumes, WSL!Fault, WSL!Unavailable, WSL!host, WSL!local, WSL!counts
  <2>1. WSLDisks'
    <3>1. /\ r1' = r1 \/ (r1' = [r1 EXCEPT !.sub = TRUE])
          /\ r2' = r2 \/ r2' = [r2 EXCEPT !.sub = TRUE]
      BY <1>15 DEF WSL!Subvolumes, WSL!Fault, WSL!Unavailable, WSL!host
    <3>3. r2' \in WSL!Disks
      BY <1>d, <3>1, DiskDivided DEF WSLDisks
    <3>4. CASE r1' = r1
      BY <1>d, <3>3, <3>4 DEF WSLDisks
    <3>5. CASE r1' # r1
      BY <1>d, <3>1, <3>3, <3>5, DiskDivided DEF WSLDisks
    <3> QED
      BY <3>4, <3>5
  <2>2. WSLNames'
    BY <1>n, <1>g, <1>s, <1>15, <2>0 DEF WSLNames, WSL!Subvolumes, WSL!Fault, WSL!Unavailable, WSL!host, WSL!local, WSL!counts, WSL!Units, WSL!StepsSound, WSL!UnitSteps
  <2>3. WSLFlags'
    BY <1>f, <1>15, <2>0 DEF WSLFlags, WSL!Subvolumes, WSL!Fault, WSL!Unavailable, WSL!host, WSL!local, WSL!counts
  <2>4. WSLPlace'
    BY <1>p, <1>z, <1>15, <2>0 DEF WSLPlace, WSL!Subvolumes, WSL!Fault, WSL!Unavailable, WSL!host, WSL!local, WSL!counts, WSL!Commands
  <2>5. WSLCounts'
    <3>17. r17' \in 0..MaxFaults
      <4>1. r17 \in 0..MaxFaults
        BY <1>c DEF WSLCounts
      <4>2. r17' = r17 \/ (r17 < MaxFaults /\ r17' = r17 + 1)
        BY <1>15 DEF WSL!Subvolumes, WSL!Fault, WSL!Unavailable, WSL!host, WSL!local, WSL!counts
      <4> QED
        BY <1>b, <4>1, <4>2, CountsUp
    <3> QED
      BY <1>c, <2>0, <3>17 DEF WSLCounts
  <2> QED
    BY <2>1, <2>2, <2>3, <2>4, <2>5, WSLTypeParts
<1>16. CASE WSL!Finish
  <2>0. UNCHANGED <<r1, r2, r3, r4, r5, r6, r7, r8, r15, r16, r17, r18>>
    BY <1>16 DEF WSL!Finish, WSL!NoCmd, WSL!host, WSL!counts
  <2>1. WSLDisks'
    BY <1>d, <2>0 DEF WSLDisks
  <2>2. WSLNames'
    BY <1>n, <1>g, <1>s, <1>16, <2>0 DEF WSLNames, WSL!Finish, WSL!NoCmd, WSL!host, WSL!counts, WSL!Units, WSL!StepsSound, WSL!UnitSteps
  <2>3. WSLFlags'
    BY <1>f, <1>16, <2>0 DEF WSLFlags, WSL!Finish, WSL!NoCmd, WSL!host, WSL!counts
  <2>4. WSLPlace'
    <3>1. WSL!NoCmd \in WSL!Commands
      BY DEF WSL!NoCmd, WSL!Commands, WSL!Sizes
    <3> QED
      BY <1>z, <1>16, <3>1 DEF WSLPlace, WSL!Finish
  <2>5. WSLCounts'
    BY <1>c, <2>0 DEF WSLCounts
  <2> QED
    BY <2>1, <2>2, <2>3, <2>4, <2>5, WSLTypeParts
<1>17. CASE WSL!Restart
  <2>0. UNCHANGED <<r1, r2, r5, r6, r7, r8, r9, r10, r11, r12, r13, r14, r15, r16, r17>>
    BY <1>17 DEF WSL!Restart, WSL!local
  <2>1. WSLDisks'
    BY <1>d, <2>0 DEF WSLDisks
  <2>2. WSLNames'
    BY <1>n, <1>g, <1>s, <1>17, <2>0 DEF WSLNames, WSL!Restart, WSL!local, WSL!Units, WSL!StepsSound, WSL!UnitSteps
  <2>3. WSLFlags'
    BY <1>f, <1>17, <2>0 DEF WSLFlags, WSL!Restart, WSL!local
  <2>4. WSLPlace'
    BY <1>p, <2>0 DEF WSLPlace
  <2>5. WSLCounts'
    <3>18. r18' \in 0..MaxRestarts
      <4>1. r18 \in 0..MaxRestarts
        BY <1>c DEF WSLCounts
      <4>2. r18' = r18 \/ (r18 < MaxRestarts /\ r18' = r18 + 1)
        BY <1>17 DEF WSL!Restart, WSL!local
      <4> QED
        BY <1>b, <4>1, <4>2, CountsUp
    <3> QED
      BY <1>c, <2>0, <3>18 DEF WSLCounts
  <2> QED
    BY <2>1, <2>2, <2>3, <2>4, <2>5, WSLTypeParts
<1>18. CASE WSL!StartEngine
  <2>0. UNCHANGED <<r5, r6, r7, r8, r9, r10, r11, r12, r13, r14, r16, r17, r18>>
    BY <1>18 DEF WSL!StartEngine, WSL!local, WSL!counts
  <2>1. WSLDisks'
    <3>1. /\ r1' = r1 \/ (r1' = [r1 EXCEPT !.data = TRUE] /\ r1.fs = "btrfs")
          /\ r2' = r2 \/ r2' = [r2 EXCEPT !.data = TRUE]
      <4>1. CASE WSL!VerifyMount(r4')
        BY <1>18, <4>1 DEF WSL!StartEngine, WSL!VerifyMount, WSL!Disk
      <4>2. CASE ~WSL!VerifyMount(r4')
        BY <1>18, <4>2 DEF WSL!StartEngine
      <4> QED
        BY <4>1, <4>2
    <3>3. r2' \in WSL!Disks
      BY <1>d, <3>1, DiskUsed DEF WSLDisks
    <3>4. CASE r1' = r1
      BY <1>d, <3>3, <3>4 DEF WSLDisks
    <3>5. CASE r1' # r1
      BY <1>d, <3>1, <3>3, <3>5, DiskUsed DEF WSLDisks
    <3> QED
      BY <3>4, <3>5
  <2>2. WSLNames'
    <3>1. StoreMounted
      BY <1>18, StoreMountEnsured DEF WSL!StartEngine
    <3> QED
      BY <1>n, <2>0, <3>1 DEF WSLNames, StoreMounted, WSL!Units
  <2>3. WSLFlags'
    <3>1. r3' \in BOOLEAN
      BY <1>18, <1>f DEF WSL!StartEngine, WSL!EnsureStoreMount, WSLFlags
    <3> QED
      BY <1>f, <2>0, <3>1 DEF WSLFlags
  <2>4. WSLPlace'
    BY <1>p, <2>0 DEF WSLPlace
  <2>5. WSLCounts'
    BY <1>c, <2>0 DEF WSLCounts
  <2> QED
    BY <2>1, <2>2, <2>3, <2>4, <2>5, WSLTypeParts
<1>19. CASE UNCHANGED WSL!vars
  <2>1. UNCHANGED <<r1, r2, r3, r4, r5, r6, r7, r8, r9, r10, r11, r12, r13, r14, r15, r16, r17, r18>>
    BY <1>19 DEF WSL!vars, WSL!host, WSL!local, WSL!counts
  <2>2. WSLDisks'
    BY <1>d, <2>1 DEF WSLDisks
  <2>3. WSLNames'
    BY <1>n, <2>1 DEF WSLNames
  <2>4. WSLFlags'
    BY <1>f, <2>1 DEF WSLFlags
  <2>5. WSLPlace'
    BY <1>p, <2>1 DEF WSLPlace
  <2>6. WSLCounts'
    BY <1>c, <2>1 DEF WSLCounts
  <2> QED
    BY <2>2, <2>3, <2>4, <2>5, <2>6, WSLTypeParts
<1> QED
  BY <1>1, <1>2, <1>3, <1>4, <1>5, <1>6, <1>7, <1>8, <1>9, <1>10, <1>11, <1>12, <1>13, <1>14, <1>15, <1>16, <1>17, <1>18, <1>19 DEF WSL!Next

\* A host without a store of sqlrs satisfies the invariant.
LEMMA WSLInitially == WSL!Init => WSL!IInv
<1> SUFFICES ASSUME WSL!Init
             PROVE  WSL!IInv
  OBVIOUS
<1>1. r1 = WSL!NoDisk /\ r1.there = FALSE /\ r1.fs = "" /\ r1.data = FALSE
  BY NoDiskTyped DEF WSL!Init
<1>2. r2 \in WSL!Disks
  <2>1. CASE r2 = WSL!NoDisk
    BY <2>1, NoDiskTyped
  <2>2. CASE r2 # WSL!NoDisk
    <3>1. r2 \in [there : {TRUE}, size : {1}, part : {TRUE}, fs : {"", "ext4", "btrfs"},
                  data : BOOLEAN, sub : {FALSE}, gen : {5}]
      BY <2>2 DEF WSL!Init
    <3>2. 1 \in WSL!Sizes
      BY DEF WSL!Sizes
    <3>3. {1} \subseteq WSL!Sizes /\ {5} \subseteq Nat
      BY <3>2
    <3> QED
      BY <3>1, <3>3 DEF WSL!Disks
  <2> QED
    BY <2>1, <2>2
<1>3. WSLDisks
  BY <1>1, <1>2, NoDiskTyped DEF WSLDisks
<1>4. r5 = WSL!NoUnit /\ r7 = WSL!NoUnit /\ r5.disk = "none" /\ WSL!NoUnit \in WSL!Units
  BY DEF WSL!Init, WSL!NoUnit, WSL!Units
<1>5. WSLNames
  BY <1>4 DEF WSL!Init, WSLNames
<1>6. WSLFlags
  BY DEF WSL!Init, WSLFlags
<1>7. WSLPlace
  <2>1. WSL!NoCmd \in WSL!Commands
    BY DEF WSL!NoCmd, WSL!Commands, WSL!Sizes
  <2> QED
    BY <2>1 DEF WSL!Init, WSLPlace, WSL!Steps
<1>8. WSLCounts
  <2>1. InitCmds \in Nat /\ MaxFaults \in Nat /\ MaxRestarts \in Nat
    BY BoundsAssumption, ProcessAssumption
  <2>2. r16 = 0 /\ r17 = 0 /\ r18 = 0
    BY DEF WSL!Init
  <2> QED
    BY <2>1, <2>2 DEF WSLCounts
<1>9. WSL!MountsSound
  BY <1>1, <1>4 DEF WSL!Init, WSL!MountsSound
<1>10. WSL!UnitsSound
  BY DEF WSL!Init, WSL!UnitsSound, WSL!StartsAtBoot, WSL!ReinitSteps, WSL!DiskSteps
<1>11. WSL!StepsSound
  BY DEF WSL!Init, WSL!StepsSound, WSL!NoCmd, WSL!ReinitSteps, WSL!DiskSteps, WSL!UnitSteps
<1>12. WSL!InitReady /\ WSL!EngineOnStore
  BY DEF WSL!Init, WSL!InitReady, WSL!EngineOnStore
<1> QED
  BY <1>3, <1>5, <1>6, <1>7, <1>8, <1>9, <1>10, <1>11, <1>12, WSLTypeParts DEF WSL!IInv

\* A step that gives up data on the VHDX belongs to an init with --reinit.
LEMMA VhdxKeptStep == WSL!IInv /\ [WSL!Next]_(WSL!vars) => WSL!VhdxKept
<1> SUFFICES ASSUME WSL!IInv, [WSL!Next]_(WSL!vars), r1.data, ~r1'.data
             PROVE  r9.reinit
  BY DEF WSL!VhdxKept
<1>1. WSLDisks /\ WSL!StepsSound /\ r1.fs = "btrfs" /\ r1.there
  BY WSLTypeParts DEF WSL!IInv, WSLDisks
<1>2. r1' # r1
  OBVIOUS
<1>3. ~(WSL!Fault \/ WSL!Refuse)
  BY <1>2 DEF WSL!Fault, WSL!Refuse, WSL!host
<1>4. CASE WSL!RemoveVHDX
  BY <1>1, <1>4 DEF WSL!RemoveVHDX, WSL!StepsSound, WSL!ReinitSteps
<1>5. CASE WSL!EnsureHostVHDX
  BY <1>1, <1>2, <1>3, <1>5 DEF WSL!EnsureHostVHDX, WSL!host
<1>6. CASE WSL!Partition
  BY <1>1, <1>2, <1>3, <1>6, DiskPartitioned DEF WSL!Partition, WSLDisks
<1>7. CASE WSL!EnsureBtrfs
  <2>1. r12 = "ours" /\ (r11 \/ r9.reinit \/ WSL!Detected = "")
    BY <1>2, <1>3, <1>7 DEF WSL!EnsureBtrfs, WSL!AllowFormat, WSL!host
  <2>2. ~r11 /\ WSL!Detected # ""
    BY <1>1, <2>1 DEF WSL!StepsSound, WSL!Detected, WSL!Disk
  <2> QED
    BY <2>1, <2>2
<1>8. CASE WSL!Subvolumes
  BY <1>1, <1>2, <1>3, <1>8, DiskDivided DEF WSL!Subvolumes, WSLDisks
<1>9. CASE WSL!StartEngine
  <2>1. r1' = r1 \/ r1' = [r1 EXCEPT !.data = TRUE]
    <3>1. CASE WSL!VerifyMount(r4')
      BY <1>9, <3>1 DEF WSL!StartEngine
    <3>2. CASE ~WSL!VerifyMount(r4')
      BY <1>9, <3>2 DEF WSL!StartEngine
    <3> QED
      BY <3>1, <3>2
  <2> QED
    BY <1>1, <1>2, <2>1, DiskUsed DEF WSLDisks
<1>10. CASE \/ WSL!Start \/ WSL!Bootstrap \/ WSL!RemoveUnit \/ WSL!UnmountState \/ WSL!Detach
            \/ WSL!Find \/ WSL!Attach \/ WSL!Refind \/ WSL!InstallUnit \/ WSL!MountState
            \/ WSL!Finish \/ WSL!Restart \/ UNCHANGED WSL!vars
  BY <1>2, <1>3, <1>10
  DEF WSL!Start, WSL!Bootstrap, WSL!RemoveUnit, WSL!UnmountState, WSL!Detach, WSL!Find, WSL!Attach,
      WSL!Refind, WSL!InstallUnit, WSL!MountState, WSL!Finish, WSL!Restart, WSL!host, WSL!vars
<1> QED
  BY <1>4, <1>5, <1>6, <1>7, <1>8, <1>9, <1>10 DEF WSL!Next

\* Through restarts, failures and killed inits, the invariant holds.
LEMMA WSLInductive == WSL!Spec => []WSL!IInv
<1>1. WSL!IInv /\ [WSL!Next]_(WSL!vars) => WSL!IInv'
  BY WSLTypeStep, WSLSoundStep DEF WSLSound, WSL!IInv
<1> QED
  BY <1>1, WSLInitially, PTL DEF WSL!Spec

\* EngineOnStore on Windows: init reports success only over a mounted btrfs store with
\* its subvolumes, and unless another disk of that size is attached the engine only ever
\* runs on a file system that an init made on the VHDX.
THEOREM EngineRunsOnStore == WSL!Spec => []EngineOnStore
<1>1. WSL!IInv => EngineOnStore
  BY DEF WSL!IInv, EngineOnStore
<1> QED
  BY <1>1, WSLInductive, PTL

-----------------------------------------------------------------------------
(* InitLocal.                                                              *)

\* What the invariant says of a mount point, without the file systems: S is on btrfs
\* where the host is, or where something of sqlrs is mounted; T where the host or the
\* device is.
Bare == r5["S"] = <<>>
Covered == r5["S"] = <<"foreign">>
OnS == IF Bare THEN r3 = "btrfs" ELSE ~Covered
OnT == IF r5["T"] = <<>> THEN r3 = "btrfs" ELSE r4["dev"].fs = "btrfs"

\* The stacks a mount point may have.
LEMMA StackShapes ==
  ASSUME NEW s \in Local!Stacks
  PROVE  \/ s = <<>> \/ s = <<"foreign">>
         \/ \E b \in Local!Blocks : (s = <<b>> \/ s = <<b, "foreign">>) /\ s # <<>> /\ Head(s) = b
  BY DEF Local!Stacks

\* They are told apart.
LEMMA StacksDiffer ==
  /\ <<"foreign">> # <<>> /\ "foreign" \notin Local!Blocks
  /\ \A b \in Local!Blocks : <<b>> \notin {<<>>, <<"foreign">>} /\ <<b, "foreign">> \notin {<<>>, <<"foreign">>}
  /\ \A b, c \in Local!Blocks : <<b>> # <<c, "foreign">> /\ (<<b>> = <<c>> => b = c)
                                /\ (<<b, "foreign">> = <<c, "foreign">> => b = c)
  BY DEF Local!Blocks, Local!Images

\* OnBtrfs, read off the stacks.
LEMMA OnBtrfsMeans ==
  /\ Local!TypeOK /\ Local!MountsSound => (Local!OnBtrfs("S") <=> OnS) /\ (Local!OnBtrfs("T") <=> OnT)
  /\ Local!TypeOK' /\ Local!MountsSound' => (Local!OnBtrfs("S")' <=> OnS') /\ (Local!OnBtrfs("T")' <=> OnT')
<1>1. ASSUME Local!TypeOK, Local!MountsSound
      PROVE  Local!OnBtrfs("S") <=> OnS
  <2>1. r5["S"] \in Local!Stacks
    BY <1>1 DEF Local!TypeOK
  <2>2. CASE r5["S"] = <<>>
    BY <2>2 DEF Local!OnBtrfs, Local!FsAt, OnS, Bare
  <2>3. CASE r5["S"] = <<"foreign">>
    BY <2>3 DEF Local!OnBtrfs, Local!FsAt, OnS, Bare, Covered
  <2>4. CASE \E b \in Local!Blocks : (r5["S"] = <<b>> \/ r5["S"] = <<b, "foreign">>) /\ r5["S"] # <<>> /\ Head(r5["S"]) = b
    <3>1. PICK b \in Local!Blocks : (r5["S"] = <<b>> \/ r5["S"] = <<b, "foreign">>) /\ r5["S"] # <<>> /\ Head(r5["S"]) = b
      BY <2>4
    <3>2. r4[b].fs = "btrfs"
      BY <1>1, <3>1 DEF Local!MountsSound
    <3>3. OnS
      BY <3>1, StacksDiffer DEF OnS, Bare, Covered
    <3>4. Local!OnBtrfs("S")
      BY <3>1, <3>2, StacksDiffer DEF Local!OnBtrfs, Local!FsAt
    <3> QED
      BY <3>3, <3>4
  <2> QED
    BY <2>1, <2>2, <2>3, <2>4, StackShapes
<1>2. ASSUME Local!TypeOK
      PROVE  Local!OnBtrfs("T") <=> OnT
  <2>1. r5["T"] = <<>> \/ r5["T"] = <<"dev">>
    BY <1>2 DEF Local!TypeOK
  <2>2. CASE r5["T"] = <<>>
    BY <2>2 DEF Local!OnBtrfs, Local!FsAt, OnT
  <2>3. CASE r5["T"] = <<"dev">>
    BY <2>3 DEF Local!OnBtrfs, Local!FsAt, OnT
  <2> QED
    BY <2>1, <2>2, <2>3
<1>3. Local!TypeOK /\ Local!MountsSound => (Local!OnBtrfs("S") <=> OnS) /\ (Local!OnBtrfs("T") <=> OnT)
  BY <1>1, <1>2
<1>4. (Local!TypeOK /\ Local!MountsSound => (Local!OnBtrfs("S") <=> OnS) /\ (Local!OnBtrfs("T") <=> OnT))'
  BY <1>3, PTL
<1> QED
  BY <1>3, <1>4

\* The parts of the invariant that speak of OnBtrfs, with its meaning.
LocalSteps ==
  /\ r9.also = "remote" => r9.snapshot = ""
  /\ r10 = "wsl" => r1 # "linux"
  /\ r10 \in {"strict"} \cup Local!LoopSteps \cup Local!DeviceSteps =>
       /\ r12 \in {"S", "image", "dev"}
       /\ (r12 = "dev") <=> (r9.store = "device")
       /\ r10 # "strict" => ((r12 = "dev") <=> (r10 \in Local!DeviceSteps))
  /\ r10 \in Local!LoopSteps \cup Local!DeviceSteps => Bare \/ Covered
  /\ r11 => r10 \notin {"strict", "unmount", "remove", "image"} \cup Local!DeviceSteps
  /\ r10 \in {"unmount", "remove"} => r9.reinit
  /\ r10 \in Local!LoopSteps \ {"unmount"} /\ r9.reinit /\ ~Bare => r13
  /\ r10 = "format" => r4[Local!PlanBlock].fs \in {"", "btrfs"} /\ (r11 => r4[Local!PlanBlock].fs = "")
  /\ r10 = "mount" => r4[Local!PlanBlock].fs = "btrfs"
  /\ r10 = "devformat" /\ r5["T"] # <<>> => r13
  /\ r10 = "devmount" => r4["dev"].fs = "btrfs"
  /\ r10 = "own" => OnS
  /\ r10 \in {"marker", "write"} /\ r1 = "linux" /\ r9.snapshot = "btrfs" =>
       (r12 = "S" /\ OnS) \/ (r12 = "T" /\ OnT)

LocalStrict ==
  r10 = "done" /\ r14 = "ok" /\ r1 = "linux" /\ r9.snapshot = "btrfs" =>
    (r8.path = "S" /\ OnS) \/ (r8.path = "T" /\ OnT)

\* They say the same.
LEMMA LocalMeans ==
  /\ Local!TypeOK /\ Local!MountsSound =>
       (Local!StepsSound <=> LocalSteps) /\ (Local!StrictStore <=> LocalStrict)
  /\ Local!TypeOK' /\ Local!MountsSound' =>
       (Local!StepsSound' <=> LocalSteps') /\ (Local!StrictStore' <=> LocalStrict')
<1>1. ASSUME Local!TypeOK, Local!MountsSound
      PROVE  (Local!StepsSound <=> LocalSteps) /\ (Local!StrictStore <=> LocalStrict)
  <2>1. (Local!OnBtrfs("S") <=> OnS) /\ (Local!OnBtrfs("T") <=> OnT)
    BY <1>1, OnBtrfsMeans
  <2>2. ASSUME NEW p
        PROVE  (p \in Local!Points /\ Local!OnBtrfs(p)) <=> ((p = "S" /\ OnS) \/ (p = "T" /\ OnT))
    BY <2>1 DEF Local!Points
  <2>3. (r12 \in Local!Points /\ Local!OnBtrfs(r12)) <=> ((r12 = "S" /\ OnS) \/ (r12 = "T" /\ OnT))
    BY <2>2
  <2>4. (r8.path \in {"S", "T"} /\ Local!OnBtrfs(r8.path)) <=> ((r8.path = "S" /\ OnS) \/ (r8.path = "T" /\ OnT))
    BY <2>2 DEF Local!Points
  <2>5. Local!StrictStore <=> LocalStrict
    BY <2>4 DEF Local!StrictStore, LocalStrict
  <2>6. r4[Local!PlanBlock].fs \in (IF r11 THEN {""} ELSE {"", "btrfs"})
         <=> r4[Local!PlanBlock].fs \in {"", "btrfs"} /\ (r11 => r4[Local!PlanBlock].fs = "")
    OBVIOUS
  <2>7. r5["S"] \in {<<>>, <<"foreign">>} <=> Bare \/ Covered
    BY DEF Bare, Covered
  <2>8. Local!StepsSound <=> LocalSteps
    BY <2>1, <2>3, <2>6, <2>7 DEF Local!StepsSound, LocalSteps, Bare
  <2> QED
    BY <2>5, <2>8
<1>2. Local!TypeOK /\ Local!MountsSound =>
       (Local!StepsSound <=> LocalSteps) /\ (Local!StrictStore <=> LocalStrict)
  BY <1>1
<1>3. (Local!TypeOK /\ Local!MountsSound =>
       (Local!StepsSound <=> LocalSteps) /\ (Local!StrictStore <=> LocalStrict))'
  BY <1>2, PTL
<1> QED
  BY <1>2, <1>3

\* One block changes.
LEMMA BlockChanged ==
  ASSUME NEW f \in [Local!Blocks -> Local!Volumes], NEW b \in Local!Blocks, NEW v \in Local!Volumes,
         NEW g, g = [f EXCEPT ![b] = v]
  PROVE  /\ g \in [Local!Blocks -> Local!Volumes] /\ g[b] = v
         /\ \A c \in Local!Blocks : c # b => g[c] = f[c]
  OBVIOUS

\* What a block may become.
LEMMA VolumesMade ==
  /\ Local!NoImage \in Local!Volumes /\ Local!NoImage.fs = "absent" /\ Local!NoImage.data = FALSE
  /\ Local!Blank \in Local!Volumes /\ Local!Blank.fs = "" /\ Local!Blank.data = FALSE
  /\ [fs |-> "btrfs", data |-> FALSE] \in Local!Volumes
  BY DEF Local!NoImage, Local!Blank, Local!Volumes

\* The planned block of a loopback store is an image, and S/btrfs.img is another file
\* while something is mounted on S.
LEMMA PlannedImage ==
  ASSUME r12 # "dev"
  PROVE  /\ Local!PlanBlock \in Local!Images /\ Local!PlanBlock \in Local!Blocks /\ Local!PlanBlock # "dev"
         /\ ~Bare => Local!PlanBlock # "inner"
         /\ r12 = "S" => Local!PlanBlock = "beside"
         /\ r12 # "S" /\ Bare => Local!PlanBlock = "inner"
  BY DEF Local!PlanBlock, Local!Images, Local!Blocks, Bare

\* It changes with the path and with what is mounted on S.
LEMMA PlanKept ==
  ASSUME r12' = r12, r5'["S"] = r5["S"]
  PROVE  Local!PlanBlock' = Local!PlanBlock
  BY DEF Local!PlanBlock

\* Where nothing of sqlrs is mounted on S, the device can only be mounted on T.
LEMMA DeviceOnT ==
  ASSUME Bare \/ Covered, r5["T"] = <<>> \/ r5["T"] = <<"dev">>, NEW p
  PROVE  p \in Local!DeviceMounts <=> p = "T" /\ r5["T"] = <<"dev">>
  BY DEF Local!DeviceMounts, Local!Points, Bare, Covered

\* Unmounting what somebody else mounted on S.
LEMMA PoppedS ==
  ASSUME DOMAIN r5 = Local!Points, Bare \/ Covered
  PROVE  /\ Local!Popped("S")["S"] = <<>> /\ Local!Popped("S")["T"] = r5["T"]
         /\ DOMAIN Local!Popped("S") = Local!Points
<1>1. Tail(<<"foreign">>) = <<>>
  OBVIOUS
<1>2. /\ Local!Popped("S")["S"] = (IF r5["S"] = <<>> THEN r5["S"] ELSE Tail(r5["S"]))
      /\ Local!Popped("S")["T"] = r5["T"] /\ DOMAIN Local!Popped("S") = Local!Points
  BY DEF Local!Popped, Local!Points
<1> QED
  BY <1>1, <1>2 DEF Bare, Covered

\* Unmounting the device from T.
LEMMA PoppedT ==
  ASSUME DOMAIN r5 = Local!Points, r5["T"] = <<"dev">>
  PROVE  /\ Local!Popped("T")["T"] = <<>> /\ Local!Popped("T")["S"] = r5["S"]
         /\ DOMAIN Local!Popped("T") = Local!Points
  BY DEF Local!Popped, Local!Points

\* Mounting b on S.
LEMMA MountedS ==
  ASSUME DOMAIN r5 = Local!Points, NEW b \in Local!Blocks, NEW s, s \in {<<>>, <<"foreign">>},
         r5' = [r5 EXCEPT !["S"] = <<b>> \o s]
  PROVE  /\ r5'["S"] = (IF s = <<>> THEN <<b>> ELSE <<b, "foreign">>) /\ r5'["T"] = r5["T"]
         /\ DOMAIN r5' = Local!Points
<1>1. <<b>> \o <<>> = <<b>>
  OBVIOUS
<1>2. <<b>> \o <<"foreign">> = <<b, "foreign">>
  <2> DEFINE q == <<b>> \o <<"foreign">>
             Names == {b, "foreign"}
  <2>1. /\ <<b>> \in Seq(Names) /\ <<"foreign">> \in Seq(Names)
        /\ Len(<<b>>) = 1 /\ Len(<<"foreign">>) = 1
    OBVIOUS
  <2>2. q \in Seq(Names) /\ Len(q) = 2
    BY <2>1
  <2>3. q[1] = b /\ q[2] = "foreign"
    BY <2>1
  <2>4. \A t \in Seq(Names) : Len(t) = 2 => t = <<t[1], t[2]>>
    OBVIOUS
  <2> HIDE DEF q
  <2>5. q = <<b, "foreign">>
    BY <2>2, <2>3, <2>4
  <2> QED
    BY <2>5 DEF q
<1>3. r5'["S"] = <<b>> \o s /\ r5'["T"] = r5["T"] /\ DOMAIN r5' = Local!Points
  BY DEF Local!Points
<1> QED
  BY <1>1, <1>2, <1>3, StacksDiffer

\* What config.yaml says of the store.
LEMMA WrittenPath ==
  ASSUME r9.also # "remote", r8 \in {Local!NoConfig, Local!Corrupt} \cup Local!Configs
  PROVE  Local!Written.path = r12
  BY DEF Local!Written, Local!Configs, Local!NoConfig, Local!Corrupt

\* A block that is not mounted on S changes, and holds no data afterwards.
LEMMA MountsOverBlock ==
  ASSUME Local!MountsSound, Bare \/ Covered, NEW b \in Local!Blocks,
         \A c \in Local!Blocks : c # b => r4'[c] = r4[c], r5' = r5,
         r4'[b].data = FALSE, Covered => b # "inner",
         b = "dev" => r4'[b].fs # "absent" /\ (r5["T"] = <<>> \/ r4'[b].fs = "btrfs"),
         b \in Local!Images => r4'[b].fs # "ext4"
  PROVE  Local!MountsSound'
<1>1. "dev" \in Local!Blocks /\ "inner" \in Local!Blocks /\ "dev" \notin Local!Images
      /\ Local!Images \subseteq Local!Blocks
  BY DEF Local!Blocks, Local!Images
<1>2. ASSUME NEW c \in Local!Blocks, r5'["S"] \in {<<c>>, <<c, "foreign">>}
      PROVE  r4'[c].fs = "btrfs"
  BY <1>2, StacksDiffer DEF Bare, Covered
<1>3. ASSUME NEW c \in Local!Blocks, r5'["S"] \in {<<"foreign">>, <<c, "foreign">>}
      PROVE  r4'["inner"].fs = "absent"
  <2>1. Covered
    BY <1>3, StacksDiffer DEF Bare, Covered
  <2>2. r4["inner"].fs = "absent"
    BY <2>1, <1>3 DEF Covered, Local!MountsSound
  <2> QED
    BY <1>1, <2>1, <2>2
<1>4. r5'["T"] # <<>> => r4'["dev"].fs \in {"ext4", "btrfs"}
  BY <1>1 DEF Local!MountsSound
<1>5. ASSUME NEW c \in Local!Blocks
      PROVE  r4'[c].fs \in {"absent", ""} => ~r4'[c].data
  BY DEF Local!MountsSound
<1>6. r4'["dev"].fs # "absent"
  BY <1>1 DEF Local!MountsSound
<1>7. ASSUME NEW c \in Local!Images
      PROVE  r4'[c].fs # "ext4"
  BY <1>1 DEF Local!MountsSound
<1> QED
  BY <1>2, <1>3, <1>4, <1>5, <1>6, <1>7 DEF Local!MountsSound

\* A btrfs block is mounted on S.
LEMMA MountsOverStack ==
  ASSUME Local!MountsSound, NEW b \in Local!Blocks, r4[b].fs = "btrfs", r4' = r4, r5'["T"] = r5["T"],
         r5'["S"] = <<b>> \/ (Covered /\ r5'["S"] = <<b, "foreign">>)
  PROVE  Local!MountsSound' /\ OnS'
<1>1. ASSUME NEW c \in Local!Blocks, r5'["S"] \in {<<c>>, <<c, "foreign">>}
      PROVE  r4'[c].fs = "btrfs"
  <2>1. c = b
    BY <1>1, StacksDiffer
  <2> QED
    BY <2>1
<1>2. ASSUME NEW c \in Local!Blocks, r5'["S"] \in {<<"foreign">>, <<c, "foreign">>}
      PROVE  r4'["inner"].fs = "absent"
  <2>1. Covered
    BY <1>2, StacksDiffer
  <2> QED
    BY <2>1 DEF Covered, Local!MountsSound
<1>3. r5'["S"] \notin {<<>>, <<"foreign">>}
  BY StacksDiffer
<1>4. OnS'
  BY <1>3 DEF OnS, Bare, Covered
<1>5. Local!MountsSound'
  BY <1>1, <1>2 DEF Local!MountsSound
<1> QED
  BY <1>4, <1>5

\* What the invariant says besides the types.
LocalSound == Local!MountsSound /\ LocalSteps /\ Local!RerunSucceeds /\ LocalStrict

\* An external command fails or init is killed, with nothing else changed.
LocalFails == /\ r10' = "done" /\ r14' = "fail" /\ r13' = TRUE
              /\ UNCHANGED <<r1, r2, r3, r4, r5, r6, r7, r8, r9, r11, r12>>

\* Every step of an init, a reboot or the engine keeps what InitRepeatable rests on.
LEMMA LocalSoundStep ==
  Local!IInv /\ [Local!Next]_(Local!vars) => LocalSound'
<1> SUFFICES ASSUME Local!IInv, [Local!Next]_(Local!vars)
             PROVE  LocalSound'
  OBVIOUS
<1>m. Local!MountsSound
  BY DEF Local!IInv
<1>s. LocalSteps
  BY LocalMeans DEF Local!IInv
<1>on. (Local!OnBtrfs("S") <=> OnS) /\ (Local!OnBtrfs("T") <=> OnT)
  BY OnBtrfsMeans DEF Local!IInv
<1>b. r4 \in [Local!Blocks -> Local!Volumes] /\ "dev" \in Local!Blocks
  BY DEF Local!IInv, Local!TypeOK, Local!Blocks
<1>p. DOMAIN r5 = Local!Points /\ (r5["T"] = <<>> \/ r5["T"] = <<"dev">>)
  BY DEF Local!IInv, Local!TypeOK
<1>loop. r10 \in Local!LoopSteps => r12 # "dev" /\ (Bare \/ Covered)
  BY <1>s DEF LocalSteps, Local!LoopSteps, Local!DeviceSteps
<1>dev. r10 \in Local!DeviceSteps => r12 = "dev" /\ (Bare \/ Covered)
  BY <1>s DEF LocalSteps, Local!LoopSteps, Local!DeviceSteps
<1>fs. \A b \in Local!Blocks : r4[b].fs \in {"absent", "", "ext4", "btrfs"} /\ r4[b].data \in BOOLEAN
  BY <1>b DEF Local!Volumes
<1>stop. CASE LocalFails
  <2>1. Local!MountsSound'
    BY <1>m, <1>stop DEF Local!MountsSound, LocalFails
  <2>2. LocalSteps'
    BY <1>s, <1>stop DEF LocalSteps, Local!LoopSteps, Local!DeviceSteps, LocalFails
  <2>3. Local!RerunSucceeds' /\ LocalStrict'
    BY <1>stop DEF Local!RerunSucceeds, LocalStrict, LocalFails
  <2> QED
    BY <2>1, <2>2, <2>3 DEF LocalSound
<1>1. CASE Local!RunInit
  <2>0. UNCHANGED <<r1, r2, r3, r4, r5, r6, r7, r8>> /\ r11' = FALSE /\ r13' = FALSE
    BY <1>1 DEF Local!RunInit, Local!platform, Local!disks, Local!work
  <2>a. PICK o \in Local!Flags :
         /\ Local!ParseInitFlags(o)
         /\ r9' = o
         /\ r12' = Local!StorePath(Local!StoreType(o))
         /\ \/ /\ r10' = "done" /\ r14' = "fail"
               /\ \/ r6 /\ ~r7
                  \/ r8.kind = "corrupt" /\ ~o.update
                  \/ Local!UseWSL(o) /\ ~Local!EngineIsLinux(o)
            \/ r10' = "done" /\ r14' \in {"already", "dry"}
            \/ r10' = "wsl" /\ Local!UseWSL(o)
            \/ r10' = "strict"
            \/ r10' = "marker" /\ o.snapshot # "btrfs"
    BY <1>1 DEF Local!RunInit, Local!ShouldRunStrictBtrfsInit
  <2>1. Local!MountsSound'
    BY <1>m, <2>0 DEF Local!MountsSound
  <2>2. LocalSteps'
    <3>1. r9'.also = "remote" => r9'.snapshot = ""
      BY <2>a DEF Local!ParseInitFlags
    <3>2. r10' = "wsl" => r1' # "linux"
      BY <2>0, <2>a DEF Local!UseWSL
    <3>3. r12' \in {"S", "image", "dev"} /\ (r12' = "dev" <=> r9'.store = "device")
      <4>1. o.store \in {"", "dir", "image", "device"}
        BY DEF Local!Flags
      <4>2. CASE o.store # ""
        <5>1. Local!StoreType(o) = o.store
          BY <4>2 DEF Local!StoreType
        <5> QED
          BY <2>a, <4>1, <4>2, <5>1 DEF Local!StorePath
      <4>3. CASE o.store = ""
        <5>1. Local!StoreType(o) \in {"dir", "image"}
          BY <4>3 DEF Local!StoreType
        <5> QED
          BY <2>a, <4>3, <5>1 DEF Local!StorePath
      <4> QED
        BY <4>2, <4>3
    <3> QED
      BY <2>0, <2>a, <3>1, <3>2, <3>3 DEF LocalSteps, Local!LoopSteps, Local!DeviceSteps
  <2>3. Local!RerunSucceeds'
    <3>1. Local!UseWSL(o) /\ ~Local!EngineIsLinux(o) => (Local!UseWSL(r9) /\ ~Local!EngineIsLinux(r9))'
      BY <2>0, <2>a DEF Local!UseWSL, Local!StoreType, Local!OnBtrfs, Local!FsAt, Local!Auto, Local!EngineIsLinux
    <3> QED
      BY <2>0, <2>a, <3>1 DEF Local!RerunSucceeds
  <2>4. LocalStrict'
    BY <2>a DEF LocalStrict
  <2> QED
    BY <2>1, <2>2, <2>3, <2>4 DEF LocalSound
<1>2. CASE Local!InitWSL
  <2>1. CASE r10 = "wsl" /\ (r10' = "marker" \/ (r10' = "done" /\ r14' = "fail" /\ r13' = TRUE))
        /\ UNCHANGED <<r1, r2, r3, r4, r5, r6, r7, r8, r9, r11, r15, r16, r17>>
    <3>1. Local!MountsSound'
      BY <1>m, <2>1 DEF Local!MountsSound
    <3>2. LocalSteps'
      BY <1>s, <2>1 DEF LocalSteps, Local!LoopSteps, Local!DeviceSteps, OnS, OnT, Bare, Covered
    <3>3. Local!RerunSucceeds'
      BY <2>1 DEF Local!RerunSucceeds
    <3>4. LocalStrict'
      BY <2>1 DEF LocalStrict
    <3> QED
      BY <3>1, <3>2, <3>3, <3>4 DEF LocalSound
  <2>9. (r10 = "wsl" /\ (r10' = "marker" \/ (r10' = "done" /\ r14' = "fail" /\ r13' = TRUE))
            /\ UNCHANGED <<r1, r2, r3, r4, r5, r6, r7, r8, r9, r11, r15, r16, r17>>)
    BY <1>2, <1>on, <1>loop, <1>dev DEF Local!InitWSL, LocalFails, Local!Goto, Local!Ended, Local!Fault, Local!Busy, Local!platform, Local!disks, Local!work, Local!counts, Local!run
  <2> QED
    BY <2>9, <2>1
<1>3. CASE Local!StrictBegin
  <2>1. CASE r10 = "strict" /\ r10' = "marker" /\ r12' = "S" /\ OnS
        /\ UNCHANGED <<r1, r2, r3, r4, r5, r6, r7, r8, r9, r11, r13, r14, r15, r16, r17>>
    <3>1. Local!MountsSound'
      BY <1>m, <2>1 DEF Local!MountsSound
    <3>2. LocalSteps'
      BY <1>s, <2>1 DEF LocalSteps, Local!LoopSteps, Local!DeviceSteps, OnS, OnT, Bare, Covered
    <3>3. Local!RerunSucceeds'
      BY <2>1 DEF Local!RerunSucceeds
    <3>4. LocalStrict'
      BY <2>1 DEF LocalStrict
    <3> QED
      BY <3>1, <3>2, <3>3, <3>4 DEF LocalSound
  <2>2. CASE r10 = "strict" /\ r10' = "device" /\ r12 = "dev" /\ (Bare \/ Covered)
        /\ UNCHANGED <<r1, r2, r3, r4, r5, r6, r7, r8, r9, r11, r12, r13, r14, r15, r16, r17>>
    <3>1. Local!MountsSound'
      BY <1>m, <2>2 DEF Local!MountsSound
    <3>2. LocalSteps'
      BY <1>s, <2>2 DEF LocalSteps, Local!LoopSteps, Local!DeviceSteps, OnS, OnT, Bare, Covered
    <3>3. Local!RerunSucceeds'
      BY <2>2 DEF Local!RerunSucceeds
    <3>4. LocalStrict'
      BY <2>2 DEF LocalStrict
    <3> QED
      BY <3>1, <3>2, <3>3, <3>4 DEF LocalSound
  <2>3. CASE r10 = "strict" /\ r10' = (IF r9.reinit THEN "unmount" ELSE "image") /\ r12 # "dev" /\ (Bare \/ Covered)
        /\ UNCHANGED <<r1, r2, r3, r4, r5, r6, r7, r8, r9, r11, r12, r13, r14, r15, r16, r17>>
    <3>1. Local!MountsSound'
      BY <1>m, <2>3 DEF Local!MountsSound
    <3>2. LocalSteps'
      BY <1>s, <2>3 DEF LocalSteps, Local!LoopSteps, Local!DeviceSteps, OnS, OnT, Bare, Covered
    <3>3. Local!RerunSucceeds'
      BY <2>3 DEF Local!RerunSucceeds
    <3>4. LocalStrict'
      BY <2>3 DEF LocalStrict
    <3> QED
      BY <3>1, <3>2, <3>3, <3>4 DEF LocalSound
  <2>9. LocalFails
        \/ (r10 = "strict" /\ r10' = "marker" /\ r12' = "S" /\ OnS
            /\ UNCHANGED <<r1, r2, r3, r4, r5, r6, r7, r8, r9, r11, r13, r14, r15, r16, r17>>)
        \/ (r10 = "strict" /\ r10' = "device" /\ r12 = "dev" /\ (Bare \/ Covered)
            /\ UNCHANGED <<r1, r2, r3, r4, r5, r6, r7, r8, r9, r11, r12, r13, r14, r15, r16, r17>>)
        \/ (r10 = "strict" /\ r10' = (IF r9.reinit THEN "unmount" ELSE "image") /\ r12 # "dev" /\ (Bare \/ Covered)
            /\ UNCHANGED <<r1, r2, r3, r4, r5, r6, r7, r8, r9, r11, r12, r13, r14, r15, r16, r17>>)
    <3>1. ~OnS => Bare \/ Covered
      BY DEF OnS
    <3> QED
      BY <1>3, <1>on, <3>1 DEF Local!StrictBegin, LocalFails, Local!Goto, Local!Ended, Local!Fault, Local!Busy, Local!platform, Local!disks, Local!work, Local!counts
  <2> QED
    BY <2>9, <2>1, <2>2, <2>3, <1>stop
<1>4. CASE Local!Unmount
  <2>1. CASE r10 = "unmount" /\ r10' = "remove" /\ r13' = TRUE
        /\ UNCHANGED <<r1, r2, r3, r4, r5, r6, r7, r8, r9, r11, r12, r14, r15, r17>>
    <3>1. Local!MountsSound'
      BY <1>m, <2>1 DEF Local!MountsSound
    <3>2. LocalSteps'
      BY <1>s, <2>1 DEF LocalSteps, Local!LoopSteps, Local!DeviceSteps, OnS, OnT, Bare, Covered
    <3>3. Local!RerunSucceeds'
      BY <2>1 DEF Local!RerunSucceeds
    <3>4. LocalStrict'
      BY <2>1 DEF LocalStrict
    <3> QED
      BY <3>1, <3>2, <3>3, <3>4 DEF LocalSound
  <2>2. CASE r10 = "unmount" /\ r10' = "remove" /\ r5'["S"] = <<>> /\ r5'["T"] = r5["T"]
        /\ UNCHANGED <<r1, r2, r3, r4, r6, r7, r8, r9, r11, r12, r13, r14, r15, r16, r17>>
    <3>1. Local!MountsSound'
      BY <1>m, <2>2, <1>s, StacksDiffer DEF Local!MountsSound, LocalSteps
    <3>2. LocalSteps'
      BY <1>s, <2>2, StacksDiffer DEF LocalSteps, Local!LoopSteps, Local!DeviceSteps, OnS, OnT, Bare, Covered
    <3>3. Local!RerunSucceeds'
      BY <2>2 DEF Local!RerunSucceeds
    <3>4. LocalStrict'
      BY <2>2 DEF LocalStrict
    <3> QED
      BY <3>1, <3>2, <3>3, <3>4 DEF LocalSound
  <2>9. LocalFails
        \/ (r10 = "unmount" /\ r10' = "remove" /\ r13' = TRUE
            /\ UNCHANGED <<r1, r2, r3, r4, r5, r6, r7, r8, r9, r11, r12, r14, r15, r17>>)
        \/ (r10 = "unmount" /\ r10' = "remove" /\ r5'["S"] = <<>> /\ r5'["T"] = r5["T"]
            /\ UNCHANGED <<r1, r2, r3, r4, r6, r7, r8, r9, r11, r12, r13, r14, r15, r16, r17>>)
    <3>1. Bare \/ Covered
      BY <1>4, <1>loop DEF Local!Unmount, Local!LoopSteps
    <3>2. r5' = Local!Popped("S") => r5'["S"] = <<>> /\ r5'["T"] = r5["T"]
      BY <1>p, <3>1, PoppedS
    <3> QED
      BY <1>4, <3>2 DEF Local!Unmount, LocalFails, Local!Goto, Local!Ended, Local!Fault, Local!Busy, Local!platform, Local!disks, Local!work, Local!counts
  <2> QED
    BY <2>9, <2>1, <2>2, <1>stop
<1>5. CASE Local!RemoveImage
  <2>1. CASE r10 = "remove" /\ r10' = "image" /\ r4' = [r4 EXCEPT ![Local!PlanBlock] = Local!NoImage]
        /\ UNCHANGED <<r1, r2, r3, r5, r6, r7, r8, r9, r11, r12, r13, r14, r15, r16, r17>>
    <3>0. /\ r4'[Local!PlanBlock] = Local!NoImage /\ (\A c \in Local!Blocks : c # Local!PlanBlock => r4'[c] = r4[c])
          /\ Local!PlanBlock' = Local!PlanBlock /\ Local!PlanBlock \in Local!Images /\ Local!PlanBlock \in Local!Blocks /\ Local!PlanBlock # "dev"
          /\ ~Bare => Local!PlanBlock # "inner"
      <4>1. r12 # "dev"
        BY <1>loop, <2>1 DEF Local!LoopSteps
      <4>2. Local!PlanBlock \in Local!Blocks
        BY <4>1, PlannedImage
      <4>3. r4'[Local!PlanBlock] = Local!NoImage /\ (\A c \in Local!Blocks : c # Local!PlanBlock => r4'[c] = r4[c])
        BY <1>b, <2>1, <4>2, VolumesMade, BlockChanged
      <4> QED
        BY <2>1, <4>1, <4>3, PlannedImage, PlanKept
    <3>1. Local!MountsSound'
      <4>1. Bare \/ Covered
        BY <1>loop, <2>1 DEF Local!LoopSteps
      <4>2. r4'[Local!PlanBlock].data = FALSE /\ r4'[Local!PlanBlock].fs # "ext4"
        BY <3>0, VolumesMade
      <4>3. Covered => ~Bare
        BY StacksDiffer DEF Bare, Covered
      <4> QED
        BY <1>m, <2>1, <3>0, <4>1, <4>2, <4>3, MountsOverBlock
    <3>2. LocalSteps'
      BY <1>s, <2>1, <3>0, <1>loop, StacksDiffer, VolumesMade DEF LocalSteps, Local!LoopSteps, Local!DeviceSteps, OnS, OnT, Bare, Covered
    <3>3. Local!RerunSucceeds'
      BY <2>1, <3>0 DEF Local!RerunSucceeds
    <3>4. LocalStrict'
      BY <2>1, <3>0 DEF LocalStrict
    <3> QED
      BY <3>1, <3>2, <3>3, <3>4 DEF LocalSound
  <2>9. LocalFails
        \/ (r10 = "remove" /\ r10' = "image" /\ r4' = [r4 EXCEPT ![Local!PlanBlock] = Local!NoImage]
            /\ UNCHANGED <<r1, r2, r3, r5, r6, r7, r8, r9, r11, r12, r13, r14, r15, r16, r17>>)
    BY <1>5, <1>on, <1>loop, <1>dev DEF Local!RemoveImage, LocalFails, Local!Goto, Local!Ended, Local!Fault, Local!Busy, Local!platform, Local!disks, Local!work, Local!counts, Local!run
  <2> QED
    BY <2>9, <2>1, <1>stop
<1>6. CASE Local!EnsureLoopImage
  <2>1. CASE r10 = "image" /\ r10' = "format" /\ r4[Local!PlanBlock].fs # "absent"
        /\ UNCHANGED <<r1, r2, r3, r4, r5, r6, r7, r8, r9, r11, r12, r13, r14, r15, r16, r17>>
    <3>1. Local!MountsSound'
      BY <1>m, <2>1 DEF Local!MountsSound
    <3>2. LocalSteps'
      BY <1>s, <2>1, <1>m, <1>fs, <1>loop, PlanKept, PlannedImage DEF LocalSteps, Local!LoopSteps, Local!DeviceSteps, OnS, OnT, Bare, Covered, Local!MountsSound
    <3>3. Local!RerunSucceeds'
      BY <2>1 DEF Local!RerunSucceeds
    <3>4. LocalStrict'
      BY <2>1 DEF LocalStrict
    <3> QED
      BY <3>1, <3>2, <3>3, <3>4 DEF LocalSound
  <2>2. CASE r10 = "image" /\ r10' = "format" /\ r11' = TRUE /\ r4' = [r4 EXCEPT ![Local!PlanBlock] = Local!Blank]
        /\ UNCHANGED <<r1, r2, r3, r5, r6, r7, r8, r9, r12, r13, r14, r15, r16, r17>>
    <3>0. /\ r4'[Local!PlanBlock] = Local!Blank /\ (\A c \in Local!Blocks : c # Local!PlanBlock => r4'[c] = r4[c])
          /\ Local!PlanBlock' = Local!PlanBlock /\ Local!PlanBlock \in Local!Images /\ Local!PlanBlock \in Local!Blocks /\ Local!PlanBlock # "dev"
          /\ ~Bare => Local!PlanBlock # "inner"
      <4>1. r12 # "dev"
        BY <1>loop, <2>2 DEF Local!LoopSteps
      <4>2. Local!PlanBlock \in Local!Blocks
        BY <4>1, PlannedImage
      <4>3. r4'[Local!PlanBlock] = Local!Blank /\ (\A c \in Local!Blocks : c # Local!PlanBlock => r4'[c] = r4[c])
        BY <1>b, <2>2, <4>2, VolumesMade, BlockChanged
      <4> QED
        BY <2>2, <4>1, <4>3, PlannedImage, PlanKept
    <3>1. Local!MountsSound'
      <4>1. Bare \/ Covered
        BY <1>loop, <2>2 DEF Local!LoopSteps
      <4>2. r4'[Local!PlanBlock].data = FALSE /\ r4'[Local!PlanBlock].fs # "ext4"
        BY <3>0, VolumesMade
      <4>3. Covered => ~Bare
        BY StacksDiffer DEF Bare, Covered
      <4> QED
        BY <1>m, <2>2, <3>0, <4>1, <4>2, <4>3, MountsOverBlock
    <3>2. LocalSteps'
      BY <1>s, <2>2, <3>0, <1>loop, StacksDiffer, VolumesMade DEF LocalSteps, Local!LoopSteps, Local!DeviceSteps, OnS, OnT, Bare, Covered
    <3>3. Local!RerunSucceeds'
      BY <2>2, <3>0 DEF Local!RerunSucceeds
    <3>4. LocalStrict'
      BY <2>2, <3>0 DEF LocalStrict
    <3> QED
      BY <3>1, <3>2, <3>3, <3>4 DEF LocalSound
  <2>9. LocalFails
        \/ (r10 = "image" /\ r10' = "format" /\ r4[Local!PlanBlock].fs # "absent"
            /\ UNCHANGED <<r1, r2, r3, r4, r5, r6, r7, r8, r9, r11, r12, r13, r14, r15, r16, r17>>)
        \/ (r10 = "image" /\ r10' = "format" /\ r11' = TRUE /\ r4' = [r4 EXCEPT ![Local!PlanBlock] = Local!Blank]
            /\ UNCHANGED <<r1, r2, r3, r5, r6, r7, r8, r9, r12, r13, r14, r15, r16, r17>>)
    BY <1>6, <1>on, <1>loop, <1>dev DEF Local!EnsureLoopImage, LocalFails, Local!Goto, Local!Ended, Local!Fault, Local!Busy, Local!platform, Local!disks, Local!work, Local!counts, Local!run
  <2> QED
    BY <2>9, <2>1, <2>2, <1>stop
<1>7. CASE Local!FormatImage
  <2>1. CASE r10 = "format" /\ r10' = "mount" /\ r4[Local!PlanBlock].fs = "btrfs"
        /\ UNCHANGED <<r1, r2, r3, r4, r5, r6, r7, r8, r9, r11, r12, r13, r14, r15, r16, r17>>
    <3>1. Local!MountsSound'
      BY <1>m, <2>1 DEF Local!MountsSound
    <3>2. LocalSteps'
      BY <1>s, <2>1, PlanKept DEF LocalSteps, Local!LoopSteps, Local!DeviceSteps, OnS, OnT, Bare, Covered
    <3>3. Local!RerunSucceeds'
      BY <2>1 DEF Local!RerunSucceeds
    <3>4. LocalStrict'
      BY <2>1 DEF LocalStrict
    <3> QED
      BY <3>1, <3>2, <3>3, <3>4 DEF LocalSound
  <2>2. CASE r10 = "format" /\ r10' = "mount" /\ r4' = [r4 EXCEPT ![Local!PlanBlock] = [fs |-> "btrfs", data |-> FALSE]]
        /\ UNCHANGED <<r1, r2, r3, r5, r6, r7, r8, r9, r11, r12, r13, r14, r15, r16, r17>>
    <3>0. /\ r4'[Local!PlanBlock] = [fs |-> "btrfs", data |-> FALSE] /\ (\A c \in Local!Blocks : c # Local!PlanBlock => r4'[c] = r4[c])
          /\ Local!PlanBlock' = Local!PlanBlock /\ Local!PlanBlock \in Local!Images /\ Local!PlanBlock \in Local!Blocks /\ Local!PlanBlock # "dev"
          /\ ~Bare => Local!PlanBlock # "inner"
      <4>1. r12 # "dev"
        BY <1>loop, <2>2 DEF Local!LoopSteps
      <4>2. Local!PlanBlock \in Local!Blocks
        BY <4>1, PlannedImage
      <4>3. r4'[Local!PlanBlock] = [fs |-> "btrfs", data |-> FALSE] /\ (\A c \in Local!Blocks : c # Local!PlanBlock => r4'[c] = r4[c])
        BY <1>b, <2>2, <4>2, VolumesMade, BlockChanged
      <4> QED
        BY <2>2, <4>1, <4>3, PlannedImage, PlanKept
    <3>1. Local!MountsSound'
      <4>1. Bare \/ Covered
        BY <1>loop, <2>2 DEF Local!LoopSteps
      <4>2. r4'[Local!PlanBlock].data = FALSE /\ r4'[Local!PlanBlock].fs # "ext4"
        BY <3>0
      <4>3. Covered => ~Bare
        BY StacksDiffer DEF Bare, Covered
      <4> QED
        BY <1>m, <2>2, <3>0, <4>1, <4>2, <4>3, MountsOverBlock
    <3>2. LocalSteps'
      <4>1. r4'[Local!PlanBlock'].fs = "btrfs"
        BY <3>0
      <4>2. Bare' <=> Bare
        BY <2>2 DEF Bare
      <4>3. Covered' <=> Covered
        BY <2>2 DEF Covered
      <4> QED
        BY <1>s, <2>2, <4>1, <4>2, <4>3 DEF LocalSteps, Local!LoopSteps, Local!DeviceSteps
    <3>3. Local!RerunSucceeds'
      BY <2>2, <3>0 DEF Local!RerunSucceeds
    <3>4. LocalStrict'
      BY <2>2, <3>0 DEF LocalStrict
    <3> QED
      BY <3>1, <3>2, <3>3, <3>4 DEF LocalSound
  <2>3. CASE r10 = "format" /\ r10' = "done" /\ r14' = "fail" /\ r13' = TRUE /\ r4' = [r4 EXCEPT ![Local!PlanBlock] = Local!Blank]
        /\ UNCHANGED <<r1, r2, r3, r5, r6, r7, r8, r9, r11, r12, r15, r17>>
    <3>0. /\ r4'[Local!PlanBlock] = Local!Blank /\ (\A c \in Local!Blocks : c # Local!PlanBlock => r4'[c] = r4[c])
          /\ Local!PlanBlock' = Local!PlanBlock /\ Local!PlanBlock \in Local!Images /\ Local!PlanBlock \in Local!Blocks /\ Local!PlanBlock # "dev"
          /\ ~Bare => Local!PlanBlock # "inner"
      <4>1. r12 # "dev"
        BY <1>loop, <2>3 DEF Local!LoopSteps
      <4>2. Local!PlanBlock \in Local!Blocks
        BY <4>1, PlannedImage
      <4>3. r4'[Local!PlanBlock] = Local!Blank /\ (\A c \in Local!Blocks : c # Local!PlanBlock => r4'[c] = r4[c])
        BY <1>b, <2>3, <4>2, VolumesMade, BlockChanged
      <4> QED
        BY <2>3, <4>1, <4>3, PlannedImage, PlanKept
    <3>1. Local!MountsSound'
      <4>1. Bare \/ Covered
        BY <1>loop, <2>3 DEF Local!LoopSteps
      <4>2. r4'[Local!PlanBlock].data = FALSE /\ r4'[Local!PlanBlock].fs # "ext4"
        BY <3>0, VolumesMade
      <4>3. Covered => ~Bare
        BY StacksDiffer DEF Bare, Covered
      <4> QED
        BY <1>m, <2>3, <3>0, <4>1, <4>2, <4>3, MountsOverBlock
    <3>2. LocalSteps'
      BY <1>s, <2>3, <3>0, <1>loop, StacksDiffer, VolumesMade DEF LocalSteps, Local!LoopSteps, Local!DeviceSteps, OnS, OnT, Bare, Covered
    <3>3. Local!RerunSucceeds'
      BY <2>3, <3>0 DEF Local!RerunSucceeds
    <3>4. LocalStrict'
      BY <2>3, <3>0 DEF LocalStrict
    <3> QED
      BY <3>1, <3>2, <3>3, <3>4 DEF LocalSound
  <2>9. LocalFails
        \/ (r10 = "format" /\ r10' = "mount" /\ r4[Local!PlanBlock].fs = "btrfs"
            /\ UNCHANGED <<r1, r2, r3, r4, r5, r6, r7, r8, r9, r11, r12, r13, r14, r15, r16, r17>>)
        \/ (r10 = "format" /\ r10' = "mount" /\ r4' = [r4 EXCEPT ![Local!PlanBlock] = [fs |-> "btrfs", data |-> FALSE]]
            /\ UNCHANGED <<r1, r2, r3, r5, r6, r7, r8, r9, r11, r12, r13, r14, r15, r16, r17>>)
        \/ (r10 = "format" /\ r10' = "done" /\ r14' = "fail" /\ r13' = TRUE /\ r4' = [r4 EXCEPT ![Local!PlanBlock] = Local!Blank]
            /\ UNCHANGED <<r1, r2, r3, r5, r6, r7, r8, r9, r11, r12, r15, r17>>)
    <3>1. r12 # "dev" /\ (Bare \/ Covered) /\ Local!PlanBlock # "dev"
      BY <1>7, <1>loop, PlannedImage DEF Local!FormatImage, Local!LoopSteps
    <3>2. r4[Local!PlanBlock].fs \in {"", "btrfs"}
      BY <1>7, <1>s DEF Local!FormatImage, LocalSteps
    <3>3. (Local!NeedsFormat(Local!PlanBlock) => Local!MayFormat(Local!PlanBlock))
          /\ (~Local!NeedsFormat(Local!PlanBlock) => r4[Local!PlanBlock].fs = "btrfs")
      BY <3>1, <3>2 DEF Local!NeedsFormat, Local!MayFormat, Local!DetectBlockFSType
    <3> QED
      BY <1>7, <3>1, <3>3 DEF Local!FormatImage, Local!FormatBlock, LocalFails, Local!Goto, Local!Ended, Local!Fault, Local!Busy, Local!platform, Local!disks, Local!work, Local!counts
  <2> QED
    BY <2>9, <2>1, <2>2, <2>3, <1>stop
<1>8. CASE Local!MountImage
  <2>1. CASE r10 = "mount" /\ r10' = "done" /\ r14' = "fail" /\ Covered /\ ~r9.reinit
        /\ UNCHANGED <<r1, r2, r3, r4, r5, r6, r7, r8, r9, r11, r12, r13, r15, r16, r17>>
    <3>1. Local!MountsSound'
      BY <1>m, <2>1 DEF Local!MountsSound
    <3>2. LocalSteps'
      BY <1>s, <2>1 DEF LocalSteps, Local!LoopSteps, Local!DeviceSteps, OnS, OnT, Bare, Covered
    <3>3. Local!RerunSucceeds'
      <4>1. "foreign" \in {r5'["S"][k] : k \in 1..Len(r5'["S"])}
        <5>1. r5'["S"] = <<"foreign">>
          BY <2>1 DEF Covered
        <5>2. 1 \in 1..Len(<<"foreign">>) /\ <<"foreign">>[1] = "foreign"
          OBVIOUS
        <5> QED
          BY <5>1, <5>2
      <4> QED
        BY <2>1, <4>1 DEF Local!RerunSucceeds
    <3>4. LocalStrict'
      BY <2>1 DEF LocalStrict
    <3> QED
      BY <3>1, <3>2, <3>3, <3>4 DEF LocalSound
  <2>2. CASE r10 = "mount" /\ r10' = "done" /\ r14' = "fail" /\ r13 /\ r5'["S"] = <<>> /\ r5'["T"] = r5["T"]
        /\ UNCHANGED <<r1, r2, r3, r4, r6, r7, r8, r9, r11, r12, r13, r15, r16, r17>>
    <3>1. Local!MountsSound'
      BY <1>m, <2>2, <1>s, StacksDiffer DEF Local!MountsSound, LocalSteps
    <3>2. LocalSteps'
      BY <1>s, <2>2, StacksDiffer DEF LocalSteps, Local!LoopSteps, Local!DeviceSteps, OnS, OnT, Bare, Covered
    <3>3. Local!RerunSucceeds'
      BY <2>2 DEF Local!RerunSucceeds
    <3>4. LocalStrict'
      BY <2>2 DEF LocalStrict
    <3> QED
      BY <3>1, <3>2, <3>3, <3>4 DEF LocalSound
  <2>3. CASE r10 = "mount" /\ r10' = "own" /\ r5'["T"] = r5["T"]
        /\ (\E b \in Local!Blocks : r4[b].fs = "btrfs" /\ (r5'["S"] = <<b>> \/ (Covered /\ r5'["S"] = <<b, "foreign">>)))
        /\ UNCHANGED <<r1, r2, r3, r4, r6, r7, r8, r9, r11, r12, r14, r15, r17>>
    <3>1. Local!MountsSound'
      BY <1>m, <2>3, MountsOverStack
    <3>2. LocalSteps'
      <4>1. OnS'
        BY <1>m, <2>3, MountsOverStack
      <4> QED
        BY <1>s, <2>3, <4>1 DEF LocalSteps, Local!LoopSteps, Local!DeviceSteps
    <3>3. Local!RerunSucceeds'
      BY <2>3 DEF Local!RerunSucceeds
    <3>4. LocalStrict'
      BY <2>3 DEF LocalStrict
    <3> QED
      BY <3>1, <3>2, <3>3, <3>4 DEF LocalSound
  <2>9. LocalFails
        \/ (r10 = "mount" /\ r10' = "done" /\ r14' = "fail" /\ Covered /\ ~r9.reinit
            /\ UNCHANGED <<r1, r2, r3, r4, r5, r6, r7, r8, r9, r11, r12, r13, r15, r16, r17>>)
        \/ (r10 = "mount" /\ r10' = "done" /\ r14' = "fail" /\ r13 /\ r5'["S"] = <<>> /\ r5'["T"] = r5["T"]
            /\ UNCHANGED <<r1, r2, r3, r4, r6, r7, r8, r9, r11, r12, r13, r15, r16, r17>>)
        \/ (r10 = "mount" /\ r10' = "own" /\ r5'["T"] = r5["T"]
            /\ (\E b \in Local!Blocks : r4[b].fs = "btrfs" /\ (r5'["S"] = <<b>> \/ (Covered /\ r5'["S"] = <<b, "foreign">>)))
            /\ UNCHANGED <<r1, r2, r3, r4, r6, r7, r8, r9, r11, r12, r14, r15, r17>>)
    <3> DEFINE kept == Local!Popped("S")["S"]
                b == IF r12 = "image" /\ kept = <<>> THEN "inner" ELSE Local!PlanBlock
                free == r5["S"] = <<>> \/ (~Local!OnBtrfs("S") /\ r9.reinit)
    <3>1. r12 # "dev" /\ (Bare \/ Covered)
      BY <1>8, <1>loop DEF Local!MountImage, Local!LoopSteps
    <3>2. kept = <<>> /\ Local!Popped("S")["T"] = r5["T"]
      BY <1>p, <3>1, PoppedS
    <3>3. Local!PlanBlock \in Local!Images /\ r4[Local!PlanBlock].fs = "btrfs"
      BY <1>8, <1>s, <3>1, PlannedImage DEF Local!MountImage, LocalSteps
    <3>4. b \in Local!Images /\ b \in Local!Blocks /\ Local!PlanBlock \in Local!Blocks
      BY <3>3 DEF Local!Images, Local!Blocks
    <3>5. r4[b].fs # "ext4" /\ r4[b].fs \in {"absent", "", "ext4", "btrfs"}
      BY <1>m, <1>fs, <3>4 DEF Local!MountsSound
    <3>6. Bare => b = Local!PlanBlock
      BY <3>1, <3>2, PlannedImage DEF Local!PlanBlock, Bare
    <3>7. free /\ r4[b].fs \in {"absent", ""} => r13
      BY <1>8, <1>s, <3>3, <3>6 DEF Local!MountImage, LocalSteps, Local!LoopSteps, Bare
    <3>8. r5' = [r5 EXCEPT !["S"] = <<b>> \o kept] => r5'["S"] = <<b>> /\ r5'["T"] = r5["T"]
      BY <1>p, <3>2, <3>4, MountedS
    <3>9. r5["S"] # <<>> /\ r5' = [r5 EXCEPT !["S"] = <<Local!PlanBlock>> \o r5["S"]] =>
            Covered /\ r5'["S"] = <<Local!PlanBlock, "foreign">> /\ r5'["T"] = r5["T"]
      BY <1>p, <3>1, <3>4, MountedS DEF Bare, Covered
    <3>10. \/ LocalFails
           \/ r10' = "marker" /\ r5["S"] # <<>> /\ Local!OnBtrfs("S")
           \/ r5["S"] # <<>> /\ ~r9.reinit /\ UNCHANGED r5 /\ Local!Ended("fail")
           \/ free /\ r4[b].fs \in {"absent", ""} /\ r5' = Local!Popped("S") /\ Local!Ended("fail")
           \/ free /\ r4[b].fs \notin {"absent", ""} /\ r5' = [r5 EXCEPT !["S"] = <<b>> \o kept] /\ Local!Goto("own")
           \/ r5["S"] # <<>> /\ Local!Busy("own") /\ r5' = [r5 EXCEPT !["S"] = <<Local!PlanBlock>> \o r5["S"]]
      BY <1>8 DEF Local!MountImage, LocalFails, Local!Fault, Local!platform, Local!work
    <3>11. r10 = "mount" /\ UNCHANGED <<r4, r7, r8>>
      BY <1>8 DEF Local!MountImage, Local!work
    <3>12. ~(r5["S"] # <<>> /\ Local!OnBtrfs("S"))
      BY <1>on, <3>1 DEF OnS, Bare, Covered
    <3> HIDE DEF b, free, kept
    <3>13. r4[b].fs \notin {"absent", ""} => r4[b].fs = "btrfs"
      BY <3>5
    <3>14. CASE r5["S"] # <<>> /\ ~r9.reinit /\ UNCHANGED r5 /\ Local!Ended("fail")
      BY <3>1, <3>11, <3>14 DEF Local!Ended, Local!platform, Local!counts, Bare, Covered
    <3>15. CASE free /\ r4[b].fs \in {"absent", ""} /\ r5' = Local!Popped("S") /\ Local!Ended("fail")
      BY <3>2, <3>7, <3>11, <3>15 DEF Local!Ended, Local!platform, Local!counts, kept
    <3>16. CASE free /\ r4[b].fs \notin {"absent", ""} /\ r5' = [r5 EXCEPT !["S"] = <<b>> \o kept] /\ Local!Goto("own")
      BY <3>4, <3>8, <3>11, <3>13, <3>16 DEF Local!Goto, Local!platform, Local!counts
    <3>17. CASE r5["S"] # <<>> /\ Local!Busy("own") /\ r5' = [r5 EXCEPT !["S"] = <<Local!PlanBlock>> \o r5["S"]]
      BY <3>3, <3>4, <3>9, <3>11, <3>17 DEF Local!Busy, Local!platform
    <3> QED
      BY <3>10, <3>12, <3>14, <3>15, <3>16, <3>17
  <2> QED
    BY <2>9, <2>1, <2>2, <2>3, <1>stop
<1>9. CASE Local!SourceMount
  <2>1. CASE r10 = "device" /\ r10' = "devformat" /\ r5["T"] = <<>>
        /\ UNCHANGED <<r1, r2, r3, r4, r5, r6, r7, r8, r9, r11, r12, r13, r14, r15, r16, r17>>
    <3>1. Local!MountsSound'
      BY <1>m, <2>1 DEF Local!MountsSound
    <3>2. LocalSteps'
      BY <1>s, <2>1 DEF LocalSteps, Local!LoopSteps, Local!DeviceSteps, OnS, OnT, Bare, Covered
    <3>3. Local!RerunSucceeds'
      BY <2>1 DEF Local!RerunSucceeds
    <3>4. LocalStrict'
      BY <2>1 DEF LocalStrict
    <3> QED
      BY <3>1, <3>2, <3>3, <3>4 DEF LocalSound
  <2>2. CASE r10 = "device" /\ r10' = "marker" /\ r12' = "T" /\ r5["T"] # <<>> /\ r4["dev"].fs = "btrfs"
        /\ UNCHANGED <<r1, r2, r3, r4, r5, r6, r7, r8, r9, r11, r13, r14, r15, r16, r17>>
    <3>1. Local!MountsSound'
      BY <1>m, <2>2 DEF Local!MountsSound
    <3>2. LocalSteps'
      BY <1>s, <2>2 DEF LocalSteps, Local!LoopSteps, Local!DeviceSteps, OnS, OnT, Bare, Covered
    <3>3. Local!RerunSucceeds'
      BY <2>2 DEF Local!RerunSucceeds
    <3>4. LocalStrict'
      BY <2>2 DEF LocalStrict
    <3> QED
      BY <3>1, <3>2, <3>3, <3>4 DEF LocalSound
  <2>3. CASE r10 = "device" /\ r10' = "done" /\ r14' = "fail" /\ ~r9.reinit /\ r4["dev"].fs = "ext4"
        /\ UNCHANGED <<r1, r2, r3, r4, r5, r6, r7, r8, r9, r11, r12, r13, r15, r16, r17>>
    <3>1. Local!MountsSound'
      BY <1>m, <2>3 DEF Local!MountsSound
    <3>2. LocalSteps'
      BY <1>s, <2>3 DEF LocalSteps, Local!LoopSteps, Local!DeviceSteps, OnS, OnT, Bare, Covered
    <3>3. Local!RerunSucceeds'
      <4>1. r9.store = "device"
        BY <1>s, <2>3 DEF LocalSteps, Local!DeviceSteps, Local!LoopSteps
      <4> QED
        BY <1>s, <2>3, <4>1 DEF Local!RerunSucceeds, LocalSteps
    <3>4. LocalStrict'
      BY <2>3 DEF LocalStrict
    <3> QED
      BY <3>1, <3>2, <3>3, <3>4 DEF LocalSound
  <2>4. CASE r10 = "device" /\ r10' = "devformat" /\ r5'["T"] = <<>> /\ r5'["S"] = r5["S"]
        /\ UNCHANGED <<r1, r2, r3, r4, r6, r7, r8, r9, r11, r12, r13, r14, r15, r16, r17>>
    <3>1. Local!MountsSound'
      BY <1>m, <2>4, <1>s, StacksDiffer DEF Local!MountsSound, LocalSteps
    <3>2. LocalSteps'
      BY <1>s, <2>4, StacksDiffer DEF LocalSteps, Local!LoopSteps, Local!DeviceSteps, OnS, OnT, Bare, Covered
    <3>3. Local!RerunSucceeds'
      BY <2>4 DEF Local!RerunSucceeds
    <3>4. LocalStrict'
      BY <2>4 DEF LocalStrict
    <3> QED
      BY <3>1, <3>2, <3>3, <3>4 DEF LocalSound
  <2>5. CASE r10 = "device" /\ r10' = "devformat" /\ r13' = TRUE
        /\ UNCHANGED <<r1, r2, r3, r4, r5, r6, r7, r8, r9, r11, r12, r14, r15, r17>>
    <3>1. Local!MountsSound'
      BY <1>m, <2>5 DEF Local!MountsSound
    <3>2. LocalSteps'
      BY <1>s, <2>5 DEF LocalSteps, Local!LoopSteps, Local!DeviceSteps, OnS, OnT, Bare, Covered
    <3>3. Local!RerunSucceeds'
      BY <2>5 DEF Local!RerunSucceeds
    <3>4. LocalStrict'
      BY <2>5 DEF LocalStrict
    <3> QED
      BY <3>1, <3>2, <3>3, <3>4 DEF LocalSound
  <2>9. LocalFails
        \/ (r10 = "device" /\ r10' = "devformat" /\ r5["T"] = <<>>
            /\ UNCHANGED <<r1, r2, r3, r4, r5, r6, r7, r8, r9, r11, r12, r13, r14, r15, r16, r17>>)
        \/ (r10 = "device" /\ r10' = "marker" /\ r12' = "T" /\ r5["T"] # <<>> /\ r4["dev"].fs = "btrfs"
            /\ UNCHANGED <<r1, r2, r3, r4, r5, r6, r7, r8, r9, r11, r13, r14, r15, r16, r17>>)
        \/ (r10 = "device" /\ r10' = "done" /\ r14' = "fail" /\ ~r9.reinit /\ r4["dev"].fs = "ext4"
            /\ UNCHANGED <<r1, r2, r3, r4, r5, r6, r7, r8, r9, r11, r12, r13, r15, r16, r17>>)
        \/ (r10 = "device" /\ r10' = "devformat" /\ r5'["T"] = <<>> /\ r5'["S"] = r5["S"]
            /\ UNCHANGED <<r1, r2, r3, r4, r6, r7, r8, r9, r11, r12, r13, r14, r15, r16, r17>>)
        \/ (r10 = "device" /\ r10' = "devformat" /\ r13' = TRUE
            /\ UNCHANGED <<r1, r2, r3, r4, r5, r6, r7, r8, r9, r11, r12, r14, r15, r17>>)
    <3>1. Bare \/ Covered
      BY <1>9, <1>dev DEF Local!SourceMount, Local!DeviceSteps
    <3>2. Local!DeviceMounts = {} => r5["T"] = <<>>
      BY <1>p, <3>1, DeviceOnT
    <3>3. \A p \in Local!DeviceMounts : p = "T" /\ r5["T"] = <<"dev">>
      BY <1>p, <3>1, DeviceOnT
    <3>4. r5["T"] # <<>> => r4["dev"].fs \in {"ext4", "btrfs"}
      BY <1>m DEF Local!MountsSound
    <3>5. r5["T"] = <<"dev">> /\ r5' = Local!Popped("T") => r5'["T"] = <<>> /\ r5'["S"] = r5["S"]
      BY <1>p, PoppedT
    <3>6. <<"dev">> # <<>>
      OBVIOUS
    <3> QED
      BY <1>9, <3>2, <3>3, <3>4, <3>5, <3>6 DEF Local!SourceMount, LocalFails, Local!Goto, Local!Ended, Local!Fault, Local!Busy, Local!platform, Local!disks, Local!work, Local!counts
  <2> QED
    BY <2>9, <2>1, <2>2, <2>3, <2>4, <2>5, <1>stop
<1>10. CASE Local!FormatDevice
  <2>1. CASE r10 = "devformat" /\ r10' = "devmount" /\ r4["dev"].fs = "btrfs"
        /\ UNCHANGED <<r1, r2, r3, r4, r5, r6, r7, r8, r9, r11, r12, r13, r14, r15, r16, r17>>
    <3>1. Local!MountsSound'
      BY <1>m, <2>1 DEF Local!MountsSound
    <3>2. LocalSteps'
      BY <1>s, <2>1 DEF LocalSteps, Local!LoopSteps, Local!DeviceSteps, OnS, OnT, Bare, Covered
    <3>3. Local!RerunSucceeds'
      BY <2>1 DEF Local!RerunSucceeds
    <3>4. LocalStrict'
      BY <2>1 DEF LocalStrict
    <3> QED
      BY <3>1, <3>2, <3>3, <3>4 DEF LocalSound
  <2>2. CASE r10 = "devformat" /\ r10' = "done" /\ r14' = "fail" /\ ((~r9.reinit /\ r4["dev"].fs = "ext4") \/ r5["T"] # <<>>)
        /\ UNCHANGED <<r1, r2, r3, r4, r5, r6, r7, r8, r9, r11, r12, r13, r15, r16, r17>>
    <3>1. Local!MountsSound'
      BY <1>m, <2>2 DEF Local!MountsSound
    <3>2. LocalSteps'
      BY <1>s, <2>2 DEF LocalSteps, Local!LoopSteps, Local!DeviceSteps, OnS, OnT, Bare, Covered
    <3>3. Local!RerunSucceeds'
      <4>1. r9.store = "device"
        BY <1>s, <2>2 DEF LocalSteps, Local!DeviceSteps, Local!LoopSteps
      <4> QED
        BY <1>s, <2>2, <4>1 DEF Local!RerunSucceeds, LocalSteps
    <3>4. LocalStrict'
      BY <2>2 DEF LocalStrict
    <3> QED
      BY <3>1, <3>2, <3>3, <3>4 DEF LocalSound
  <2>3. CASE r10 = "devformat" /\ r10' = "devmount" /\ r4' = [r4 EXCEPT !["dev"] = [fs |-> "btrfs", data |-> FALSE]]
        /\ UNCHANGED <<r1, r2, r3, r5, r6, r7, r8, r9, r11, r12, r13, r14, r15, r16, r17>>
    <3>0. /\ r4'["dev"] = [fs |-> "btrfs", data |-> FALSE] /\ (\A c \in Local!Blocks : c # "dev" => r4'[c] = r4[c])
      BY <1>b, <2>3, VolumesMade, BlockChanged
    <3>1. Local!MountsSound'
      <4>1. Bare \/ Covered
        BY <1>dev, <2>3 DEF Local!DeviceSteps
      <4>2. r4'["dev"].data = FALSE /\ r4'["dev"].fs # "absent" /\ (r5["T"] = <<>> \/ r4'["dev"].fs = "btrfs")
        BY <3>0
      <4>3. "dev" \notin Local!Images /\ "dev" # "inner"
        BY DEF Local!Images
      <4> QED
        BY <1>m, <1>b, <2>3, <3>0, <4>1, <4>2, <4>3, MountsOverBlock
    <3>2. LocalSteps'
      <4>1. r4'["dev"].fs = "btrfs"
        BY <3>0
      <4>2. Bare' <=> Bare
        BY <2>3 DEF Bare
      <4>3. Covered' <=> Covered
        BY <2>3 DEF Covered
      <4> QED
        BY <1>s, <2>3, <4>1, <4>2, <4>3 DEF LocalSteps, Local!LoopSteps, Local!DeviceSteps
    <3>3. Local!RerunSucceeds'
      BY <2>3, <3>0 DEF Local!RerunSucceeds
    <3>4. LocalStrict'
      BY <2>3, <3>0 DEF LocalStrict
    <3> QED
      BY <3>1, <3>2, <3>3, <3>4 DEF LocalSound
  <2>4. CASE r10 = "devformat" /\ r10' = "done" /\ r14' = "fail" /\ r13' = TRUE /\ r5["T"] = <<>> /\ r4' = [r4 EXCEPT !["dev"] = Local!Blank]
        /\ UNCHANGED <<r1, r2, r3, r5, r6, r7, r8, r9, r11, r12, r15, r17>>
    <3>0. /\ r4'["dev"] = Local!Blank /\ (\A c \in Local!Blocks : c # "dev" => r4'[c] = r4[c])
      BY <1>b, <2>4, VolumesMade, BlockChanged
    <3>1. Local!MountsSound'
      <4>1. Bare \/ Covered
        BY <1>dev, <2>4 DEF Local!DeviceSteps
      <4>2. r4'["dev"].data = FALSE /\ r4'["dev"].fs # "absent" /\ (r5["T"] = <<>> \/ r4'["dev"].fs = "btrfs")
        BY <2>4, <3>0, VolumesMade
      <4>3. "dev" \notin Local!Images /\ "dev" # "inner"
        BY DEF Local!Images
      <4> QED
        BY <1>m, <1>b, <2>4, <3>0, <4>1, <4>2, <4>3, MountsOverBlock
    <3>2. LocalSteps'
      BY <1>s, <2>4, <3>0, <1>dev, StacksDiffer, VolumesMade DEF LocalSteps, Local!LoopSteps, Local!DeviceSteps, OnS, OnT, Bare, Covered
    <3>3. Local!RerunSucceeds'
      BY <2>4, <3>0 DEF Local!RerunSucceeds
    <3>4. LocalStrict'
      BY <2>4, <3>0 DEF LocalStrict
    <3> QED
      BY <3>1, <3>2, <3>3, <3>4 DEF LocalSound
  <2>9. LocalFails
        \/ (r10 = "devformat" /\ r10' = "devmount" /\ r4["dev"].fs = "btrfs"
            /\ UNCHANGED <<r1, r2, r3, r4, r5, r6, r7, r8, r9, r11, r12, r13, r14, r15, r16, r17>>)
        \/ (r10 = "devformat" /\ r10' = "done" /\ r14' = "fail" /\ ((~r9.reinit /\ r4["dev"].fs = "ext4") \/ r5["T"] # <<>>)
            /\ UNCHANGED <<r1, r2, r3, r4, r5, r6, r7, r8, r9, r11, r12, r13, r15, r16, r17>>)
        \/ (r10 = "devformat" /\ r10' = "devmount" /\ r4' = [r4 EXCEPT !["dev"] = [fs |-> "btrfs", data |-> FALSE]]
            /\ UNCHANGED <<r1, r2, r3, r5, r6, r7, r8, r9, r11, r12, r13, r14, r15, r16, r17>>)
        \/ (r10 = "devformat" /\ r10' = "done" /\ r14' = "fail" /\ r13' = TRUE /\ r5["T"] = <<>> /\ r4' = [r4 EXCEPT !["dev"] = Local!Blank]
            /\ UNCHANGED <<r1, r2, r3, r5, r6, r7, r8, r9, r11, r12, r15, r17>>)
    <3>1. Bare \/ Covered
      BY <1>10, <1>dev DEF Local!FormatDevice, Local!DeviceSteps
    <3>2. Local!DeviceMounts = {} <=> r5["T"] = <<>>
      <4>1. "T" \in Local!DeviceMounts <=> r5["T"] = <<"dev">>
        BY <1>p, <3>1, DeviceOnT
      <4>2. \A p \in Local!DeviceMounts : p = "T" /\ r5["T"] = <<"dev">>
        BY <1>p, <3>1, DeviceOnT
      <4> QED
        BY <1>p, <4>1, <4>2
    <3>3. (Local!NeedsFormat("dev") /\ ~Local!MayFormat("dev") => r4["dev"].fs = "ext4" /\ ~r9.reinit)
          /\ (~Local!NeedsFormat("dev") => r4["dev"].fs = "btrfs")
      BY <1>m, <1>fs, <1>b DEF Local!NeedsFormat, Local!MayFormat, Local!DetectBlockFSType, Local!MountsSound
    <3> QED
      BY <1>10, <3>2, <3>3 DEF Local!FormatDevice, Local!FormatBlock, LocalFails, Local!Goto, Local!Ended, Local!Fault, Local!Busy, Local!platform, Local!disks, Local!work, Local!counts
  <2> QED
    BY <2>9, <2>1, <2>2, <2>3, <2>4, <1>stop
<1>11. CASE Local!MountDevice
  <2>1. CASE r10 = "devmount" /\ r10' = "own" /\ r5'["T"] = r5["T"]
        /\ (r5'["S"] = <<"dev">> \/ (Covered /\ r5'["S"] = <<"dev", "foreign">>))
        /\ UNCHANGED <<r1, r2, r3, r4, r6, r7, r8, r9, r11, r12, r13, r14, r15, r16, r17>>
    <3>1. Local!MountsSound'
      <4>1. r4["dev"].fs = "btrfs"
        BY <1>s, <2>1 DEF LocalSteps
      <4> QED
        BY <1>m, <1>b, <2>1, <4>1, MountsOverStack
    <3>2. LocalSteps'
      <4>1. r4["dev"].fs = "btrfs"
        BY <1>s, <2>1 DEF LocalSteps
      <4>2. OnS'
        BY <1>m, <1>b, <2>1, <4>1, MountsOverStack
      <4> QED
        BY <1>s, <2>1, <4>2 DEF LocalSteps, Local!LoopSteps, Local!DeviceSteps
    <3>3. Local!RerunSucceeds'
      BY <2>1 DEF Local!RerunSucceeds
    <3>4. LocalStrict'
      BY <2>1 DEF LocalStrict
    <3> QED
      BY <3>1, <3>2, <3>3, <3>4 DEF LocalSound
  <2>9. LocalFails
        \/ (r10 = "devmount" /\ r10' = "own" /\ r5'["T"] = r5["T"]
            /\ (r5'["S"] = <<"dev">> \/ (Covered /\ r5'["S"] = <<"dev", "foreign">>))
            /\ UNCHANGED <<r1, r2, r3, r4, r6, r7, r8, r9, r11, r12, r13, r14, r15, r16, r17>>)
    <3>1. Bare \/ Covered
      BY <1>11, <1>dev DEF Local!MountDevice, Local!DeviceSteps
    <3>2. r5' = [r5 EXCEPT !["S"] = <<"dev">> \o r5["S"]] =>
            r5'["T"] = r5["T"] /\ (r5'["S"] = <<"dev">> \/ (Covered /\ r5'["S"] = <<"dev", "foreign">>))
      BY <1>b, <1>p, <3>1, MountedS, StacksDiffer DEF Bare, Covered
    <3> QED
      BY <1>11, <3>2 DEF Local!MountDevice, LocalFails, Local!Goto, Local!Ended, Local!Fault, Local!Busy, Local!platform, Local!disks, Local!work, Local!counts
  <2> QED
    BY <2>9, <2>1, <1>stop
<1>12. CASE Local!OwnAndVerify
  <2>1. CASE r10 = "own" /\ r10' = "marker" /\ r12' = "S"
        /\ UNCHANGED <<r1, r2, r3, r4, r5, r6, r7, r8, r9, r11, r13, r14, r15, r16, r17>>
    <3>1. Local!MountsSound'
      BY <1>m, <2>1 DEF Local!MountsSound
    <3>2. LocalSteps'
      BY <1>s, <2>1 DEF LocalSteps, Local!LoopSteps, Local!DeviceSteps, OnS, OnT, Bare, Covered
    <3>3. Local!RerunSucceeds'
      BY <2>1 DEF Local!RerunSucceeds
    <3>4. LocalStrict'
      BY <2>1 DEF LocalStrict
    <3> QED
      BY <3>1, <3>2, <3>3, <3>4 DEF LocalSound
  <2>9. LocalFails
        \/ (r10 = "own" /\ r10' = "marker" /\ r12' = "S"
            /\ UNCHANGED <<r1, r2, r3, r4, r5, r6, r7, r8, r9, r11, r13, r14, r15, r16, r17>>)
    <3>1. OnS
      BY <1>12, <1>s DEF Local!OwnAndVerify, LocalSteps
    <3> QED
      BY <1>12, <1>on, <3>1 DEF Local!OwnAndVerify, LocalFails, Local!Goto, Local!Ended, Local!Fault, Local!Busy, Local!platform, Local!disks, Local!work, Local!counts
  <2> QED
    BY <2>9, <2>1, <1>stop
<1>13. CASE Local!MakeMarker
  <2>1. CASE r10 = "marker" /\ r10' = "write" /\ r7' = TRUE
        /\ UNCHANGED <<r1, r2, r3, r4, r5, r6, r8, r9, r11, r12, r13, r14, r15, r16, r17>>
    <3>1. Local!MountsSound'
      BY <1>m, <2>1 DEF Local!MountsSound
    <3>2. LocalSteps'
      BY <1>s, <2>1 DEF LocalSteps, Local!LoopSteps, Local!DeviceSteps, OnS, OnT, Bare, Covered
    <3>3. Local!RerunSucceeds'
      BY <2>1 DEF Local!RerunSucceeds
    <3>4. LocalStrict'
      BY <2>1 DEF LocalStrict
    <3> QED
      BY <3>1, <3>2, <3>3, <3>4 DEF LocalSound
  <2>9. LocalFails
        \/ (r10 = "marker" /\ r10' = "write" /\ r7' = TRUE
            /\ UNCHANGED <<r1, r2, r3, r4, r5, r6, r8, r9, r11, r12, r13, r14, r15, r16, r17>>)
    BY <1>13, <1>on, <1>loop, <1>dev DEF Local!MakeMarker, LocalFails, Local!Goto, Local!Ended, Local!Fault, Local!Busy, Local!platform, Local!disks, Local!work, Local!counts, Local!run
  <2> QED
    BY <2>9, <2>1, <1>stop
<1>14. CASE Local!WriteConfig
  <2>1. CASE r10 = "write" /\ r10' = "done" /\ r14' = "ok" /\ (r9.also # "remote" => r8'.path = r12)
        /\ UNCHANGED <<r1, r2, r3, r4, r5, r6, r7, r9, r11, r12, r13, r15, r16, r17>>
    <3>1. Local!MountsSound'
      BY <1>m, <2>1 DEF Local!MountsSound
    <3>2. LocalSteps'
      BY <1>s, <2>1 DEF LocalSteps, Local!LoopSteps, Local!DeviceSteps, OnS, OnT, Bare, Covered
    <3>3. Local!RerunSucceeds'
      BY <2>1 DEF Local!RerunSucceeds
    <3>4. LocalStrict'
      BY <2>1, <1>s DEF LocalStrict, LocalSteps, OnS, OnT, Bare, Covered
    <3> QED
      BY <3>1, <3>2, <3>3, <3>4 DEF LocalSound
  <2>9. LocalFails
        \/ (r10 = "write" /\ r10' = "done" /\ r14' = "ok" /\ (r9.also # "remote" => r8'.path = r12)
            /\ UNCHANGED <<r1, r2, r3, r4, r5, r6, r7, r9, r11, r12, r13, r15, r16, r17>>)
    <3>1. r9.also # "remote" => Local!Written.path = r12
      BY WrittenPath DEF Local!IInv, Local!TypeOK
    <3> QED
      BY <1>14, <3>1 DEF Local!WriteConfig, LocalFails, Local!Goto, Local!Ended, Local!Fault, Local!Busy, Local!platform, Local!disks, Local!work, Local!counts
  <2> QED
    BY <2>9, <2>1, <1>stop
<1>15. CASE Local!Finish
  <2>1. CASE r10 = "done" /\ r10' = "idle" /\ r14' = "none" /\ r9' = Local!NoCmd /\ r11' = FALSE
        /\ UNCHANGED <<r1, r2, r3, r4, r5, r6, r7, r8, r15, r16, r17>>
    <3>1. Local!MountsSound'
      BY <1>m, <2>1 DEF Local!MountsSound
    <3>2. LocalSteps'
      BY <1>s, <2>1 DEF LocalSteps, Local!LoopSteps, Local!DeviceSteps, OnS, OnT, Bare, Covered, Local!NoCmd
    <3>3. Local!RerunSucceeds'
      BY <2>1 DEF Local!RerunSucceeds
    <3>4. LocalStrict'
      BY <2>1 DEF LocalStrict
    <3> QED
      BY <3>1, <3>2, <3>3, <3>4 DEF LocalSound
  <2>9. (r10 = "done" /\ r10' = "idle" /\ r14' = "none" /\ r9' = Local!NoCmd /\ r11' = FALSE
            /\ UNCHANGED <<r1, r2, r3, r4, r5, r6, r7, r8, r15, r16, r17>>)
    BY <1>15, <1>on, <1>loop, <1>dev DEF Local!Finish, LocalFails, Local!Goto, Local!Ended, Local!Fault, Local!Busy, Local!platform, Local!disks, Local!work, Local!counts, Local!run
  <2> QED
    BY <2>9, <2>1
<1>16. CASE Local!UseStore
  <2>1. CASE r10 = "idle" /\ (\E b \in Local!Blocks : r4[b].fs = "btrfs" /\ r4' = [r4 EXCEPT ![b].data = TRUE])
        /\ UNCHANGED <<r1, r2, r3, r5, r6, r7, r8, r9, r10, r11, r12, r13, r14, r15, r16, r17>>
    <3>0. \A c \in Local!Blocks : r4'[c].fs = r4[c].fs /\ (r4'[c].data => r4[c].data \/ r4[c].fs = "btrfs")
      BY <1>b, <2>1 DEF Local!Volumes
    <3>1. Local!MountsSound'
      <4>1. "dev" \in Local!Blocks /\ "inner" \in Local!Blocks /\ Local!Images \subseteq Local!Blocks
        BY DEF Local!Blocks, Local!Images
      <4>2. \A c \in Local!Blocks : r4'[c].fs \in {"absent", ""} => ~r4'[c].data
        BY <1>m, <3>0 DEF Local!MountsSound
      <4> QED
        BY <1>m, <2>1, <3>0, <4>1, <4>2 DEF Local!MountsSound
    <3>2. LocalSteps'
      BY <1>s, <2>1, <3>0, <1>b DEF LocalSteps, Local!LoopSteps, Local!DeviceSteps, OnS, OnT, Bare, Covered
    <3>3. Local!RerunSucceeds'
      BY <2>1, <3>0 DEF Local!RerunSucceeds
    <3>4. LocalStrict'
      BY <2>1, <3>0 DEF LocalStrict
    <3> QED
      BY <3>1, <3>2, <3>3, <3>4 DEF LocalSound
  <2>9. (r10 = "idle" /\ (\E b \in Local!Blocks : r4[b].fs = "btrfs" /\ r4' = [r4 EXCEPT ![b].data = TRUE])
            /\ UNCHANGED <<r1, r2, r3, r5, r6, r7, r8, r9, r10, r11, r12, r13, r14, r15, r16, r17>>)
    <3>1. PICK p \in Local!Points : /\ r5[p] # <<>> /\ Head(r5[p]) \in Local!Blocks /\ Local!OnBtrfs(p)
                                    /\ r4' = [r4 EXCEPT ![Head(r5[p])].data = TRUE]
      BY <1>16 DEF Local!UseStore
    <3>2. r4[Head(r5[p])].fs = "btrfs"
      BY <3>1, StacksDiffer DEF Local!OnBtrfs, Local!FsAt
    <3>3. r10 = "idle" /\ UNCHANGED <<r1, r2, r3, r5, r6, r7, r8, r9, r10, r11, r12, r13, r14, r15, r16, r17>>
      BY <1>16 DEF Local!UseStore, Local!platform, Local!work, Local!run, Local!counts
    <3> QED
      BY <3>1, <3>2, <3>3
  <2> QED
    BY <2>9, <2>1
<1>17. CASE Local!Reboot
  <2>1. CASE r10 = "idle" /\ r5'["S"] = <<>> /\ r5'["T"] = <<>>
        /\ UNCHANGED <<r1, r2, r3, r4, r6, r7, r8, r9, r10, r11, r12, r13, r14, r15, r16>>
    <3>1. Local!MountsSound'
      BY <1>m, <2>1, <1>s, StacksDiffer DEF Local!MountsSound, LocalSteps
    <3>2. LocalSteps'
      BY <1>s, <2>1, StacksDiffer DEF LocalSteps, Local!LoopSteps, Local!DeviceSteps, OnS, OnT, Bare, Covered
    <3>3. Local!RerunSucceeds'
      BY <2>1 DEF Local!RerunSucceeds
    <3>4. LocalStrict'
      BY <2>1 DEF LocalStrict
    <3> QED
      BY <3>1, <3>2, <3>3, <3>4 DEF LocalSound
  <2>9. (r10 = "idle" /\ r5'["S"] = <<>> /\ r5'["T"] = <<>>
            /\ UNCHANGED <<r1, r2, r3, r4, r6, r7, r8, r9, r10, r11, r12, r13, r14, r15, r16>>)
    <3>1. r5' = [p \in Local!Points |-> <<>>] /\ r10 = "idle"
      BY <1>17 DEF Local!Reboot
    <3>2. r5'["S"] = <<>> /\ r5'["T"] = <<>>
      BY <3>1 DEF Local!Points
    <3> QED
      BY <1>17, <3>1, <3>2 DEF Local!Reboot, Local!platform, Local!work, Local!run
  <2> QED
    BY <2>9, <2>1
<1>18. CASE UNCHANGED Local!vars
  <2>1. UNCHANGED <<r1, r2, r3, r4, r5, r6, r7, r8, r9, r10, r11, r12, r13, r14, r15, r16, r17>>
    BY <1>18 DEF Local!vars, Local!platform, Local!disks, Local!work, Local!run, Local!counts
  <2>2. Local!MountsSound'
    BY <1>m, <2>1 DEF Local!MountsSound
  <2>3. LocalSteps'
    BY <1>s, <2>1, PlanKept DEF LocalSteps, Local!LoopSteps, Local!DeviceSteps, OnS, OnT, Bare, Covered
  <2>4. LocalStrict
    BY LocalMeans DEF Local!IInv
  <2>5. LocalStrict'
    BY <2>1, <2>4 DEF LocalStrict, OnS, OnT, Bare, Covered
  <2>6. Local!RerunSucceeds'
    BY <2>1 DEF Local!IInv, Local!RerunSucceeds, Local!UseWSL, Local!StoreType, Local!OnBtrfs, Local!FsAt,
           Local!Auto, Local!EngineIsLinux
  <2> QED
    BY <2>2, <2>3, <2>5, <2>6 DEF LocalSound
<1> QED
  BY <1>1, <1>2, <1>3, <1>4, <1>5, <1>6, <1>7, <1>8, <1>9, <1>10, <1>11, <1>12, <1>13, <1>14, <1>15, <1>16, <1>17, <1>18 DEF Local!Next

\* The types of the variables of init, by what they are: the host and the workspace,
LocalHost == /\ r1 \in {"linux", "windows", "darwin"} /\ r3 \in {"ext4", "btrfs"}
             /\ r2 \in BOOLEAN /\ r6 \in BOOLEAN /\ r7 \in BOOLEAN
\* blocks and mounts,
LocalDisks == /\ r4 \in [Local!Blocks -> Local!Volumes] /\ DOMAIN r5 = Local!Points
              /\ r5["S"] \in Local!Stacks /\ r5["T"] \in {<<>>, <<"dev">>}
\* the configuration,
LocalConfig == r8 \in {Local!NoConfig, Local!Corrupt} \cup Local!Configs
\* where the command is,
LocalPlace == /\ r9 \in Local!Flags /\ r10 \in Local!Steps
              /\ r14 \in {"none", "ok", "fail", "already", "dry"}
              /\ r12 \in {"none", "S", "T", "image", "dev", "vhdx"}
\* flags,
LocalFlags == r11 \in BOOLEAN /\ r13 \in BOOLEAN
\* and how much has happened.
LocalCounts == r15 \in 0..InitCmds /\ r16 \in 0..MaxFaults /\ r17 \in 0..MaxReboots

\* They make up TypeOK.
LEMMA LocalTypeParts ==
  /\ Local!TypeOK <=> LocalHost /\ LocalDisks /\ LocalConfig /\ LocalPlace /\ LocalFlags /\ LocalCounts
  /\ Local!TypeOK' <=> LocalHost' /\ LocalDisks' /\ LocalConfig' /\ LocalPlace' /\ LocalFlags' /\ LocalCounts'
<1>1. Local!TypeOK <=> LocalHost /\ LocalDisks /\ LocalConfig /\ LocalPlace /\ LocalFlags /\ LocalCounts
  <2>1. /\ {r2, r6, r7} \subseteq BOOLEAN <=> r2 \in BOOLEAN /\ r6 \in BOOLEAN /\ r7 \in BOOLEAN
        /\ {r11, r13} \subseteq BOOLEAN <=> LocalFlags
    BY DEF LocalFlags
  <2> QED
    BY <2>1 DEF Local!TypeOK, LocalHost, LocalDisks, LocalConfig, LocalPlace, LocalCounts
<1>2. (Local!TypeOK <=> LocalHost /\ LocalDisks /\ LocalConfig /\ LocalPlace /\ LocalFlags /\ LocalCounts)'
  BY <1>1, PTL
<1> QED
  BY <1>1, <1>2

\* config.yaml as init writes it.
LEMMA WrittenTyped ==
  ASSUME LocalConfig, r9 \in Local!Flags, r12 \in {"none", "S", "T", "image", "dev", "vhdx"}
  PROVE  Local!Written \in Local!Configs
<1> DEFINE fresh == [kind |-> "ok", backend |-> "auto", path |-> "none", wsl |-> FALSE, remote |-> FALSE]
           old == IF r9.update /\ r8.kind = "ok" THEN r8 ELSE fresh
<1>1. fresh \in Local!Configs
  BY DEF Local!Configs
<1>2. old \in Local!Configs
  BY <1>1 DEF LocalConfig, Local!NoConfig, Local!Corrupt, Local!Configs
<1>3. r9.snapshot \in {"", "auto", "btrfs", "overlay", "copy"}
  BY DEF Local!Flags
<1> DEFINE bk == IF r9.also = "remote" THEN old.backend ELSE IF r9.snapshot = "" THEN "auto" ELSE r9.snapshot
           pt == IF r9.also = "remote" THEN old.path ELSE r12
           wl == old.wsl \/ r12 = "vhdx"
           rm == old.remote \/ r9.also = "remote"
<1>4. Local!Written = [old EXCEPT !.backend = bk, !.path = pt, !.wsl = wl, !.remote = rm]
  BY DEF Local!Written
<1> HIDE DEF old
<1>5. bk \in {"auto", "btrfs", "overlay", "copy"} /\ pt \in {"none", "S", "T", "image", "dev", "vhdx"}
  BY <1>2, <1>3 DEF Local!Configs
<1>6. wl \in BOOLEAN /\ rm \in BOOLEAN
  OBVIOUS
<1> HIDE DEF bk, pt, wl, rm
<1> QED
  BY <1>2, <1>4, <1>5, <1>6 DEF Local!Configs

\* The flags parseInitFlags starts from.
LEMMA NoCmdTyped == Local!NoCmd \in Local!Flags
  BY DEF Local!NoCmd, Local!Flags

\* Every step of an init, a reboot or the engine keeps the types.
LEMMA LocalTypeStep ==
  Local!IInv /\ [Local!Next]_(Local!vars) => Local!TypeOK'
<1> SUFFICES ASSUME Local!IInv, [Local!Next]_(Local!vars)
             PROVE  Local!TypeOK'
  OBVIOUS
<1>m. Local!MountsSound
  BY DEF Local!IInv
<1>s. LocalSteps
  BY LocalMeans DEF Local!IInv
<1>h. LocalHost
  BY LocalTypeParts DEF Local!IInv
<1>d. LocalDisks
  BY LocalTypeParts DEF Local!IInv
<1>y. LocalConfig
  BY LocalTypeParts DEF Local!IInv
<1>p. LocalPlace
  BY LocalTypeParts DEF Local!IInv
<1>f. LocalFlags
  BY LocalTypeParts DEF Local!IInv
<1>c. LocalCounts
  BY LocalTypeParts DEF Local!IInv
<1>b. InitCmds \in Nat /\ MaxFaults \in Nat /\ MaxReboots \in Nat
  BY BoundsAssumption, ProcessAssumption
<1>z. \A q \in {"idle", "wsl", "strict", "own", "marker", "write", "done", "unmount", "remove", "image",
                "format", "mount", "device", "devformat", "devmount"} : q \in Local!Steps
  BY DEF Local!Steps, Local!LoopSteps, Local!DeviceSteps
<1>loop. r10 \in Local!LoopSteps => r12 # "dev" /\ (Bare \/ Covered)
  BY <1>s DEF LocalSteps, Local!LoopSteps, Local!DeviceSteps
<1>dev. r10 \in Local!DeviceSteps => r12 = "dev" /\ (Bare \/ Covered)
  BY <1>s DEF LocalSteps, Local!LoopSteps, Local!DeviceSteps
<1>1. CASE Local!RunInit
  <2>0. UNCHANGED <<r1, r2, r3, r4, r5, r6, r7, r8, r16, r17>>
    BY <1>1 DEF Local!RunInit, Local!platform, Local!disks, Local!work
  <2>1. LocalHost'
    BY <1>h, <2>0 DEF LocalHost
  <2>2. LocalDisks'
    BY <1>d, <2>0 DEF LocalDisks
  <2>3. LocalConfig'
    BY <1>y, <2>0 DEF LocalConfig
  <2>4. LocalPlace'
    <3>1. PICK o \in Local!Flags :
             /\ r9' = o /\ r12' = Local!StorePath(Local!StoreType(o))
             /\ r10' \in {"done", "wsl", "strict", "marker"}
             /\ r14' = r14 \/ r14' \in {"fail", "already", "dry"}
      BY <1>1 DEF Local!RunInit
    <3>2. r12' \in {"S", "image", "dev"}
      BY <3>1 DEF Local!StorePath
    <3>3. r10' \in Local!Steps
      BY <1>z, <3>1
    <3> QED
      BY <1>p, <3>1, <3>2, <3>3 DEF LocalPlace
  <2>5. LocalFlags'
    BY <1>f, <1>1, <2>0 DEF LocalFlags, Local!RunInit, Local!platform, Local!disks, Local!work
  <2>6. LocalCounts'
    <3>15. r15' \in 0..InitCmds
      <4>1. r15 \in 0..InitCmds
        BY <1>c DEF LocalCounts
      <4>2. r15' = r15 \/ (r15 < InitCmds /\ r15' = r15 + 1)
        BY <1>1 DEF Local!RunInit, Local!platform, Local!disks, Local!work
      <4> QED
        BY <1>b, <4>1, <4>2, CountsUp
    <3> QED
      BY <1>c, <2>0, <3>15 DEF LocalCounts
  <2> QED
    BY <2>1, <2>2, <2>3, <2>4, <2>5, <2>6, LocalTypeParts
<1>2. CASE Local!InitWSL
  <2>0. UNCHANGED <<r1, r2, r3, r4, r5, r6, r7, r8, r9, r11, r15, r16, r17>>
    BY <1>2 DEF Local!InitWSL, Local!platform, Local!disks, Local!work, Local!counts
  <2>1. LocalHost'
    BY <1>h, <2>0 DEF LocalHost
  <2>2. LocalDisks'
    BY <1>d, <2>0 DEF LocalDisks
  <2>3. LocalConfig'
    BY <1>y, <2>0 DEF LocalConfig
  <2>4. LocalPlace'
    BY <1>p, <1>z, <1>2, <2>0 DEF LocalPlace, Local!InitWSL, Local!platform, Local!disks, Local!work, Local!counts
  <2>5. LocalFlags'
    BY <1>f, <1>2, <2>0 DEF LocalFlags, Local!InitWSL, Local!platform, Local!disks, Local!work, Local!counts
  <2>6. LocalCounts'
    BY <1>c, <2>0 DEF LocalCounts
  <2> QED
    BY <2>1, <2>2, <2>3, <2>4, <2>5, <2>6, LocalTypeParts
<1>3. CASE Local!StrictBegin
  <2>0. UNCHANGED <<r1, r2, r3, r4, r5, r6, r7, r8, r9, r11, r15, r17>>
    BY <1>3 DEF Local!StrictBegin, Local!Goto, Local!Fault, Local!platform, Local!disks, Local!work, Local!counts
  <2>1. LocalHost'
    BY <1>h, <2>0 DEF LocalHost
  <2>2. LocalDisks'
    BY <1>d, <2>0 DEF LocalDisks
  <2>3. LocalConfig'
    BY <1>y, <2>0 DEF LocalConfig
  <2>4. LocalPlace'
    BY <1>p, <1>z, <1>3, <2>0 DEF LocalPlace, Local!StrictBegin, Local!Goto, Local!Fault, Local!platform, Local!disks, Local!work, Local!counts
  <2>5. LocalFlags'
    BY <1>f, <1>3, <2>0 DEF LocalFlags, Local!StrictBegin, Local!Goto, Local!Fault, Local!platform, Local!disks, Local!work, Local!counts
  <2>6. LocalCounts'
    <3>16. r16' \in 0..MaxFaults
      <4>1. r16 \in 0..MaxFaults
        BY <1>c DEF LocalCounts
      <4>2. r16' = r16 \/ (r16 < MaxFaults /\ r16' = r16 + 1)
        BY <1>3 DEF Local!StrictBegin, Local!Goto, Local!Fault, Local!platform, Local!disks, Local!work, Local!counts
      <4> QED
        BY <1>b, <4>1, <4>2, CountsUp
    <3> QED
      BY <1>c, <2>0, <3>16 DEF LocalCounts
  <2> QED
    BY <2>1, <2>2, <2>3, <2>4, <2>5, <2>6, LocalTypeParts
<1>4. CASE Local!Unmount
  <2>0. UNCHANGED <<r1, r2, r3, r4, r6, r7, r8, r9, r11, r12, r15, r17>>
    BY <1>4 DEF Local!Unmount, Local!Goto, Local!Fault, Local!Busy, Local!disks, Local!work, Local!platform, Local!counts
  <2>1. LocalHost'
    BY <1>h, <2>0 DEF LocalHost
  <2>2. LocalDisks'
    <3>1. r5' = r5 \/ r5' = Local!Popped("S")
      BY <1>4 DEF Local!Unmount, Local!disks
    <3>2. Bare \/ Covered
      BY <1>4, <1>loop DEF Local!Unmount, Local!LoopSteps
    <3>3. r5' = Local!Popped("S") => DOMAIN r5' = Local!Points /\ r5'["S"] = <<>> /\ r5'["T"] = r5["T"]
      BY <1>d, <3>2, PoppedS DEF LocalDisks
    <3>4. r4' = r4
      BY <1>4 DEF Local!Unmount, Local!disks
    <3> QED
      BY <1>d, <3>1, <3>3, <3>4 DEF LocalDisks, Local!Stacks
  <2>3. LocalConfig'
    BY <1>y, <2>0 DEF LocalConfig
  <2>4. LocalPlace'
    BY <1>p, <1>z, <1>4, <2>0 DEF LocalPlace, Local!Unmount, Local!Goto, Local!Fault, Local!Busy, Local!disks, Local!work, Local!platform, Local!counts
  <2>5. LocalFlags'
    BY <1>f, <1>4, <2>0 DEF LocalFlags, Local!Unmount, Local!Goto, Local!Fault, Local!Busy, Local!disks, Local!work, Local!platform, Local!counts
  <2>6. LocalCounts'
    <3>16. r16' \in 0..MaxFaults
      <4>1. r16 \in 0..MaxFaults
        BY <1>c DEF LocalCounts
      <4>2. r16' = r16 \/ (r16 < MaxFaults /\ r16' = r16 + 1)
        BY <1>4 DEF Local!Unmount, Local!Goto, Local!Fault, Local!Busy, Local!disks, Local!work, Local!platform, Local!counts
      <4> QED
        BY <1>b, <4>1, <4>2, CountsUp
    <3> QED
      BY <1>c, <2>0, <3>16 DEF LocalCounts
  <2> QED
    BY <2>1, <2>2, <2>3, <2>4, <2>5, <2>6, LocalTypeParts
<1>5. CASE Local!RemoveImage
  <2>0. UNCHANGED <<r1, r2, r3, r5, r6, r7, r8, r9, r11, r12, r15, r17>>
    BY <1>5 DEF Local!RemoveImage, Local!Goto, Local!Fault, Local!work, Local!platform, Local!counts
  <2>1. LocalHost'
    BY <1>h, <2>0 DEF LocalHost
  <2>2. LocalDisks'
    <3>1. r4' = r4 \/ r4' = [r4 EXCEPT ![Local!PlanBlock] = Local!NoImage]
      BY <1>5 DEF Local!RemoveImage, Local!FormatBlock, Local!Goto, Local!Ended, Local!Fault
    <3>2. Local!PlanBlock \in Local!Blocks
      BY <1>5, <1>loop, PlannedImage DEF Local!RemoveImage, Local!LoopSteps
    <3>3. r4 \in [Local!Blocks -> Local!Volumes]
      BY <1>d DEF LocalDisks
    <3>4. r4' \in [Local!Blocks -> Local!Volumes]
      BY <3>1, <3>2, <3>3, VolumesMade
    <3> QED
      BY <1>d, <2>0, <3>4 DEF LocalDisks
  <2>3. LocalConfig'
    BY <1>y, <2>0 DEF LocalConfig
  <2>4. LocalPlace'
    BY <1>p, <1>z, <1>5, <2>0 DEF LocalPlace, Local!RemoveImage, Local!Goto, Local!Fault, Local!work, Local!platform, Local!counts
  <2>5. LocalFlags'
    BY <1>f, <1>5, <2>0 DEF LocalFlags, Local!RemoveImage, Local!Goto, Local!Fault, Local!work, Local!platform, Local!counts
  <2>6. LocalCounts'
    <3>16. r16' \in 0..MaxFaults
      <4>1. r16 \in 0..MaxFaults
        BY <1>c DEF LocalCounts
      <4>2. r16' = r16 \/ (r16 < MaxFaults /\ r16' = r16 + 1)
        BY <1>5 DEF Local!RemoveImage, Local!Goto, Local!Fault, Local!work, Local!platform, Local!counts
      <4> QED
        BY <1>b, <4>1, <4>2, CountsUp
    <3> QED
      BY <1>c, <2>0, <3>16 DEF LocalCounts
  <2> QED
    BY <2>1, <2>2, <2>3, <2>4, <2>5, <2>6, LocalTypeParts
<1>6. CASE Local!EnsureLoopImage
  <2>0. UNCHANGED <<r1, r2, r3, r5, r6, r7, r8, r9, r12, r15, r17>>
    BY <1>6 DEF Local!EnsureLoopImage, Local!Goto, Local!Fault, Local!platform, Local!work, Local!counts
  <2>1. LocalHost'
    BY <1>h, <2>0 DEF LocalHost
  <2>2. LocalDisks'
    <3>1. r4' = r4 \/ r4' = [r4 EXCEPT ![Local!PlanBlock] = Local!Blank]
      BY <1>6 DEF Local!EnsureLoopImage, Local!FormatBlock, Local!Goto, Local!Ended, Local!Fault
    <3>2. Local!PlanBlock \in Local!Blocks
      BY <1>6, <1>loop, PlannedImage DEF Local!EnsureLoopImage, Local!LoopSteps
    <3>3. r4 \in [Local!Blocks -> Local!Volumes]
      BY <1>d DEF LocalDisks
    <3>4. r4' \in [Local!Blocks -> Local!Volumes]
      BY <3>1, <3>2, <3>3, VolumesMade
    <3> QED
      BY <1>d, <2>0, <3>4 DEF LocalDisks
  <2>3. LocalConfig'
    BY <1>y, <2>0 DEF LocalConfig
  <2>4. LocalPlace'
    BY <1>p, <1>z, <1>6, <2>0 DEF LocalPlace, Local!EnsureLoopImage, Local!Goto, Local!Fault, Local!platform, Local!work, Local!counts
  <2>5. LocalFlags'
    BY <1>f, <1>6, <2>0 DEF LocalFlags, Local!EnsureLoopImage, Local!Goto, Local!Fault, Local!platform, Local!work, Local!counts
  <2>6. LocalCounts'
    <3>16. r16' \in 0..MaxFaults
      <4>1. r16 \in 0..MaxFaults
        BY <1>c DEF LocalCounts
      <4>2. r16' = r16 \/ (r16 < MaxFaults /\ r16' = r16 + 1)
        BY <1>6 DEF Local!EnsureLoopImage, Local!Goto, Local!Fault, Local!platform, Local!work, Local!counts
      <4> QED
        BY <1>b, <4>1, <4>2, CountsUp
    <3> QED
      BY <1>c, <2>0, <3>16 DEF LocalCounts
  <2> QED
    BY <2>1, <2>2, <2>3, <2>4, <2>5, <2>6, LocalTypeParts
<1>7. CASE Local!FormatImage
  <2>0. UNCHANGED <<r1, r2, r3, r5, r6, r7, r8, r9, r11, r12, r15, r17>>
    BY <1>7 DEF Local!FormatImage, Local!FormatBlock, Local!work, Local!Goto, Local!Ended, Local!Fault, Local!platform, Local!counts
  <2>1. LocalHost'
    BY <1>h, <2>0 DEF LocalHost
  <2>2. LocalDisks'
    <3>1. r4' = r4 \/ r4' = [r4 EXCEPT ![Local!PlanBlock] = Local!Blank] \/ r4' = [r4 EXCEPT ![Local!PlanBlock] = [fs |-> "btrfs", data |-> FALSE]]
      BY <1>7 DEF Local!FormatImage, Local!FormatBlock, Local!Goto, Local!Ended, Local!Fault
    <3>2. Local!PlanBlock \in Local!Blocks
      BY <1>7, <1>loop, PlannedImage DEF Local!FormatImage, Local!LoopSteps
    <3>3. r4 \in [Local!Blocks -> Local!Volumes]
      BY <1>d DEF LocalDisks
    <3>4. r4' \in [Local!Blocks -> Local!Volumes]
      BY <3>1, <3>2, <3>3, VolumesMade
    <3> QED
      BY <1>d, <2>0, <3>4 DEF LocalDisks
  <2>3. LocalConfig'
    BY <1>y, <2>0 DEF LocalConfig
  <2>4. LocalPlace'
    BY <1>p, <1>z, <1>7, <2>0 DEF LocalPlace, Local!FormatImage, Local!FormatBlock, Local!work, Local!Goto, Local!Ended, Local!Fault, Local!platform, Local!counts
  <2>5. LocalFlags'
    BY <1>f, <1>7, <2>0 DEF LocalFlags, Local!FormatImage, Local!FormatBlock, Local!work, Local!Goto, Local!Ended, Local!Fault, Local!platform, Local!counts
  <2>6. LocalCounts'
    <3>16. r16' \in 0..MaxFaults
      <4>1. r16 \in 0..MaxFaults
        BY <1>c DEF LocalCounts
      <4>2. r16' = r16 \/ (r16 < MaxFaults /\ r16' = r16 + 1)
        BY <1>7 DEF Local!FormatImage, Local!FormatBlock, Local!work, Local!Goto, Local!Ended, Local!Fault, Local!platform, Local!counts
      <4> QED
        BY <1>b, <4>1, <4>2, CountsUp
    <3> QED
      BY <1>c, <2>0, <3>16 DEF LocalCounts
  <2> QED
    BY <2>1, <2>2, <2>3, <2>4, <2>5, <2>6, LocalTypeParts
<1>8. CASE Local!MountImage
  <2>0. UNCHANGED <<r1, r2, r3, r4, r6, r7, r8, r9, r11, r15, r17>>
    BY <1>8 DEF Local!MountImage, Local!Goto, Local!Ended, Local!Fault, Local!Busy, Local!platform, Local!work, Local!counts
  <2>1. LocalHost'
    BY <1>h, <2>0 DEF LocalHost
  <2>2. LocalDisks'
    <3> DEFINE kept == Local!Popped("S")["S"]
                b == IF r12 = "image" /\ kept = <<>> THEN "inner" ELSE Local!PlanBlock
    <3>1. \/ r5' = r5 \/ r5' = Local!Popped("S") \/ r5' = [r5 EXCEPT !["S"] = <<b>> \o kept]
          \/ r5' = [r5 EXCEPT !["S"] = <<Local!PlanBlock>> \o r5["S"]]
      BY <1>8 DEF Local!MountImage
    <3>2. r12 # "dev" /\ (Bare \/ Covered) /\ DOMAIN r5 = Local!Points
      BY <1>8, <1>d, <1>loop DEF Local!MountImage, Local!LoopSteps, LocalDisks
    <3>3. Local!PlanBlock \in Local!Blocks
      BY <3>2, PlannedImage
    <3>4. b \in Local!Blocks
      BY <3>3 DEF Local!Blocks, Local!Images
    <3>5. kept = <<>> /\ Local!Popped("S")["T"] = r5["T"] /\ DOMAIN Local!Popped("S") = Local!Points
      BY <3>2, PoppedS
    <3> HIDE DEF b, kept
    <3>6. r5' = Local!Popped("S") => DOMAIN r5' = Local!Points /\ r5'["T"] = r5["T"] /\ r5'["S"] \in Local!Stacks
      BY <3>5 DEF Local!Stacks, kept
    <3>7. r5' = [r5 EXCEPT !["S"] = <<b>> \o kept] => DOMAIN r5' = Local!Points /\ r5'["T"] = r5["T"] /\ r5'["S"] = <<b>>
      BY <3>2, <3>4, <3>5, MountedS
    <3>8. r5' = [r5 EXCEPT !["S"] = <<Local!PlanBlock>> \o r5["S"]] =>
            /\ DOMAIN r5' = Local!Points /\ r5'["T"] = r5["T"]
            /\ r5'["S"] = <<Local!PlanBlock>> \/ r5'["S"] = <<Local!PlanBlock, "foreign">>
      BY <3>2, <3>3, MountedS DEF Bare, Covered
    <3>9. \A q \in Local!Blocks : <<q>> \in Local!Stacks /\ <<q, "foreign">> \in Local!Stacks
      BY DEF Local!Stacks
    <3>10. r5' = r5 \/ (DOMAIN r5' = Local!Points /\ r5'["T"] = r5["T"] /\ r5'["S"] \in Local!Stacks)
      BY <3>1, <3>3, <3>4, <3>6, <3>7, <3>8, <3>9
    <3> QED
      BY <1>d, <2>0, <3>10 DEF LocalDisks
  <2>3. LocalConfig'
    BY <1>y, <2>0 DEF LocalConfig
  <2>4. LocalPlace'
    BY <1>p, <1>z, <1>8, <2>0 DEF LocalPlace, Local!MountImage, Local!Goto, Local!Ended, Local!Fault, Local!Busy, Local!platform, Local!work, Local!counts
  <2>5. LocalFlags'
    BY <1>f, <1>8, <2>0 DEF LocalFlags, Local!MountImage, Local!Goto, Local!Ended, Local!Fault, Local!Busy, Local!platform, Local!work, Local!counts
  <2>6. LocalCounts'
    <3>16. r16' \in 0..MaxFaults
      <4>1. r16 \in 0..MaxFaults
        BY <1>c DEF LocalCounts
      <4>2. r16' = r16 \/ (r16 < MaxFaults /\ r16' = r16 + 1)
        BY <1>8 DEF Local!MountImage, Local!Goto, Local!Ended, Local!Fault, Local!Busy, Local!platform, Local!work, Local!counts
      <4> QED
        BY <1>b, <4>1, <4>2, CountsUp
    <3> QED
      BY <1>c, <2>0, <3>16 DEF LocalCounts
  <2> QED
    BY <2>1, <2>2, <2>3, <2>4, <2>5, <2>6, LocalTypeParts
<1>9. CASE Local!SourceMount
  <2>0. UNCHANGED <<r1, r2, r3, r4, r6, r7, r8, r9, r11, r15, r17>>
    BY <1>9 DEF Local!SourceMount, Local!Goto, Local!Ended, Local!Fault, Local!Busy, Local!platform, Local!work, Local!counts
  <2>1. LocalHost'
    BY <1>h, <2>0 DEF LocalHost
  <2>2. LocalDisks'
    <3>1. r5' = r5 \/ (\E p \in Local!DeviceMounts : r5' = Local!Popped(p))
      BY <1>9 DEF Local!SourceMount
    <3>2. Bare \/ Covered
      BY <1>9, <1>dev DEF Local!SourceMount, Local!DeviceSteps
    <3>3. \A p \in Local!DeviceMounts : p = "T" /\ r5["T"] = <<"dev">>
      BY <1>d, <3>2, DeviceOnT DEF LocalDisks
    <3>4. r5' = r5 \/ (DOMAIN r5' = Local!Points /\ r5'["T"] = <<>> /\ r5'["S"] = r5["S"])
      BY <1>d, <3>1, <3>3, PoppedT DEF LocalDisks
    <3> QED
      BY <1>d, <2>0, <3>4 DEF LocalDisks
  <2>3. LocalConfig'
    BY <1>y, <2>0 DEF LocalConfig
  <2>4. LocalPlace'
    <3>1. Bare \/ Covered
      BY <1>9, <1>dev DEF Local!SourceMount, Local!DeviceSteps
    <3>2. \A p \in Local!DeviceMounts : p = "T"
      BY <1>d, <3>1, DeviceOnT DEF LocalDisks
    <3> QED
      BY <1>p, <1>z, <1>9, <2>0, <3>2 DEF LocalPlace, Local!SourceMount, Local!Goto, Local!Ended, Local!Fault, Local!Busy
  <2>5. LocalFlags'
    BY <1>f, <1>9, <2>0 DEF LocalFlags, Local!SourceMount, Local!Goto, Local!Ended, Local!Fault, Local!Busy, Local!platform, Local!work, Local!counts
  <2>6. LocalCounts'
    <3>16. r16' \in 0..MaxFaults
      <4>1. r16 \in 0..MaxFaults
        BY <1>c DEF LocalCounts
      <4>2. r16' = r16 \/ (r16 < MaxFaults /\ r16' = r16 + 1)
        BY <1>9 DEF Local!SourceMount, Local!Goto, Local!Ended, Local!Fault, Local!Busy, Local!platform, Local!work, Local!counts
      <4> QED
        BY <1>b, <4>1, <4>2, CountsUp
    <3> QED
      BY <1>c, <2>0, <3>16 DEF LocalCounts
  <2> QED
    BY <2>1, <2>2, <2>3, <2>4, <2>5, <2>6, LocalTypeParts
<1>10. CASE Local!FormatDevice
  <2>0. UNCHANGED <<r1, r2, r3, r5, r6, r7, r8, r9, r11, r12, r15, r17>>
    BY <1>10 DEF Local!FormatDevice, Local!FormatBlock, Local!work, Local!Goto, Local!Ended, Local!Fault, Local!platform, Local!counts
  <2>1. LocalHost'
    BY <1>h, <2>0 DEF LocalHost
  <2>2. LocalDisks'
    <3>1. r4' = r4 \/ r4' = [r4 EXCEPT !["dev"] = Local!Blank] \/ r4' = [r4 EXCEPT !["dev"] = [fs |-> "btrfs", data |-> FALSE]]
      BY <1>10 DEF Local!FormatDevice, Local!FormatBlock, Local!Goto, Local!Ended, Local!Fault
    <3>2. "dev" \in Local!Blocks
      BY DEF Local!Blocks
    <3>3. r4 \in [Local!Blocks -> Local!Volumes]
      BY <1>d DEF LocalDisks
    <3>4. r4' \in [Local!Blocks -> Local!Volumes]
      BY <3>1, <3>2, <3>3, VolumesMade
    <3> QED
      BY <1>d, <2>0, <3>4 DEF LocalDisks
  <2>3. LocalConfig'
    BY <1>y, <2>0 DEF LocalConfig
  <2>4. LocalPlace'
    BY <1>p, <1>z, <1>10, <2>0 DEF LocalPlace, Local!FormatDevice, Local!FormatBlock, Local!work, Local!Goto, Local!Ended, Local!Fault, Local!platform, Local!counts
  <2>5. LocalFlags'
    BY <1>f, <1>10, <2>0 DEF LocalFlags, Local!FormatDevice, Local!FormatBlock, Local!work, Local!Goto, Local!Ended, Local!Fault, Local!platform, Local!counts
  <2>6. LocalCounts'
    <3>16. r16' \in 0..MaxFaults
      <4>1. r16 \in 0..MaxFaults
        BY <1>c DEF LocalCounts
      <4>2. r16' = r16 \/ (r16 < MaxFaults /\ r16' = r16 + 1)
        BY <1>10 DEF Local!FormatDevice, Local!FormatBlock, Local!work, Local!Goto, Local!Ended, Local!Fault, Local!platform, Local!counts
      <4> QED
        BY <1>b, <4>1, <4>2, CountsUp
    <3> QED
      BY <1>c, <2>0, <3>16 DEF LocalCounts
  <2> QED
    BY <2>1, <2>2, <2>3, <2>4, <2>5, <2>6, LocalTypeParts
<1>11. CASE Local!MountDevice
  <2>0. UNCHANGED <<r1, r2, r3, r4, r6, r7, r8, r9, r11, r12, r15, r17>>
    BY <1>11 DEF Local!MountDevice, Local!Goto, Local!Fault, Local!work, Local!platform, Local!counts
  <2>1. LocalHost'
    BY <1>h, <2>0 DEF LocalHost
  <2>2. LocalDisks'
    <3>1. r5' = r5 \/ r5' = [r5 EXCEPT !["S"] = <<"dev">> \o r5["S"]]
      BY <1>11 DEF Local!MountDevice
    <3>2. Bare \/ Covered
      BY <1>11, <1>dev DEF Local!MountDevice, Local!DeviceSteps
    <3>3. "dev" \in Local!Blocks /\ DOMAIN r5 = Local!Points
      BY <1>d DEF Local!Blocks, LocalDisks
    <3>4. r5' = r5 \/ (DOMAIN r5' = Local!Points /\ r5'["T"] = r5["T"]
                         /\ (r5'["S"] = <<"dev">> \/ r5'["S"] = <<"dev", "foreign">>))
      BY <3>1, <3>2, <3>3, MountedS DEF Bare, Covered
    <3>5. r5' = r5 \/ r5'["S"] \in Local!Stacks
      BY <3>3, <3>4 DEF Local!Stacks
    <3> QED
      BY <1>d, <2>0, <3>4, <3>5 DEF LocalDisks
  <2>3. LocalConfig'
    BY <1>y, <2>0 DEF LocalConfig
  <2>4. LocalPlace'
    BY <1>p, <1>z, <1>11, <2>0 DEF LocalPlace, Local!MountDevice, Local!Goto, Local!Fault, Local!work, Local!platform, Local!counts
  <2>5. LocalFlags'
    BY <1>f, <1>11, <2>0 DEF LocalFlags, Local!MountDevice, Local!Goto, Local!Fault, Local!work, Local!platform, Local!counts
  <2>6. LocalCounts'
    <3>16. r16' \in 0..MaxFaults
      <4>1. r16 \in 0..MaxFaults
        BY <1>c DEF LocalCounts
      <4>2. r16' = r16 \/ (r16 < MaxFaults /\ r16' = r16 + 1)
        BY <1>11 DEF Local!MountDevice, Local!Goto, Local!Fault, Local!work, Local!platform, Local!counts
      <4> QED
        BY <1>b, <4>1, <4>2, CountsUp
    <3> QED
      BY <1>c, <2>0, <3>16 DEF LocalCounts
  <2> QED
    BY <2>1, <2>2, <2>3, <2>4, <2>5, <2>6, LocalTypeParts
<1>12. CASE Local!OwnAndVerify
  <2>0. UNCHANGED <<r1, r2, r3, r4, r5, r6, r7, r8, r9, r11, r15, r17>>
    BY <1>12 DEF Local!OwnAndVerify, Local!Ended, Local!Fault, Local!platform, Local!disks, Local!work, Local!counts
  <2>1. LocalHost'
    BY <1>h, <2>0 DEF LocalHost
  <2>2. LocalDisks'
    BY <1>d, <2>0 DEF LocalDisks
  <2>3. LocalConfig'
    BY <1>y, <2>0 DEF LocalConfig
  <2>4. LocalPlace'
    BY <1>p, <1>z, <1>12, <2>0 DEF LocalPlace, Local!OwnAndVerify, Local!Ended, Local!Fault, Local!platform, Local!disks, Local!work, Local!counts
  <2>5. LocalFlags'
    BY <1>f, <1>12, <2>0 DEF LocalFlags, Local!OwnAndVerify, Local!Ended, Local!Fault, Local!platform, Local!disks, Local!work, Local!counts
  <2>6. LocalCounts'
    <3>16. r16' \in 0..MaxFaults
      <4>1. r16 \in 0..MaxFaults
        BY <1>c DEF LocalCounts
      <4>2. r16' = r16 \/ (r16 < MaxFaults /\ r16' = r16 + 1)
        BY <1>12 DEF Local!OwnAndVerify, Local!Ended, Local!Fault, Local!platform, Local!disks, Local!work, Local!counts
      <4> QED
        BY <1>b, <4>1, <4>2, CountsUp
    <3> QED
      BY <1>c, <2>0, <3>16 DEF LocalCounts
  <2> QED
    BY <2>1, <2>2, <2>3, <2>4, <2>5, <2>6, LocalTypeParts
<1>13. CASE Local!MakeMarker
  <2>0. UNCHANGED <<r1, r2, r3, r4, r5, r6, r8, r9, r11, r12, r15, r17>>
    BY <1>13 DEF Local!MakeMarker, Local!Goto, Local!Fault, Local!disks, Local!platform, Local!counts
  <2>1. LocalHost'
    BY <1>h, <1>13, <2>0 DEF LocalHost, Local!MakeMarker, Local!Goto, Local!Fault, Local!disks, Local!platform, Local!counts
  <2>2. LocalDisks'
    BY <1>d, <2>0 DEF LocalDisks
  <2>3. LocalConfig'
    BY <1>y, <2>0 DEF LocalConfig
  <2>4. LocalPlace'
    BY <1>p, <1>z, <1>13, <2>0 DEF LocalPlace, Local!MakeMarker, Local!Goto, Local!Fault, Local!disks, Local!platform, Local!counts
  <2>5. LocalFlags'
    BY <1>f, <1>13, <2>0 DEF LocalFlags, Local!MakeMarker, Local!Goto, Local!Fault, Local!disks, Local!platform, Local!counts
  <2>6. LocalCounts'
    <3>16. r16' \in 0..MaxFaults
      <4>1. r16 \in 0..MaxFaults
        BY <1>c DEF LocalCounts
      <4>2. r16' = r16 \/ (r16 < MaxFaults /\ r16' = r16 + 1)
        BY <1>13 DEF Local!MakeMarker, Local!Goto, Local!Fault, Local!disks, Local!platform, Local!counts
      <4> QED
        BY <1>b, <4>1, <4>2, CountsUp
    <3> QED
      BY <1>c, <2>0, <3>16 DEF LocalCounts
  <2> QED
    BY <2>1, <2>2, <2>3, <2>4, <2>5, <2>6, LocalTypeParts
<1>14. CASE Local!WriteConfig
  <2>0. UNCHANGED <<r1, r2, r3, r4, r5, r6, r7, r9, r11, r12, r15, r17>>
    BY <1>14 DEF Local!WriteConfig, Local!Ended, Local!Fault, Local!disks, Local!platform, Local!counts
  <2>1. LocalHost'
    BY <1>h, <2>0 DEF LocalHost
  <2>2. LocalDisks'
    BY <1>d, <2>0 DEF LocalDisks
  <2>3. LocalConfig'
    <3>1. r8' = r8 \/ r8' = Local!Written
      BY <1>14 DEF Local!WriteConfig
    <3>2. Local!Written \in Local!Configs
      BY <1>p, <1>y, WrittenTyped DEF LocalPlace
    <3> QED
      BY <1>y, <3>1, <3>2 DEF LocalConfig
  <2>4. LocalPlace'
    BY <1>p, <1>z, <1>14, <2>0 DEF LocalPlace, Local!WriteConfig, Local!Ended, Local!Fault, Local!disks, Local!platform, Local!counts
  <2>5. LocalFlags'
    BY <1>f, <1>14, <2>0 DEF LocalFlags, Local!WriteConfig, Local!Ended, Local!Fault, Local!disks, Local!platform, Local!counts
  <2>6. LocalCounts'
    <3>16. r16' \in 0..MaxFaults
      <4>1. r16 \in 0..MaxFaults
        BY <1>c DEF LocalCounts
      <4>2. r16' = r16 \/ (r16 < MaxFaults /\ r16' = r16 + 1)
        BY <1>14 DEF Local!WriteConfig, Local!Ended, Local!Fault, Local!disks, Local!platform, Local!counts
      <4> QED
        BY <1>b, <4>1, <4>2, CountsUp
    <3> QED
      BY <1>c, <2>0, <3>16 DEF LocalCounts
  <2> QED
    BY <2>1, <2>2, <2>3, <2>4, <2>5, <2>6, LocalTypeParts
<1>15. CASE Local!Finish
  <2>0. UNCHANGED <<r1, r2, r3, r4, r5, r6, r7, r8, r15, r16, r17>>
    BY <1>15 DEF Local!Finish, Local!platform, Local!disks, Local!work, Local!counts
  <2>1. LocalHost'
    BY <1>h, <2>0 DEF LocalHost
  <2>2. LocalDisks'
    BY <1>d, <2>0 DEF LocalDisks
  <2>3. LocalConfig'
    BY <1>y, <2>0 DEF LocalConfig
  <2>4. LocalPlace'
    BY <1>z, <1>15, NoCmdTyped DEF LocalPlace, Local!Finish
  <2>5. LocalFlags'
    BY <1>f, <1>15, <2>0 DEF LocalFlags, Local!Finish, Local!platform, Local!disks, Local!work, Local!counts
  <2>6. LocalCounts'
    BY <1>c, <2>0 DEF LocalCounts
  <2> QED
    BY <2>1, <2>2, <2>3, <2>4, <2>5, <2>6, LocalTypeParts
<1>16. CASE Local!UseStore
  <2>0. UNCHANGED <<r1, r2, r3, r5, r6, r7, r8, r9, r10, r11, r12, r13, r14, r15, r16, r17>>
    BY <1>16 DEF Local!UseStore, Local!platform, Local!work, Local!run, Local!counts
  <2>1. LocalHost'
    BY <1>h, <2>0 DEF LocalHost
  <2>2. LocalDisks'
    <3>1. \E b \in Local!Blocks : r4' = [r4 EXCEPT ![b].data = TRUE]
      BY <1>16 DEF Local!UseStore
    <3>2. r4' \in [Local!Blocks -> Local!Volumes]
      BY <1>d, <3>1 DEF LocalDisks, Local!Volumes
    <3> QED
      BY <1>d, <2>0, <3>2 DEF LocalDisks
  <2>3. LocalConfig'
    BY <1>y, <2>0 DEF LocalConfig
  <2>4. LocalPlace'
    BY <1>p, <2>0 DEF LocalPlace
  <2>5. LocalFlags'
    BY <1>f, <2>0 DEF LocalFlags
  <2>6. LocalCounts'
    BY <1>c, <2>0 DEF LocalCounts
  <2> QED
    BY <2>1, <2>2, <2>3, <2>4, <2>5, <2>6, LocalTypeParts
<1>17. CASE Local!Reboot
  <2>0. UNCHANGED <<r1, r2, r3, r4, r6, r7, r8, r9, r10, r11, r12, r13, r14, r15, r16>>
    BY <1>17 DEF Local!Reboot, Local!platform, Local!work, Local!run
  <2>1. LocalHost'
    BY <1>h, <2>0 DEF LocalHost
  <2>2. LocalDisks'
    <3>1. r5' = [p \in Local!Points |-> <<>>]
      BY <1>17 DEF Local!Reboot
    <3>2. DOMAIN r5' = Local!Points /\ r5'["S"] = <<>> /\ r5'["T"] = <<>>
      BY <3>1 DEF Local!Points
    <3> QED
      BY <1>d, <2>0, <3>2 DEF LocalDisks, Local!Stacks
  <2>3. LocalConfig'
    BY <1>y, <2>0 DEF LocalConfig
  <2>4. LocalPlace'
    BY <1>p, <2>0 DEF LocalPlace
  <2>5. LocalFlags'
    BY <1>f, <2>0 DEF LocalFlags
  <2>6. LocalCounts'
    <3>17. r17' \in 0..MaxReboots
      <4>1. r17 \in 0..MaxReboots
        BY <1>c DEF LocalCounts
      <4>2. r17' = r17 \/ (r17 < MaxReboots /\ r17' = r17 + 1)
        BY <1>17 DEF Local!Reboot, Local!platform, Local!work, Local!run
      <4> QED
        BY <1>b, <4>1, <4>2, CountsUp
    <3> QED
      BY <1>c, <2>0, <3>17 DEF LocalCounts
  <2> QED
    BY <2>1, <2>2, <2>3, <2>4, <2>5, <2>6, LocalTypeParts
<1>18. CASE UNCHANGED Local!vars
  <2>0. UNCHANGED <<r1, r2, r3, r4, r5, r6, r7, r8, r9, r10, r11, r12, r13, r14, r15, r16, r17>>
    BY <1>18 DEF Local!vars, Local!platform, Local!disks, Local!work, Local!run, Local!counts
  <2>1. LocalHost'
    BY <1>h, <2>0 DEF LocalHost
  <2>2. LocalDisks'
    BY <1>d, <2>0 DEF LocalDisks
  <2>3. LocalConfig'
    BY <1>y, <2>0 DEF LocalConfig
  <2>4. LocalPlace'
    BY <1>p, <2>0 DEF LocalPlace
  <2>5. LocalFlags'
    BY <1>f, <2>0 DEF LocalFlags
  <2>6. LocalCounts'
    BY <1>c, <2>0 DEF LocalCounts
  <2> QED
    BY <2>1, <2>2, <2>3, <2>4, <2>5, <2>6, LocalTypeParts
<1> QED
  BY <1>1, <1>2, <1>3, <1>4, <1>5, <1>6, <1>7, <1>8, <1>9, <1>10, <1>11, <1>12, <1>13, <1>14, <1>15, <1>16, <1>17, <1>18 DEF Local!Next

\* Every host init may be run on satisfies the invariant.
LEMMA LocalInitially == Local!Init => Local!IInv
<1> SUFFICES ASSUME Local!Init
             PROVE  Local!IInv
  OBVIOUS
<1>1. PICK d \in {Local!Blank, [fs |-> "ext4", data |-> TRUE], [fs |-> "btrfs", data |-> TRUE]} :
        r4 = [b \in Local!Blocks |-> IF b = "dev" THEN d ELSE Local!NoImage]
  BY DEF Local!Init
<1>2. d \in Local!Volumes /\ d.fs \in {"", "ext4", "btrfs"} /\ (d.fs = "" => d.data = FALSE)
  <2>1. CASE d = Local!Blank
    BY <2>1, VolumesMade
  <2>2. CASE d = [fs |-> "ext4", data |-> TRUE]
    BY <2>2 DEF Local!Volumes
  <2>3. CASE d = [fs |-> "btrfs", data |-> TRUE]
    BY <2>3 DEF Local!Volumes
  <2> QED
    BY <2>1, <2>2, <2>3
<1>3. /\ r4 \in [Local!Blocks -> Local!Volumes] /\ r4["dev"] = d
      /\ \A b \in Local!Images : r4[b] = Local!NoImage
  BY <1>1, <1>2, VolumesMade DEF Local!Blocks, Local!Images
<1>4. /\ r5 \in [Local!Points -> {<<>>, <<"foreign">>, <<"dev">>}]
      /\ r5["S"] # <<"dev">> /\ r5["T"] # <<"foreign">>
      /\ r5["T"] # <<>> => r4["dev"].fs # ""
  BY DEF Local!Init
<1>5. DOMAIN r5 = Local!Points /\ r5["S"] \in {<<>>, <<"foreign">>} /\ r5["T"] \in {<<>>, <<"dev">>}
  BY <1>4 DEF Local!Points
<1>6. LocalDisks
  BY <1>3, <1>5 DEF LocalDisks, Local!Stacks
<1>7. LocalHost /\ LocalConfig /\ LocalFlags
  BY DEF Local!Init, LocalHost, LocalConfig, LocalFlags
<1>8. LocalPlace
  BY NoCmdTyped DEF Local!Init, LocalPlace, Local!Steps
<1>9. LocalCounts
  <2>1. InitCmds \in Nat /\ MaxFaults \in Nat /\ MaxReboots \in Nat
    BY BoundsAssumption, ProcessAssumption
  <2>2. r15 = 0 /\ r16 = 0 /\ r17 = 0
    BY DEF Local!Init
  <2> QED
    BY <2>1, <2>2 DEF LocalCounts
<1>10. Local!TypeOK
  BY <1>6, <1>7, <1>8, <1>9, LocalTypeParts
<1>11. Local!MountsSound
  <2>1. ASSUME NEW b \in Local!Blocks
        PROVE  r5["S"] \notin {<<b>>, <<b, "foreign">>}
    BY <1>5, StacksDiffer
  <2>2. "inner" \in Local!Images /\ \A b \in Local!Blocks : b = "dev" \/ b \in Local!Images
    BY DEF Local!Images, Local!Blocks
  <2>3. r4["inner"].fs = "absent" /\ \A b \in Local!Images : r4[b].fs = "absent" /\ r4[b].data = FALSE
    BY <1>3, <2>2, VolumesMade
  <2>4. r5["T"] # <<>> => r4["dev"].fs \in {"ext4", "btrfs"}
    BY <1>2, <1>3, <1>4
  <2>5. \A b \in Local!Blocks : r4[b].fs \in {"absent", ""} => ~r4[b].data
    BY <1>2, <1>3, <2>2, <2>3
  <2>6. r4["dev"].fs # "absent" /\ \A b \in Local!Images : r4[b].fs # "ext4"
    BY <1>2, <1>3, <2>3
  <2> QED
    BY <2>1, <2>3, <2>4, <2>5, <2>6 DEF Local!MountsSound
<1>12. LocalSteps /\ LocalStrict /\ Local!RerunSucceeds
  <2>1. r10 = "idle" /\ r11 = FALSE /\ r9 = Local!NoCmd
    BY DEF Local!Init
  <2> QED
    BY <2>1 DEF LocalSteps, LocalStrict, Local!RerunSucceeds, Local!NoCmd, Local!LoopSteps, Local!DeviceSteps
<1> QED
  BY <1>10, <1>11, <1>12, LocalMeans DEF Local!IInv

\* Through failures, kills and reboots, the invariant holds.
LEMMA LocalInductive == Local!Spec => []Local!IInv
<1>1. Local!IInv /\ [Local!Next]_(Local!vars) => Local!IInv'
  BY LocalTypeStep, LocalSoundStep, LocalMeans DEF LocalSound, Local!IInv
<1> QED
  BY <1>1, LocalInitially, PTL DEF Local!Spec

\* InitRepeatable on Linux: a command none of whose external commands fails ends in
\* error only over a foreign file system or mount or before it does anything, whatever
\* earlier commands left behind; and with --snapshot btrfs the store path it wrote to
\* config.yaml is on btrfs.
THEOREM InitsRepeatable == Local!Spec => []InitRepeatable
<1>1. Local!IInv => InitRepeatable
  BY DEF Local!IInv, InitRepeatable
<1> QED
  BY <1>1, LocalInductive, PTL

\* A step that gives up data on a block belongs to an init with --reinit, or formats a
\* device that blkid could not read.
LEMMA DataKeptStep == Local!IInv /\ [Local!Next]_(Local!vars) => Local!DataKept
<1> SUFFICES ASSUME Local!IInv, [Local!Next]_(Local!vars),
                    NEW b \in Local!Blocks, r4[b].data, ~r4'[b].data
             PROVE  r9.reinit \/ (b = "dev" /\ ~r2)
  BY DEF Local!DataKept
<1>1. LocalSteps /\ Local!MountsSound /\ r4 \in [Local!Blocks -> Local!Volumes]
  BY LocalMeans, LocalTypeParts DEF Local!IInv, LocalDisks
<1>2. r4' # r4 /\ r4[b].fs \notin {"absent", ""}
  BY <1>1 DEF Local!MountsSound
<1>3. ASSUME NEW c \in Local!Blocks, NEW v, r4' = [r4 EXCEPT ![c] = v]
      PROVE  c = b
  BY <1>1, <1>3
<1>4. CASE Local!RemoveImage
  BY <1>1, <1>2, <1>4 DEF Local!RemoveImage, LocalSteps
<1>5. CASE Local!EnsureLoopImage
  <2>1. Local!PlanBlock \in Local!Blocks
    BY <1>1, <1>5, PlannedImage DEF Local!EnsureLoopImage, LocalSteps, Local!LoopSteps, Local!DeviceSteps
  <2>2. r4' = [r4 EXCEPT ![Local!PlanBlock] = Local!Blank] /\ r4[Local!PlanBlock].fs = "absent"
    BY <1>2, <1>5 DEF Local!EnsureLoopImage
  <2> QED
    BY <1>2, <1>3, <2>1, <2>2
<1>6. CASE Local!FormatImage
  <2>1. Local!PlanBlock \in Local!Blocks /\ Local!PlanBlock # "dev"
    BY <1>1, <1>6, PlannedImage DEF Local!FormatImage, LocalSteps, Local!LoopSteps, Local!DeviceSteps
  <2>2. /\ \E v : r4' = [r4 EXCEPT ![Local!PlanBlock] = v]
        /\ Local!NeedsFormat(Local!PlanBlock) /\ Local!MayFormat(Local!PlanBlock)
    BY <1>2, <1>6 DEF Local!FormatImage, Local!FormatBlock
  <2>3. Local!PlanBlock = b
    BY <1>3, <2>1, <2>2
  <2>4. r11 \/ r9.reinit
    BY <1>2, <2>1, <2>2, <2>3 DEF Local!MayFormat, Local!DetectBlockFSType
  <2>5. r11 => r4[Local!PlanBlock].fs = ""
    BY <1>1, <1>6 DEF Local!FormatImage, LocalSteps
  <2> QED
    BY <1>2, <2>3, <2>4, <2>5
<1>7. CASE Local!FormatDevice
  <2>1. "dev" \in Local!Blocks
    BY DEF Local!Blocks
  <2>2. /\ \E v : r4' = [r4 EXCEPT !["dev"] = v]
        /\ Local!NeedsFormat("dev") /\ Local!MayFormat("dev")
    BY <1>2, <1>7 DEF Local!FormatDevice, Local!FormatBlock
  <2>3. b = "dev"
    BY <1>3, <2>1, <2>2
  <2>4. ~r11
    BY <1>1, <1>7 DEF Local!FormatDevice, LocalSteps, Local!DeviceSteps
  <2> QED
    BY <1>2, <2>2, <2>3, <2>4 DEF Local!MayFormat, Local!DetectBlockFSType
<1>8. CASE Local!UseStore
  <2>1. \E c \in Local!Blocks : r4' = [r4 EXCEPT ![c].data = TRUE]
    BY <1>8 DEF Local!UseStore
  <2> QED
    BY <1>1, <2>1 DEF Local!Volumes
<1>9. CASE \/ Local!RunInit \/ Local!InitWSL \/ Local!StrictBegin \/ Local!Unmount \/ Local!MountImage
           \/ Local!SourceMount \/ Local!MountDevice \/ Local!OwnAndVerify \/ Local!MakeMarker
           \/ Local!WriteConfig \/ Local!Finish \/ Local!Reboot \/ UNCHANGED Local!vars
  BY <1>2, <1>9
  DEF Local!RunInit, Local!InitWSL, Local!StrictBegin, Local!Unmount, Local!MountImage,
      Local!SourceMount, Local!MountDevice, Local!OwnAndVerify, Local!MakeMarker,
      Local!WriteConfig, Local!Finish, Local!Reboot, Local!disks, Local!vars
<1> QED
  BY <1>4, <1>5, <1>6, <1>7, <1>8, <1>9 DEF Local!Next

-----------------------------------------------------------------------------
(* Both.                                                                   *)

\* DataKept on either platform: whatever failed, was killed or rebooted before, data in
\* a store is given up only by an init with --reinit (or over a device that blkid could
\* not read because init does not run as root).
THEOREM InitsKeepData == (Local!Spec /\ []InLocal) \/ (WSL!Spec /\ []InWSL) => DataKept
<1>1. InLocal /\ Local!IInv /\ [Local!Next]_(Local!vars) =>
        [(InLocal => Local!DataKept) /\ (InWSL => WSL!VhdxKept)]_all
  BY DataKeptStep DEF InLocal, InWSL
<1>2. InWSL /\ WSL!IInv /\ [WSL!Next]_(WSL!vars) =>
        [(InLocal => Local!DataKept) /\ (InWSL => WSL!VhdxKept)]_all
  BY VhdxKeptStep DEF InLocal, InWSL
<1>3. Local!Spec /\ []InLocal => DataKept
  BY <1>1, LocalInductive, PTL DEF Local!Spec, DataKept
<1>4. WSL!Spec /\ []InWSL => DataKept
  BY <1>2, WSLInductive, PTL DEF WSL!Spec, DataKept
<1> QED
  BY <1>3, <1>4
=============================================================================
