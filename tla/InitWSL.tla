------------------------------ MODULE InitWSL ------------------------------
(***************************************************************************)
(* The btrfs store of a Windows host: `sqlrs init` creates a VHDX, attaches*)
(* it to WSL, formats its partition, installs a systemd mount unit and     *)
(* creates the subvolumes (app/init_wsl*.go); later commands re-attach and *)
(* re-mount it after a WSL restart before they start the engine            *)
(* (ensureWSLStoreMount of daemon/orchestrator.go).                        *)
(*                                                                         *)
(* Every wsl.exe or PowerShell call may fail, the init process may be      *)
(* killed between any two of them, WSL may be restarted between commands,  *)
(* and another disk of some size may be attached to WSL.                   *)
(***************************************************************************)
EXTENDS Naturals

CONSTANTS MaxCmds, MaxFaults, MaxRestarts

VARIABLES
    vhdx,       \* [there, size, part, fs, data, sub, gen] of our disk image
    alien,      \* the same for a disk of somebody else, always attached
    attached,   \* our VHDX is attached to WSL
    mounted,    \* disk mounted on the state directory, or "none"
    unit,       \* mount unit: [disk, gen] it names, or NoUnit
    enabled,    \* systemctl enable
    cfg,        \* engine.wsl and engine.storePath of config.yaml, or NoUnit
    reads,      \* the distro's default user may read block devices (blkid)
    cmd, pc, created, disk, fault, result,
    engine,     \* where the engine last started: [disk, gen]
    cmds, faults, restarts

host   == <<vhdx, alien, attached, mounted, unit, enabled>>
local  == <<cmd, created, disk>>
counts == <<cmds, faults, restarts>>
vars   == <<host, cfg, reads, local, pc, fault, result, engine, counts>>

NoUnit == [disk |-> "none", gen |-> 0]
NotStarted == [disk |-> "never", gen |-> 0]
Sizes == 1..2      \* 1 is the default of 100 GB

NoDisk == [there |-> FALSE, size |-> 1, part |-> FALSE, fs |-> "", data |-> FALSE,
           sub |-> FALSE, gen |-> 0]
Disk(d) == IF d = "ours" THEN vhdx ELSE alien

Disks == [there : BOOLEAN, size : Sizes, part : BOOLEAN, fs : {"", "ext4", "btrfs"},
          data : BOOLEAN, sub : BOOLEAN, gen : Nat]
Units == [disk : {"none", "ours", "alien"}, gen : Nat]

\* The steps of an init: giving up an old store, then preparing a disk, then using it.
ReinitSteps == {"rmunit", "umount", "detach", "rmvhdx"}
DiskSteps   == {"find", "partition", "attach", "refind", "format"}
UnitSteps   == {"unit", "mount", "subvolumes"}
Steps       == {"idle", "bootstrap", "vhdx", "done"} \cup ReinitSteps \cup DiskSteps \cup UnitSteps

\* Names of disks a later step may look up; by UUID (generation) or by path.
Present(u, att) ==
    /\ u.disk # "none"
    /\ u.disk = "ours" => att /\ vhdx.there
    /\ Disk(u.disk).part
    /\ u.gen \in {0, Disk(u.disk).gen}

\* The state of the disk after a new file system was made on it.
Formatted(d) == [d EXCEPT !.fs = "btrfs", !.data = FALSE, !.sub = FALSE, !.gen = @ + 1]

\* wipefs went through and mkfs.btrfs did not.
Wiped(d) == [d EXCEPT !.fs = "", !.data = FALSE, !.sub = FALSE]

Commands == [reinit : BOOLEAN, require : BOOLEAN, size : Sizes]
NoCmd == [reinit |-> FALSE, require |-> FALSE, size |-> 1]

Init ==
    /\ vhdx = NoDisk
    /\ alien \in {NoDisk} \cup
         [there : {TRUE}, size : {1}, part : {TRUE}, fs : {"", "ext4", "btrfs"},
          data : BOOLEAN, sub : {FALSE}, gen : {5}]
    /\ alien.data => alien.fs # ""
    /\ attached = FALSE /\ mounted = "none" /\ unit = NoUnit /\ enabled = FALSE
    /\ cfg = NoUnit
    /\ reads \in BOOLEAN
    /\ cmd = NoCmd /\ pc = "idle" /\ created = FALSE /\ disk = "none"
    /\ fault = FALSE /\ result = "none" /\ engine = NotStarted
    /\ cmds = 0 /\ faults = 0 /\ restarts = 0

-----------------------------------------------------------------------------
Goto(next) == /\ pc' = next
              /\ UNCHANGED <<cfg, reads, fault, result, engine, counts>>
\* wslUnavailable: an error where WSL is required, otherwise a warning and a
\* plain directory store; either way config.yaml names no WSL store.
Unavailable == /\ pc' = "done" /\ result' = IF cmd.require THEN "fail" ELSE "degraded"
               /\ UNCHANGED <<cfg, reads, engine>>
\* runWSLCommand / runHostCommand fail (or the process is killed).
Fault == /\ faults < MaxFaults /\ faults' = faults + 1 /\ fault' = TRUE
         /\ Unavailable /\ UNCHANGED <<cmds, restarts, host, local>>
Refuse == Unavailable /\ UNCHANGED <<fault, counts, host, local>>
\* A failing command whose error the code only logs.
Ignored == faults < MaxFaults /\ faults' = faults + 1 /\ UNCHANGED <<cmds, restarts>>

\* runInit -> initWSL; `require` is `--snapshot btrfs` or an explicit store.
Start ==
    /\ pc = "idle" /\ cmds < MaxCmds
    /\ cmd' \in Commands
    /\ pc' = "bootstrap" /\ cmds' = cmds + 1
    /\ UNCHANGED <<host, cfg, reads, created, disk, fault, result, engine, faults, restarts>>

\* bootstrapWSLInit: distro, kernel module, btrfs-progs, nsenter, systemd;
\* the Docker checks only warn.  Then the elevation check and the names of
\* the state directory and of its unit.
Bootstrap ==
    /\ pc = "bootstrap"
    /\ Fault \/ (Goto(IF cmd.reinit THEN "rmunit" ELSE "vhdx") /\ UNCHANGED <<host, local>>)

-----------------------------------------------------------------------------
(* reinitWSLStore                                                          *)
\* removeSystemdMountUnit: a failing stop leaves the mount, a failing rm the
\* unit; both are ignored.
RemoveUnit ==
    /\ pc = "rmunit"
    /\ \/ /\ mounted' = "none" /\ unit' = NoUnit /\ enabled' = FALSE
          /\ Goto("umount")
       \/ /\ Ignored /\ UNCHANGED <<cfg, reads, fault, result, engine>>
          /\ pc' = "umount"
          /\ \/ mounted' = mounted /\ unit' = NoUnit /\ enabled' = FALSE
             \/ mounted' = "none" /\ unit' = unit /\ enabled' = FALSE
             \/ mounted' = "none" /\ unit' = NoUnit /\ enabled' = enabled
    /\ UNCHANGED <<vhdx, alien, attached, local>>

\* umount's exit status 32 reads as "not mounted", which a busy mount has too.
UnmountState ==
    /\ pc = "umount"
    /\ \/ Fault
       \/ Ignored /\ mounted # "none" /\ pc' = "detach"
          /\ UNCHANGED <<host, local, cfg, reads, fault, result, engine>>
       \/ mounted' = "none" /\ Goto("detach") /\ UNCHANGED <<vhdx, alien, attached, unit, enabled, local>>

\* wsl.exe --unmount and Dismount-VHD, both ignored; a disk in use stays.
Detach ==
    /\ pc = "detach"
    /\ \/ attached' = (attached /\ mounted = "ours") /\ Goto("rmvhdx")
       \/ Ignored /\ attached' = attached /\ pc' = "rmvhdx"
          /\ UNCHANGED <<cfg, reads, fault, result, engine>>
    /\ UNCHANGED <<vhdx, alien, mounted, unit, enabled, local>>

\* os.Remove: Windows refuses while WSL holds the file.
RemoveVHDX ==
    /\ pc = "rmvhdx"
    /\ \/ attached /\ Refuse
       \/ Fault
       \/ /\ ~attached /\ vhdx' = [NoDisk EXCEPT !.gen = vhdx.gen] /\ Goto("vhdx")
          /\ UNCHANGED <<alien, attached, mounted, unit, enabled, local>>

-----------------------------------------------------------------------------
(* prepareWSLStorage                                                       *)
EnsureHostVHDX ==
    /\ pc = "vhdx"
    /\ \/ Fault
       \/ /\ vhdx.there /\ Goto("find") /\ UNCHANGED <<host, local>>
       \/ /\ ~vhdx.there
          /\ vhdx' = [vhdx EXCEPT !.there = TRUE, !.size = cmd.size]
          /\ created' = TRUE
          /\ Goto("find") /\ UNCHANGED <<alien, attached, mounted, unit, enabled, cmd, disk>>

\* findWSLDisk / selectDiskBySize: by size only.
Candidates == {d \in {"ours", "alien"} :
                 /\ Disk(d).there /\ Disk(d).size = cmd.size
                 /\ d = "ours" => attached}

Find ==
    /\ pc = "find"
    /\ \/ Fault
       \/ Candidates = {"ours", "alien"} /\ Refuse
       \/ Candidates = {} /\ Goto("partition") /\ UNCHANGED <<host, local>>
       \/ /\ Candidates \in {{"ours"}, {"alien"}}
          /\ disk' = CHOOSE d \in Candidates : TRUE
          /\ Goto("format") /\ UNCHANGED <<host, cmd, created>>

\* ensureHostGPTPartition: an attached VHDX is in use.
Partition ==
    /\ pc = "partition"
    /\ \/ Fault
       \/ attached /\ Refuse
       \/ /\ ~attached /\ vhdx' = [vhdx EXCEPT !.part = TRUE]
          /\ Goto("attach") /\ UNCHANGED <<alien, attached, mounted, unit, enabled, local>>

Attach ==
    /\ pc = "attach"
    /\ \/ Fault
       \/ attached' = TRUE /\ Goto("refind") /\ UNCHANGED <<vhdx, alien, mounted, unit, enabled, local>>

\* The second findWSLDisk: a VHDX of another size is still not found.
Refind ==
    /\ pc = "refind"
    /\ \/ Fault
       \/ Candidates # {"ours"} /\ Refuse
       \/ /\ Candidates = {"ours"} /\ disk' = "ours"
          /\ Goto("format") /\ UNCHANGED <<host, cmd, created>>

\* ensureBtrfsOnPartition: a mounted btrfs is taken as it is; `blkid` runs
\* as the default user and may not see the type.
Detected == IF reads THEN Disk(disk).fs ELSE "unreadable"
AllowFormat == created \/ cmd.reinit \/ Detected = ""

EnsureBtrfs ==
    /\ pc = "format"
    /\ \/ Fault
       \/ ~Disk(disk).part /\ Refuse
       \/ /\ Disk(disk).part /\ mounted # disk /\ Detected # "btrfs" /\ AllowFormat
          /\ faults < MaxFaults /\ faults' = faults + 1 /\ fault' = TRUE /\ Unavailable
          /\ vhdx' = IF disk = "ours" THEN Wiped(vhdx) ELSE vhdx
          /\ alien' = IF disk = "alien" THEN Wiped(alien) ELSE alien
          /\ UNCHANGED <<attached, mounted, unit, enabled, local, cmds, restarts>>
       \/ /\ Disk(disk).part
          /\ \/ /\ (mounted = disk \/ Detected = "btrfs") /\ Disk(disk).fs = "btrfs"
                /\ Goto("unit") /\ UNCHANGED <<host, local>>
             \/ /\ ~(mounted = disk) /\ Detected # "btrfs" /\ ~AllowFormat /\ Refuse
             \/ /\ ~(mounted = disk) /\ Detected # "btrfs" /\ AllowFormat
                /\ vhdx' = IF disk = "ours" THEN Formatted(vhdx) ELSE vhdx
                /\ alien' = IF disk = "alien" THEN Formatted(alien) ELSE alien
                /\ Goto("unit") /\ UNCHANGED <<attached, mounted, unit, enabled, local>>

-----------------------------------------------------------------------------
(* finalizeWSLMount                                                        *)
\* resolveWSLPartitionUUID; installSystemdMountUnit writes the unit (by UUID,
\* or by partition where the UUID is not available) and enables it.
InstallUnit ==
    /\ pc = "unit"
    /\ \/ Fault
       \/ /\ unit' \in {[disk |-> disk, gen |-> Disk(disk).gen], [disk |-> disk, gen |-> 0]}
          /\ \/ enabled' = TRUE /\ Goto("mount")
             \/ /\ faults < MaxFaults /\ faults' = faults + 1 /\ fault' = TRUE
                /\ enabled' = enabled /\ Unavailable /\ UNCHANGED <<cmds, restarts>>
          /\ UNCHANGED <<vhdx, alien, attached, mounted, local>>

\* ensureSystemdMountUnitActive and waitForMountFSType.
MountState ==
    /\ pc = "mount"
    /\ \/ Fault
       \/ /\ IF mounted # "none" THEN UNCHANGED mounted ELSE mounted' = unit.disk
          /\ Goto("subvolumes") /\ UNCHANGED <<vhdx, alien, attached, unit, enabled, local>>

\* ensureBtrfsSubvolumes and ensureBtrfsOwnership; runInit writes config.yaml.
\* The configuration keeps the VHDX path and the unit of the state directory.
Subvolumes ==
    /\ pc = "subvolumes"
    /\ \/ Fault
       \/ /\ vhdx' = IF mounted = "ours" THEN [vhdx EXCEPT !.sub = TRUE] ELSE vhdx
          /\ alien' = IF mounted = "alien" THEN [alien EXCEPT !.sub = TRUE] ELSE alien
          /\ pc' = "done" /\ result' = "ok"
          /\ cfg' = [disk |-> disk, gen |-> Disk(disk).gen]
          /\ UNCHANGED <<attached, mounted, unit, enabled, local, reads, fault, engine, counts>>

Finish ==
    /\ pc = "done"
    /\ pc' = "idle" /\ cmd' = NoCmd /\ created' = FALSE /\ disk' = "none"
    /\ fault' = FALSE /\ result' = "none"
    /\ UNCHANGED <<host, cfg, reads, engine, counts>>

-----------------------------------------------------------------------------
\* wsl.exe --shutdown: the VHDX is detached; an enabled unit is started at
\* the next boot of the distro if its device is there.
Restart ==
    /\ pc = "idle" /\ restarts < MaxRestarts /\ restarts' = restarts + 1
    /\ attached' = FALSE
    /\ mounted' = IF enabled /\ Present(unit, FALSE) THEN unit.disk ELSE "none"
    /\ UNCHANGED <<vhdx, alien, unit, enabled, cfg, reads, local, pc, fault, result, engine,
                   cmds, faults>>

\* ensureWSLStoreMount before the engine is started: the unit is started,
\* the VHDX attached if that fails, and the mount must be btrfs.  A command
\* that fails on the way may leave the VHDX attached.
EnsureStoreMount ==
    LET att == attached \/ (mounted = "none" /\ ~Present(unit, attached) /\ vhdx.there)
        up  == IF mounted # "none" THEN mounted ELSE
               IF Present(unit, att) /\ Disk(unit.disk).fs = "btrfs" THEN unit.disk ELSE "none"
    IN [attached |-> att, mounted |-> up]

VerifyMount_Skipped(m) == TRUE    \* mutant: what is mounted is not looked at
VerifyMount(m) == m # "none" /\ Disk(m).fs = "btrfs"

StartEngine ==
    /\ pc = "idle" /\ cfg # NoUnit
    /\ LET r == EnsureStoreMount IN
       /\ attached' = r.attached /\ mounted' = r.mounted
       /\ IF VerifyMount(r.mounted)
          THEN /\ engine' = [disk |-> r.mounted, gen |-> Disk(r.mounted).gen]
               /\ vhdx' = IF r.mounted = "ours" THEN [vhdx EXCEPT !.data = TRUE] ELSE vhdx
               /\ alien' = IF r.mounted = "alien" THEN [alien EXCEPT !.data = TRUE] ELSE alien
          ELSE UNCHANGED <<engine, vhdx, alien>>
    /\ UNCHANGED <<unit, enabled, cfg, reads, local, pc, fault, result, counts>>

Next ==
    \/ Start \/ Bootstrap \/ RemoveUnit \/ UnmountState \/ Detach \/ RemoveVHDX
    \/ EnsureHostVHDX \/ Find \/ Partition \/ Attach \/ Refind \/ EnsureBtrfs
    \/ InstallUnit \/ MountState \/ Subvolumes \/ Finish \/ Restart \/ StartEngine

Spec == Init /\ [][Next]_vars

-----------------------------------------------------------------------------
\* Types of the variables.
TypeOK ==
    /\ vhdx \in Disks /\ alien \in Disks /\ unit \in Units /\ cfg \in Units
    /\ mounted \in {"none", "ours", "alien"} /\ disk \in {"none", "ours", "alien"}
    /\ vhdx.fs # "ext4" /\ (vhdx.data => vhdx.fs = "btrfs")
    /\ vhdx.there \/ (vhdx.fs = "" /\ ~vhdx.part)
    /\ {attached, enabled, reads, created, fault} \subseteq BOOLEAN
    /\ pc \in Steps /\ result \in {"none", "ok", "fail", "degraded"} /\ cmd \in Commands
    /\ cmds \in 0..MaxCmds /\ faults \in 0..MaxFaults /\ restarts \in 0..MaxRestarts

\* Data the engine keeps on the VHDX is given up only by an init with
\* --reinit, whatever failed or was restarted before.
VhdxKept == vhdx.data /\ ~vhdx'.data => cmd.reinit

\* When init reports a WSL store, the state directory is mounted from the
\* disk config.yaml stands for (unless another disk has the size of the
\* store), as btrfs, with its subvolumes; after --reinit nothing of the old
\* store is left on it.
InitReady ==
    result = "ok" =>
        /\ mounted # "none" /\ Disk(mounted).fs = "btrfs" /\ Disk(mounted).sub
        /\ mounted = cfg.disk \/ alien.there
        /\ cmd.reinit /\ mounted = "ours" => ~vhdx.data

\* Unless another disk has the size of the store, the engine only ever runs
\* on the VHDX, on a btrfs file system some init made.
EngineOnStore == engine # NotStarted /\ ~alien.there => engine.disk = "ours" /\ engine.gen > 0

\* What keeps the two: what is mounted is attached, there and btrfs, and an alien disk
\* is used only where there is one.
MountsSound ==
    /\ attached => vhdx.there
    /\ mounted = "ours" => attached
    /\ mounted # "none" => Disk(mounted).fs = "btrfs"
    /\ "alien" \in {mounted, unit.disk, disk} => alien.there
    /\ vhdx.fs = "btrfs" => vhdx.gen > 0

\* A unit that starts at boot names a btrfs disk: an init that may format has disabled
\* or removed the unit of the store it gives up.
StartsAtBoot == enabled /\ unit.disk # "none"

UnitsSound ==
    /\ StartsAtBoot => vhdx.there /\ Disk(unit.disk).fs = "btrfs"
    /\ cmd.reinit /\ pc \in (ReinitSteps \ {"rmunit"}) \cup DiskSteps \cup {"vhdx", "unit"}
         => ~StartsAtBoot
    /\ created /\ pc \in DiskSteps \cup {"unit"} => ~StartsAtBoot

\* Where an init is tells what it has made sure of.
StepsSound ==
    /\ pc \in ReinitSteps => cmd.reinit
    /\ pc \in {"idle", "bootstrap", "vhdx"} \cup ReinitSteps => ~created
    /\ created => ~vhdx.data
    /\ cmd.reinit /\ pc \in {"vhdx"} \cup DiskSteps \cup UnitSteps => ~vhdx.data
    /\ pc \in DiskSteps \cup UnitSteps => vhdx.there
    /\ pc \in {"format"} \cup UnitSteps => disk # "none" /\ (disk = "ours" => attached)
    /\ pc \in UnitSteps => Disk(disk).fs = "btrfs"
    /\ pc = "mount" => unit.disk = disk
    /\ pc = "subvolumes" => mounted # "none"
    /\ result = "ok" => pc = "done"

IInv ==
    /\ TypeOK /\ MountsSound /\ UnitsSound /\ StepsSound
    /\ InitReady /\ EngineOnStore
=============================================================================
