----------------------------- MODULE InitLocal -----------------------------
(***************************************************************************)
(* `sqlrs init`: the workspace marker and config.yaml (app/init.go), and   *)
(* the provisioning of a btrfs store on Linux (app/init_btrfs_linux.go).   *)
(*                                                                         *)
(* A user runs init again and again, with any flags the parser accepts;    *)
(* every external command (truncate, mkfs, mount, umount, chown) may fail  *)
(* or the process may be killed before it, a reboot drops every mount, and *)
(* the engine writes data into a mounted store in between.                 *)
(*                                                                         *)
(* Paths are the ones the code derives from the default store root S: the  *)
(* image S/btrfs.img of `--store image` ("inner", hidden while something   *)
(* is mounted on S), S.btrfs.img of `--store dir` ("beside"), a device     *)
(* /dev/... ("dev") that is mounted on S, or was mounted by somebody else  *)
(* on T.  "stray" is what S/btrfs.img names while a foreign file system is *)
(* mounted on S.                                                           *)
(***************************************************************************)
EXTENDS Naturals, Sequences

CONSTANTS MaxCmds,     \* init commands
          MaxFaults,   \* failing external commands and kills
          MaxReboots

VARIABLES
    goos, root,        \* runtime.GOOS; Geteuid() = 0
    hostfs,            \* file system of S when nothing is mounted on it
    blk,               \* [block -> [fs, data]]
    mnt,               \* [mount point -> stack of mounted blocks]
    parent,            \* a directory above is a workspace
    marker, config,    \* .sqlrs directory and config.yaml
    cmd, pc,           \* flags and program counter of the running command
    created, store,    \* ensureLoopImage created the image; store path
    fault, result,     \* an external command failed; outcome
    cmds, faults, reboots

platform == <<goos, root, hostfs, parent>>
disks    == <<blk, mnt>>
work     == <<marker, config>>
run      == <<cmd, pc, created, store, fault, result>>
counts   == <<cmds, faults, reboots>>
vars     == <<platform, disks, work, run, counts>>

-----------------------------------------------------------------------------
Images == {"inner", "beside", "stray"}
Blocks == Images \cup {"dev"}
Points == {"S", "T"}
NoImage == [fs |-> "absent", data |-> FALSE]
Blank   == [fs |-> "", data |-> FALSE]
Volumes == [fs : {"absent", "", "ext4", "btrfs"}, data : BOOLEAN]
\* A store is mounted on the bare directory, or over the foreign file system.
Stacks  == {<<>>, <<"foreign">>} \cup {<<b>> : b \in Blocks} \cup {<<b, "foreign">> : b \in Blocks}
NoConfig == [kind |-> "none"]
Corrupt  == [kind |-> "corrupt"]
Configs  == [kind : {"ok"}, backend : {"auto", "btrfs", "overlay", "copy"},
             path : {"none", "S", "T", "image", "dev", "vhdx"}, wsl : BOOLEAN, remote : BOOLEAN]
LoopSteps   == {"unmount", "remove", "image", "format", "mount"}
DeviceSteps == {"device", "devformat", "devmount"}
Steps == {"idle", "wsl", "strict", "own", "marker", "write", "done"} \cup LoopSteps \cup DeviceSteps

Flags == [snapshot : {"", "auto", "btrfs", "overlay", "copy"},
          store : {"", "dir", "image", "device"},
          reinit : BOOLEAN, update : BOOLEAN, dry : BOOLEAN,
          also : {"", "force", "elf", "exe", "remote"}]
NoCmd == [snapshot |-> "", store |-> "", reinit |-> FALSE, update |-> FALSE,
          dry |-> FALSE, also |-> ""]

\* `also` is one further flag: --force, --engine with a Linux or a Windows
\* binary, or the remote mode with its --url and --token.  The commands tried
\* combine it with the plain and the btrfs init only.
Tried(o) == o.also # "" => o.store = "" /\ ~o.reinit /\ o.snapshot \in {"", "btrfs"}

Auto(o) == o.snapshot \in {"", "auto"}

\* parseInitFlags: which combinations are accepted.
ParseInitFlags(o) ==
    /\ o.also = "remote" => o.snapshot = "" /\ o.store = "" /\ ~o.reinit
    /\ o.store \in {"image", "device"} => o.snapshot \notin {"overlay", "copy"}
    /\ o.reinit => o.snapshot \notin {"overlay", "copy"}
    /\ o.snapshot = "overlay" => goos = "linux"
    /\ goos = "darwin" => /\ o.snapshot # "btrfs"
                          /\ ~(o.store \in {"image", "device"} /\ Auto(o))
    /\ ~(goos = "windows" /\ o.snapshot = "btrfs" /\ o.store = "dir")

HasUpdateFlags(o) == o.also \in {"elf", "exe", "remote"} \/ o.snapshot # "" \/ o.store # "" \/ o.reinit

\* The file system a statfs of mount point p reports.
FsAt(p) == IF mnt[p] = <<>> THEN hostfs ELSE
           IF Head(mnt[p]) = "foreign" THEN "ext4" ELSE blk[Head(mnt[p])].fs
OnBtrfs(p) == FsAt(p) = "btrfs"

\* resolveStoreType
StoreType(o) ==
    IF o.store # "" THEN o.store ELSE
    CASE o.snapshot = "btrfs" /\ goos = "linux" -> (IF OnBtrfs("S") THEN "dir" ELSE "image")
      [] goos = "windows" /\ (o.snapshot = "btrfs" \/ Auto(o)) -> "image"
      [] OTHER -> "dir"

\* resolveStorePath: the path config.yaml would name without provisioning.
StorePath(type) ==
    CASE type = "dir" -> "S" [] type = "image" -> "image" [] OTHER -> "dev"

\* shouldUseWSL
UseWSL(o) == o.also # "remote" /\ goos = "windows" /\ StoreType(o) # "dir" /\ (Auto(o) \/ o.snapshot = "btrfs")
RequireWSL(o) == o.snapshot = "btrfs" \/ o.store # ""

\* validateLinuxEngineBinaryForWSL
EngineIsLinux(o) == o.also # "exe"

ShouldRunStrictBtrfsInit(o) == o.snapshot = "btrfs" /\ ~o.dry

\* planLocalBtrfsStore: the block that backs the store, given the path resolved
\* when the command began.
PlanBlock ==
    CASE store = "dev" -> "dev"
      [] store = "S" -> "beside"
      [] OTHER -> IF mnt["S"] # <<>> THEN "stray" ELSE "inner"

Init ==
    /\ goos \in {"linux", "windows", "darwin"}
    /\ root \in BOOLEAN
    /\ hostfs \in {"ext4", "btrfs"}
    /\ \E d \in {Blank, [fs |-> "ext4", data |-> TRUE], [fs |-> "btrfs", data |-> TRUE]} :
         blk = [b \in Blocks |-> IF b = "dev" THEN d ELSE NoImage]
    /\ mnt \in [Points -> {<<>>, <<"foreign">>, <<"dev">>}]
    /\ mnt["S"] # <<"dev">> /\ mnt["T"] # <<"foreign">>
    /\ mnt["T"] # <<>> => blk["dev"].fs # ""
    /\ goos # "linux" => root /\ hostfs = "ext4" /\ mnt["S"] = <<>> /\ blk["dev"] = Blank
    /\ marker \in BOOLEAN /\ parent \in BOOLEAN
    /\ parent => hostfs = "ext4" /\ mnt["S"] = <<>> /\ blk["dev"] = Blank
    /\ config \in {NoConfig, Corrupt}
    /\ config # NoConfig => marker
    /\ cmd = NoCmd /\ pc = "idle" /\ created = FALSE /\ store = "none"
    /\ fault = FALSE /\ result = "none"
    /\ cmds = 0 /\ faults = 0 /\ reboots = 0

-----------------------------------------------------------------------------
(* Control: every step names the next one; a failing external command ends *)
(* the command with an error and leaves what the earlier ones did.         *)
Goto(next) == pc' = next /\ UNCHANGED <<cmd, created, store, fault, result, platform, counts>>
Ended(r) == /\ pc' = "done" /\ result' = r
            /\ UNCHANGED <<cmd, created, store, fault, platform, counts>>
Fault == /\ faults < MaxFaults /\ faults' = faults + 1
         /\ fault' = TRUE /\ pc' = "done" /\ result' = "fail"
         /\ UNCHANGED <<cmd, created, store, platform, cmds, reboots>>

\* umount's exit status 32 is taken for "not mounted", which a busy mount has too.
Busy(next) == /\ faults < MaxFaults /\ faults' = faults + 1
              /\ fault' = TRUE /\ pc' = next
              /\ UNCHANGED <<cmd, created, store, result, platform, cmds, reboots>>

\* runInit up to the provisioning: the marker and config.yaml decide
\* whether there is anything to do.
RunInit ==
    /\ pc = "idle" /\ cmds < MaxCmds
    /\ \E o \in Flags :
         /\ Tried(o) /\ ParseInitFlags(o)
         /\ cmd' = o
         /\ store' = StorePath(StoreType(o))
         /\ LET corrupt == marker /\ config.kind = "corrupt"
                valid   == marker /\ config.kind = "ok"
                nothing == marker /\ (~o.update \/ (valid /\ ~HasUpdateFlags(o)))
                nested  == parent /\ ~marker /\ o.also # "force"
            IN IF nested THEN pc' = "done" /\ result' = "fail" ELSE
               IF corrupt /\ ~o.update THEN pc' = "done" /\ result' = "fail" ELSE
               IF nothing THEN pc' = "done" /\ result' = "already" ELSE
               IF UseWSL(o) /\ ~EngineIsLinux(o) THEN pc' = "done" /\ result' = "fail" ELSE
               IF UseWSL(o) /\ ~o.dry THEN pc' = "wsl" /\ UNCHANGED result ELSE
               IF ShouldRunStrictBtrfsInit(o) THEN pc' = "strict" /\ UNCHANGED result ELSE
               IF o.dry THEN pc' = "done" /\ result' = "dry"
               ELSE pc' = "marker" /\ UNCHANGED result
    /\ cmds' = cmds + 1
    /\ created' = FALSE /\ fault' = FALSE
    /\ UNCHANGED <<platform, disks, work, faults, reboots>>

\* initWSL succeeds, or WSL is unavailable: an error where it is required,
\* otherwise a plain directory store.
InitWSL ==
    /\ pc = "wsl"
    /\ \/ store' = "vhdx" /\ pc' = "marker" /\ result' = result
       \/ IF RequireWSL(cmd)
          THEN pc' = "done" /\ result' = "fail" /\ store' = store
          ELSE pc' = "marker" /\ result' = result /\ store' = "S"
    /\ fault' = (result' = "fail")
    /\ UNCHANGED <<cmd, created, platform, disks, work, counts>>

\* initLocalBtrfsStore: prerequisites, MkdirAll, and reuse of a directory
\* that is already on btrfs.
StrictBegin ==
    /\ pc = "strict"
    /\ UNCHANGED <<disks, work>>
    /\ \/ Fault
       \/ /\ OnBtrfs("S")
          /\ pc' = "marker" /\ store' = "S"
          /\ UNCHANGED <<cmd, created, fault, result, platform, counts>>
       \/ ~OnBtrfs("S") /\ store = "dev" /\ Goto("device")
       \/ ~OnBtrfs("S") /\ store # "dev" /\ Goto(IF cmd.reinit THEN "unmount" ELSE "image")

\* tryUnmountStore: the top mount goes; an unmounted path or a busy one is no error.
Popped(p) == [mnt EXCEPT ![p] = IF @ = <<>> THEN @ ELSE Tail(@)]

Unmount ==
    /\ pc = "unmount"
    /\ UNCHANGED work
    /\ \/ Fault /\ UNCHANGED disks
       \/ mnt["S"] # <<>> /\ Busy("remove") /\ UNCHANGED disks
       \/ mnt' = Popped("S") /\ Goto("remove") /\ UNCHANGED blk

RemoveImage ==
    /\ pc = "remove"
    /\ UNCHANGED <<work, mnt>>
    /\ \/ Fault /\ UNCHANGED blk
       \/ blk' = [blk EXCEPT ![PlanBlock] = NoImage] /\ Goto("image")

\* ensureLoopImage
EnsureLoopImage ==
    /\ pc = "image"
    /\ UNCHANGED <<work, mnt>>
    /\ LET b == PlanBlock IN
       \/ Fault /\ UNCHANGED blk
       \/ blk[b].fs # "absent" /\ UNCHANGED blk /\ Goto("format")
       \/ /\ blk[b].fs = "absent"
          /\ blk' = [blk EXCEPT ![b] = Blank]
          /\ created' = TRUE /\ pc' = "format"
          /\ UNCHANGED <<cmd, store, fault, result, platform, counts>>

\* detectBlockFSType: blkid runs without sudo, and its exit status 2 (no
\* type found, or the device could not be read) means "no file system".
DetectBlockFSType(b) == IF b = "dev" /\ ~root THEN "" ELSE blk[b].fs

NeedsFormat(b) == DetectBlockFSType(b) # "btrfs"
MayFormat_CreatedOnly(b) == created \/ cmd.reinit    \* mutant: an image without a filesystem is refused
MayFormat_Always(b) == TRUE                           \* mutant: --reinit is not asked for
MayFormat(b) == DetectBlockFSType(b) = "" \/ created \/ cmd.reinit

\* detectSourceMount: where the device is mounted.
DeviceMounts == {p \in Points : "dev" \in {mnt[p][k] : k \in 1..Len(mnt[p])}}

\* mkfs.btrfs -f refuses a mounted device; one that fails otherwise may have
\* wiped the old signature already.
FormatBlock(b, next) ==
    \/ ~NeedsFormat(b) /\ UNCHANGED blk /\ Goto(next)
    \/ NeedsFormat(b) /\ ~MayFormat(b) /\ UNCHANGED blk /\ Ended("fail")
    \/ NeedsFormat(b) /\ MayFormat(b) /\ b = "dev" /\ DeviceMounts # {}
       /\ UNCHANGED blk /\ Ended("fail")
    \/ NeedsFormat(b) /\ MayFormat(b) /\ (b = "dev" => DeviceMounts = {})
       /\ blk' = [blk EXCEPT ![b] = [fs |-> "btrfs", data |-> FALSE]] /\ Goto(next)
    \/ NeedsFormat(b) /\ MayFormat(b) /\ Fault
       /\ \/ UNCHANGED blk
          \/ (b = "dev" => DeviceMounts = {}) /\ blk' = [blk EXCEPT ![b] = Blank]

FormatImage ==
    /\ pc = "format"
    /\ UNCHANGED <<work, mnt>>
    /\ FormatBlock(PlanBlock, "mount")

\* ensureLoopbackBtrfsStore: what is mounted on the store directory, and
\* `mount -o loop`.
MountImage ==
    /\ pc = "mount"
    /\ UNCHANGED <<work, blk>>
    /\ LET kept == Popped("S")["S"]
           b == IF store = "image" /\ kept = <<>> THEN "inner" ELSE PlanBlock
           free == mnt["S"] = <<>> \/ (~OnBtrfs("S") /\ cmd.reinit)
       IN \/ Fault /\ UNCHANGED mnt
          \/ mnt["S"] # <<>> /\ OnBtrfs("S") /\ UNCHANGED mnt
             /\ store' = "S" /\ pc' = "marker"
             /\ UNCHANGED <<cmd, created, fault, result, platform, counts>>
          \/ mnt["S"] # <<>> /\ ~OnBtrfs("S") /\ ~cmd.reinit /\ UNCHANGED mnt /\ Ended("fail")
          \/ free /\ blk[b].fs \in {"absent", ""} /\ mnt' = Popped("S") /\ Ended("fail")
          \/ /\ free /\ blk[b].fs \notin {"absent", ""}
             /\ mnt' = [mnt EXCEPT !["S"] = <<b>> \o kept]
             /\ Goto("own")
          \/ /\ free /\ mnt["S"] # <<>> /\ Busy("own")
             /\ mnt' = [mnt EXCEPT !["S"] = <<PlanBlock>> \o @]

\* ensureDeviceBackedBtrfsStore: a device that is mounted somewhere as
\* btrfs is the store; otherwise it is formatted if need be.
SourceMount ==
    /\ pc = "device"
    /\ UNCHANGED <<work, blk>>
    /\ \/ Fault /\ UNCHANGED mnt
       \/ DeviceMounts = {} /\ UNCHANGED mnt /\ Goto("devformat")
       \/ \E p \in DeviceMounts :
            \/ /\ blk["dev"].fs = "btrfs"
               /\ store' = p /\ pc' = "marker"
               /\ UNCHANGED <<mnt, cmd, created, fault, result, platform, counts>>
            \/ blk["dev"].fs # "btrfs" /\ ~cmd.reinit /\ UNCHANGED mnt /\ Ended("fail")
            \/ blk["dev"].fs # "btrfs" /\ cmd.reinit /\ mnt' = Popped(p) /\ Goto("devformat")
            \/ blk["dev"].fs # "btrfs" /\ cmd.reinit /\ UNCHANGED mnt /\ Busy("devformat")

FormatDevice ==
    /\ pc = "devformat"
    /\ UNCHANGED <<work, mnt>>
    /\ FormatBlock("dev", "devmount")

MountDevice ==
    /\ pc = "devmount"
    /\ UNCHANGED <<work, blk>>
    /\ \/ Fault /\ UNCHANGED mnt
       \/ mnt' = [mnt EXCEPT !["S"] = <<"dev">> \o @] /\ Goto("own")

\* ensureStoreOwnership and the final isBtrfsPath.
OwnAndVerify ==
    /\ pc = "own"
    /\ UNCHANGED <<disks, work>>
    /\ \/ Fault
       \/ OnBtrfs("S") /\ store' = "S" /\ pc' = "marker"
          /\ UNCHANGED <<cmd, created, fault, result, platform, counts>>
       \/ ~OnBtrfs("S") /\ Ended("fail")

\* MkdirAll(.sqlrs) and the write of config.yaml (buildWorkspaceConfig on
\* top of the old config under --update), two steps apart.
MakeMarker ==
    /\ pc = "marker"
    /\ UNCHANGED <<disks, config>>
    /\ \/ Fault /\ UNCHANGED marker
       \/ marker' = TRUE /\ Goto("write")

Written ==
    LET old == IF cmd.update /\ config.kind = "ok" THEN config
               ELSE [kind |-> "ok", backend |-> "auto", path |-> "none", wsl |-> FALSE, remote |-> FALSE]
    IN [old EXCEPT !.backend = IF cmd.also = "remote" THEN @ ELSE
                               IF cmd.snapshot = "" THEN "auto" ELSE cmd.snapshot,
                   !.path = IF cmd.also = "remote" THEN @ ELSE store,
                   !.wsl = @ \/ store = "vhdx",
                   !.remote = @ \/ cmd.also = "remote"]

WriteConfig ==
    /\ pc = "write"
    /\ UNCHANGED <<disks, marker>>
    /\ \/ Fault /\ UNCHANGED config
       \/ config' = Written /\ Ended("ok")

Finish ==
    /\ pc = "done"
    /\ pc' = "idle" /\ result' = "none" /\ fault' = FALSE
    /\ cmd' = NoCmd /\ created' = FALSE /\ store' = "none"
    /\ UNCHANGED <<platform, disks, work, counts>>

-----------------------------------------------------------------------------
\* The engine keeps states in a mounted btrfs store.
UseStore ==
    /\ pc = "idle"
    /\ \E p \in Points :
         /\ mnt[p] # <<>> /\ Head(mnt[p]) \in Blocks /\ OnBtrfs(p)
         /\ blk' = [blk EXCEPT ![Head(mnt[p])].data = TRUE]
    /\ UNCHANGED <<mnt, platform, work, run, counts>>

Reboot ==
    /\ pc = "idle" /\ reboots < MaxReboots
    /\ reboots' = reboots + 1
    /\ mnt' = [p \in Points |-> <<>>]
    /\ UNCHANGED <<blk, platform, work, run, cmds, faults>>

Next ==
    \/ RunInit \/ InitWSL \/ StrictBegin \/ Unmount \/ RemoveImage
    \/ EnsureLoopImage \/ FormatImage \/ MountImage
    \/ SourceMount \/ FormatDevice \/ MountDevice \/ OwnAndVerify
    \/ MakeMarker \/ WriteConfig \/ Finish \/ UseStore \/ Reboot

Spec == Init /\ [][Next]_vars

-----------------------------------------------------------------------------
\* Types of the variables.
TypeOK ==
    /\ goos \in {"linux", "windows", "darwin"} /\ {root, parent, marker} \subseteq BOOLEAN
    /\ hostfs \in {"ext4", "btrfs"}
    /\ blk \in [Blocks -> Volumes]
    /\ DOMAIN mnt = Points /\ mnt["S"] \in Stacks /\ mnt["T"] \in {<<>>, <<"dev">>}
    /\ config \in {NoConfig, Corrupt} \cup Configs
    /\ cmd \in Flags /\ pc \in Steps /\ {created, fault} \subseteq BOOLEAN
    /\ result \in {"none", "ok", "fail", "already", "dry"}
    /\ store \in {"none", "S", "T", "image", "dev", "vhdx"}
    /\ cmds \in 0..MaxCmds /\ faults \in 0..MaxFaults /\ reboots \in 0..MaxReboots

\* init.go's policy for `--snapshot btrfs` ("provision/verify real btrfs or
\* fail fast instead of silently degrading"): when it reports success, the
\* store path it wrote is on btrfs.
StrictStore ==
    pc = "done" /\ result = "ok" /\ goos = "linux" /\ cmd.snapshot = "btrfs"
        => config.path \in {"S", "T"} /\ OnBtrfs(config.path)

\* A file system with data is given up only by a command with --reinit,
\* however often init is re-run after failures and reboots.  The excuse is
\* a device that blkid cannot read because init does not run as root.
DataKept ==
    \A b \in Blocks : blk[b].data /\ ~blk'[b].data
            => cmd.reinit \/ (b = "dev" /\ ~root)

\* A killed or failed init is repaired by running it again: a command none
\* of whose external commands fails ends in error only over a foreign file
\* system or mount, or before it does anything (a corrupted config.yaml without
\* --update, a nested workspace, a Windows engine binary for WSL).
RerunSucceeds ==
    pc = "done" /\ result = "fail" /\ ~fault
        => \/ config.kind = "corrupt" /\ ~cmd.update
           \/ parent /\ ~marker
           \/ UseWSL(cmd) /\ ~EngineIsLinux(cmd)
           \/ "foreign" \in {mnt["S"][k] : k \in 1..Len(mnt["S"])} /\ ~cmd.reinit
           \/ cmd.store = "device" /\ blk["dev"].fs = "ext4" /\ ~cmd.reinit

\* What keeps the two: what is mounted on S is btrfs, foreign or nothing; S/btrfs.img
\* names a file of the host only while nothing is mounted there; a mounted device keeps
\* its file system; where there is no file system there is no data.
MountsSound ==
    /\ \A b \in Blocks : mnt["S"] \in {<<b>>, <<b, "foreign">>} => blk[b].fs = "btrfs"
    /\ \A b \in Blocks : mnt["S"] \in {<<"foreign">>, <<b, "foreign">>} => blk["inner"].fs = "absent"
    /\ mnt["T"] # <<>> => blk["dev"].fs \in {"ext4", "btrfs"}
    /\ \A b \in Blocks : blk[b].fs \in {"absent", ""} => ~blk[b].data
    /\ blk["dev"].fs # "absent" /\ \A b \in Images : blk[b].fs # "ext4"

\* Where an init is tells what it has found or done.
StepsSound ==
    /\ cmd.also = "remote" => cmd.snapshot = ""
    /\ pc = "wsl" => goos # "linux"
    /\ pc \in {"strict"} \cup LoopSteps \cup DeviceSteps =>
         /\ store \in {"S", "image", "dev"}
         /\ (store = "dev") <=> (cmd.store = "device")
         /\ pc # "strict" => ((store = "dev") <=> (pc \in DeviceSteps))
    /\ pc \in LoopSteps \cup DeviceSteps => mnt["S"] \in {<<>>, <<"foreign">>}
    /\ created => pc \notin {"strict", "unmount", "remove", "image"} \cup DeviceSteps
    /\ pc \in {"unmount", "remove"} => cmd.reinit
    /\ pc \in LoopSteps \ {"unmount"} /\ cmd.reinit /\ mnt["S"] # <<>> => fault
    /\ pc = "format" => blk[PlanBlock].fs \in IF created THEN {""} ELSE {"", "btrfs"}
    /\ pc = "mount" => blk[PlanBlock].fs = "btrfs"
    /\ pc = "devformat" /\ mnt["T"] # <<>> => fault
    /\ pc = "devmount" => blk["dev"].fs = "btrfs"
    /\ pc = "own" => OnBtrfs("S")
    /\ pc \in {"marker", "write"} /\ goos = "linux" /\ cmd.snapshot = "btrfs" =>
         store \in Points /\ OnBtrfs(store)

IInv ==
    /\ TypeOK /\ MountsSound /\ StepsSound
    /\ RerunSucceeds /\ StrictStore
=============================================================================
