-------------------------- MODULE ContainerRuntime --------------------------
(***************************************************************************)
(* The container runtime (internal/runtime/docker.go) and the database     *)
(* connector (internal/dbms/postgres.go) working on one data directory:    *)
(* InitBase, Start, Stop, and PrepareSnapshot / ResumeSnapshot around a     *)
(* snapshot taken by the host.  Every docker command is a step; between    *)
(* two of them the daemon may go down, the container may be killed, the    *)
(* mount of the state store may be lost and the caller's context may be    *)
(* cancelled, which also defeats the Stop of the error paths, for it uses  *)
(* the same context.                                                       *)
(***************************************************************************)
EXTENDS Naturals, FiniteSets

CONSTANTS Containers,   \* container ids docker may hand out
          MaxFaults     \* failures of the environment

None == "none"

VARIABLES pc, op,       \* step and call in progress
          allowInitdb,  \* StartRequest.AllowInitdb
          cluster,      \* pgdata: none, partial (initdb died), full
          mode,         \* permissions of pgdata: 0700 "closed" or a+rX "open"
          auth,         \* number of trust lines for every host in pg_hba.conf
          running,      \* containers docker runs
          inst,         \* container of the call or of the instance, or none
          servers,      \* containers in which postgres runs
          docker,       \* the daemon answers
          mounted,      \* the WSL mount unit of the store is active
          ctx,          \* live, cancelled
          faults,
          leaked,       \* containers a failed call could not remove
          err,          \* outcome of the last call
          snapshot      \* what the host copied: none, good, torn, unreadable

vars == <<pc, op, allowInitdb, cluster, mode, auth, running, inst, servers, docker,
          mounted, ctx, faults, leaked, err, snapshot>>
world == <<docker, mounted, ctx>>
data == <<cluster, mode, auth>>

-----------------------------------------------------------------------------
(* One docker command.  ensureStateStoreMount starts the mount unit when it *)
(* is not active, which may fail.                                          *)
Reaches == docker /\ ctx = "live"
\* What isDockerUnavailable recognises; a cancelled command reads as any other
\* failure.
Unavailable == ~docker /\ ctx = "live"
Remount == IF mounted THEN UNCHANGED <<mounted, faults>>
           ELSE mounted' = TRUE /\ UNCHANGED faults
CanFail == faults < MaxFaults

\* The command did what it was asked.
Done(next) == Reaches /\ Remount /\ pc' = next /\ UNCHANGED <<docker, ctx>>
\* It did not: docker is unavailable, the context is cancelled, or the
\* command failed by itself (or its mount could not be restored).
Failed(next) ==
    /\ \/ ~Reaches /\ UNCHANGED faults
       \/ Reaches /\ CanFail /\ faults' = faults + 1
    /\ pc' = next /\ UNCHANGED world

Return(e) == op' = "idle" /\ err' = e

-----------------------------------------------------------------------------
(* InitBase *)
InitBase ==
    /\ pc = "idle" /\ op = "idle" /\ inst = None /\ ctx = "live"
    /\ op' = "init" /\ pc' = "own" /\ err' = "none"
    /\ UNCHANGED <<allowInitdb, data, running, inst, servers, world, faults, leaked, snapshot>>

\* ensureDataDirOwner: mkdir, chown and chmod 0700 in containers of their own.
EnsureDataDirOwner ==
    /\ pc = "own"
    /\ \/ Done(IF op = "init" THEN "ready" ELSE "run") /\ mode' = "closed" /\ UNCHANGED <<op, err>>
       \/ Failed("idle") /\ Return("error") /\ mode' \in {mode, "closed"}
    /\ UNCHANGED <<allowInitdb, cluster, auth, running, inst, servers, leaked, snapshot>>

\* pgVersionReady: the file seen from the host or from a container; a command
\* that fails for any reason but the daemon reads as "not there".
PgVersionReady ==
    /\ pc = "ready"
    /\ \/ Done(IF cluster # "none" THEN "readable" ELSE "initdb") /\ UNCHANGED <<op, err>>
       \/ Unavailable /\ Failed("idle") /\ Return("error")
       \/ ~Unavailable /\ Failed("initdb") /\ UNCHANGED <<op, err>>
    /\ UNCHANGED <<allowInitdb, data, running, inst, servers, leaked, snapshot>>

\* initdb refuses a directory that is not empty; one that dies half way may
\* leave PG_VERSION behind.  InitBase looks for it once more, and reports
\* success when it (or the host, whose check needs no docker) finds it.
Initdb_Outcomes == {"none", "partial"}
InitdbBase ==
    /\ pc = "initdb"
    /\ \/ /\ Done("readable") /\ cluster = "none" /\ cluster' = "full" /\ UNCHANGED <<op, err>>
       \/ /\ Reaches /\ cluster # "none" /\ pc' = "idle" /\ Return("none")
          /\ UNCHANGED <<cluster, world, faults>>
       \/ /\ Failed("idle")
          /\ IF cluster = "none" THEN cluster' \in Initdb_Outcomes ELSE UNCHANGED cluster
          /\ \E e \in IF cluster' # "none" /\ ~Unavailable THEN {"none", "error"} ELSE {"error"} :
               Return(e)
    /\ UNCHANGED <<allowInitdb, mode, auth, running, inst, servers, leaked, snapshot>>

\* ensureHostReadableDataDir, then ensureHostAuth from the host.
HostAuth_Again(n) == n + 1       \* mutant: a trust line is appended whether or not there is one
HostAuth(n) == IF n = 0 THEN 1 ELSE n
Readable ==
    /\ pc = "readable"
    /\ \/ Done("idle") /\ mode' = "open" /\ auth' = HostAuth(auth) /\ Return("none")
       \/ Failed("idle") /\ Return("error") /\ UNCHANGED <<mode, auth>>
    /\ UNCHANGED <<allowInitdb, cluster, running, inst, servers, leaked, snapshot>>

-----------------------------------------------------------------------------
(* Start *)
Start ==
    /\ pc = "idle" /\ op = "idle" /\ inst = None /\ ctx = "live"
    /\ \E a \in BOOLEAN : allowInitdb' = a
    /\ op' = "start" /\ pc' = "own" /\ err' = "none"
    /\ UNCHANGED <<data, running, inst, servers, world, faults, leaked, snapshot>>

\* docker run -d: a cancelled client may leave a container it never learns of.
RunContainer ==
    /\ pc = "run"
    /\ \E c \in Containers \ running :
         \/ Done("version") /\ running' = running \cup {c} /\ inst' = c
            /\ UNCHANGED <<op, err, leaked>>
         \/ Failed("idle") /\ Return("error") /\ inst' = None
            /\ \/ UNCHANGED <<running, leaked>>
               \/ docker /\ ctx = "cancelled" /\ running' = running \cup {c} /\ leaked' = leaked \cup {c}
    /\ UNCHANGED <<allowInitdb, data, servers, snapshot>>

\* The error path of every later step: `_ = r.Stop(ctx, containerID)`, whose
\* own failure is ignored.
Here == inst \in running /\ Reaches
ToStop_Forgotten == pc' = "idle" /\ Return("error") /\ inst' = None    \* mutant: the container is left running
ToStop == pc' = "stop" /\ UNCHANGED <<op, err, inst>>

\* A docker exec works only while the container runs.
ExecDone(next) == inst \in running /\ Done(next) /\ UNCHANGED <<op, err, inst>>
Fault == \/ ~Here /\ UNCHANGED faults
         \/ Here /\ CanFail /\ faults' = faults + 1
ExecFailed == Fault /\ ToStop /\ UNCHANGED world

VersionInContainer ==
    /\ pc = "version"
    /\ \/ ExecDone(IF cluster # "none" THEN "auth" ELSE IF allowInitdb THEN "cinitdb" ELSE "stop")
       \/ (~allowInitdb \/ Unavailable) /\ ExecFailed
       \/ /\ allowInitdb /\ ~Unavailable    \* any other failure reads as "no PG_VERSION"
          /\ Fault
          /\ pc' = "cinitdb" /\ UNCHANGED <<op, err, inst, world>>
    /\ UNCHANGED <<allowInitdb, data, running, servers, leaked, snapshot>>

InitdbInContainer ==
    /\ pc = "cinitdb"
    /\ \/ ExecDone("auth") /\ cluster = "none" /\ cluster' = "full"
       \/ Here /\ cluster # "none" /\ ToStop /\ UNCHANGED <<cluster, world, faults>>
       \/ ExecFailed /\ IF cluster = "none" THEN cluster' \in Initdb_Outcomes ELSE UNCHANGED cluster
    /\ UNCHANGED <<allowInitdb, mode, auth, running, servers, leaked, snapshot>>

\* ensureHostAuth (the host cannot read a closed directory of another user),
\* then ensureContainerHostAuth.
EnsureAuth ==
    /\ pc = "auth"
    /\ \/ ExecDone("pgctl") /\ auth' = HostAuth(auth)
       \/ ExecFailed /\ UNCHANGED auth
    /\ UNCHANGED <<allowInitdb, cluster, mode, running, servers, leaked, snapshot>>

\* pg_ctl start refuses an incomplete cluster and one that others may read.  One
\* that fails otherwise (its own timeout, a client cut off) may leave a server.
Startable == cluster = "full" /\ mode = "closed"
MayServe == \/ UNCHANGED servers
            \/ Startable /\ inst \in running /\ servers' = servers \cup {inst}
PgCtlStart ==
    /\ pc = "pgctl"
    /\ \/ ExecDone("wait") /\ Startable /\ servers' = servers \cup {inst}
       \/ Here /\ ~Startable /\ ToStop /\ UNCHANGED <<servers, world, faults>>
       \/ ExecFailed /\ MayServe
    /\ UNCHANGED <<allowInitdb, data, running, leaked, snapshot>>

\* WaitForReady polls pg_isready for 15 s, then docker port.
WaitForReady ==
    /\ pc = "wait"
    /\ \/ ExecDone("port") /\ inst \in servers
       \/ ExecFailed
    /\ UNCHANGED <<allowInitdb, data, running, servers, leaked, snapshot>>

HostPort ==
    /\ pc = "port"
    /\ \/ inst \in running /\ Done("idle") /\ Return("none") /\ UNCHANGED inst
       \/ ExecFailed
    /\ UNCHANGED <<allowInitdb, data, running, servers, leaked, snapshot>>

\* docker rm -f; "no such container" is success.
Removed(c) == running' = running \ {c} /\ servers' = servers \ {c}
StopFailed ==
    /\ pc = "stop"
    /\ \/ Reaches /\ Removed(inst) /\ UNCHANGED <<faults, leaked>>
       \/ Reaches /\ CanFail /\ faults' = faults + 1 /\ leaked' = leaked \cup {inst} /\ UNCHANGED <<running, servers>>
       \/ ~Reaches /\ leaked' = leaked \cup {inst} /\ UNCHANGED <<running, servers, faults>>
    /\ pc' = "idle" /\ Return("error") /\ inst' = None
    /\ UNCHANGED <<allowInitdb, data, world, snapshot>>

\* Stop of an instance: the caller keeps it when docker does not answer.
Stop ==
    /\ pc = "idle" /\ op = "idle" /\ inst # None /\ snapshot = "none"
    /\ \/ Reaches /\ Removed(inst) /\ inst' = None /\ err' = "none" /\ UNCHANGED faults
       \/ /\ \/ ~Reaches /\ UNCHANGED faults
             \/ Reaches /\ CanFail /\ faults' = faults + 1
          /\ err' = "error" /\ UNCHANGED <<running, servers, inst>>
    /\ UNCHANGED <<pc, op, allowInitdb, data, world, leaked, snapshot>>

-----------------------------------------------------------------------------
(* The connector, around a snapshot of an instance that was started.       *)
PrepareSnapshot ==
    /\ pc = "idle" /\ op = "idle" /\ inst # None /\ snapshot = "none"
    /\ op' = "snap" /\ pc' = "pgstop" /\ err' = "none"
    /\ UNCHANGED <<allowInitdb, data, running, inst, servers, world, faults, leaked, snapshot>>

ConnFailed == Fault /\ pc' = "idle" /\ Return("error") /\ UNCHANGED <<inst, world>>

\* pg_ctl stop: a success that left the server running is caught by
\* verifyStopped.
PgCtlStop ==
    /\ pc = "pgstop"
    /\ \/ ExecDone("verify") /\ servers' = servers \ {inst}
       \/ CanFail /\ Here /\ faults' = faults + 1 /\ pc' = "verify"
          /\ UNCHANGED <<op, err, inst, world, servers>>
       \/ ConnFailed /\ UNCHANGED servers
    /\ UNCHANGED <<allowInitdb, data, running, leaked, snapshot>>

VerifyStopped_Skipped ==    \* mutant: the server is taken for stopped
    /\ pc = "verify" /\ ExecDone("relax")
    /\ UNCHANGED <<allowInitdb, data, running, servers, leaked, snapshot>>
VerifyStopped ==
    /\ pc = "verify"
    /\ \/ ExecDone("relax") /\ inst \notin servers
       \/ Here /\ inst \in servers /\ pc' = "idle" /\ Return("error") /\ UNCHANGED <<inst, world, faults>>
       \/ Reaches /\ inst \notin running /\ pc' = "relax"    \* "container is not running"
          /\ UNCHANGED <<op, err, inst, world, faults>>
       \/ ConnFailed
    /\ UNCHANGED <<allowInitdb, data, running, servers, leaked, snapshot>>

RelaxHostSnapshotAccess ==
    /\ pc = "relax"
    /\ \/ ExecDone("copy") /\ mode' = "open"
       \/ ConnFailed /\ UNCHANGED mode
    /\ UNCHANGED <<allowInitdb, cluster, auth, running, servers, leaked, snapshot>>

\* The host copies the directory (StateFS.Snapshot).
Copy ==
    /\ pc = "copy"
    /\ snapshot' = IF mode = "closed" THEN "unreadable" ELSE IF servers # {} THEN "torn" ELSE "good"
    /\ pc' = "harden"
    /\ UNCHANGED <<op, allowInitdb, data, running, inst, servers, world, faults, leaked, err>>

HardenDataDirPermissions ==
    /\ pc = "harden"
    /\ \/ ExecDone("resume") /\ mode' = "closed"
       \/ ConnFailed /\ UNCHANGED mode
    /\ UNCHANGED <<allowInitdb, cluster, auth, running, servers, leaked, snapshot>>

ResumeSnapshot ==
    /\ pc = "resume"
    /\ \/ inst \in running /\ Done("idle") /\ Return("none") /\ Startable /\ servers' = servers \cup {inst} /\ UNCHANGED inst
       \/ Here /\ ~Startable /\ pc' = "idle" /\ Return("refused") /\ UNCHANGED <<inst, servers, world, faults>>
       \/ ConnFailed /\ MayServe
    /\ UNCHANGED <<allowInitdb, data, running, leaked, snapshot>>

\* The job is over with its snapshot; the next one starts a new container.
Release ==
    /\ pc = "idle" /\ op = "idle" /\ snapshot # "none" /\ snapshot' = "none"
    /\ UNCHANGED <<pc, op, allowInitdb, data, running, inst, servers, world, faults, leaked, err>>

-----------------------------------------------------------------------------
(* The environment.                                                        *)
DaemonDown == docker /\ CanFail /\ docker' = FALSE /\ faults' = faults + 1
              /\ UNCHANGED <<pc, op, allowInitdb, data, running, inst, servers, mounted, ctx, leaked, err, snapshot>>
DaemonUp == ~docker /\ docker' = TRUE
            /\ UNCHANGED <<pc, op, allowInitdb, data, running, inst, servers, mounted, ctx, faults, leaked, err, snapshot>>
Killed == \E c \in running : CanFail /\ faults' = faults + 1 /\ Removed(c)
          /\ UNCHANGED <<pc, op, allowInitdb, data, inst, world, leaked, err, snapshot>>
MountLost == mounted /\ CanFail /\ mounted' = FALSE /\ faults' = faults + 1
             /\ UNCHANGED <<pc, op, allowInitdb, data, running, inst, servers, docker, ctx, leaked, err, snapshot>>
Cancel == ctx = "live" /\ op # "idle" /\ CanFail /\ faults' = faults + 1 /\ ctx' = "cancelled"
          /\ UNCHANGED <<pc, op, allowInitdb, data, running, inst, servers, docker, mounted, leaked, err, snapshot>>
\* The next call comes with a context of its own.
NewContext == ctx = "cancelled" /\ op = "idle" /\ ctx' = "live"
              /\ UNCHANGED <<pc, op, allowInitdb, data, running, inst, servers, docker, mounted, faults, leaked, err, snapshot>>

Init ==
    /\ pc = "idle" /\ op = "idle" /\ allowInitdb = FALSE
    /\ cluster \in {"none", "full"} /\ mode \in {"open", "closed"} /\ auth = 0
    /\ running = {} /\ inst = None /\ servers = {}
    /\ docker = TRUE /\ mounted = TRUE /\ ctx = "live" /\ faults = 0
    /\ leaked = {} /\ err = "none" /\ snapshot = "none"

Next ==
    \/ InitBase \/ EnsureDataDirOwner \/ PgVersionReady \/ InitdbBase \/ Readable
    \/ Start \/ RunContainer \/ VersionInContainer \/ InitdbInContainer \/ EnsureAuth
    \/ PgCtlStart \/ WaitForReady \/ HostPort \/ StopFailed \/ Stop
    \/ PrepareSnapshot \/ PgCtlStop \/ VerifyStopped \/ RelaxHostSnapshotAccess \/ Copy
    \/ HardenDataDirPermissions \/ ResumeSnapshot \/ Release
    \/ DaemonDown \/ DaemonUp \/ Killed \/ MountLost \/ Cancel \/ NewContext

Spec == Init /\ [][Next]_vars

-----------------------------------------------------------------------------
\* Types of the variables.
TypeOK ==
    /\ cluster \in {"none", "partial", "full"} /\ mode \in {"open", "closed"} /\ auth \in 0..2
    /\ running \subseteq Containers /\ inst \in Containers \cup {None}
    /\ servers \subseteq running
    /\ docker \in BOOLEAN /\ mounted \in BOOLEAN /\ leaked \subseteq Containers
    /\ err \in {"none", "error", "refused"} /\ faults \in 0..MaxFaults

\* A Start that fails leaves no container behind (docker.go:466-516), unless
\* docker run itself was cut off or the Stop of the error path failed: no two
\* containers work on one data directory.
FailedStartCleans == running \subseteq {inst} \cup leaked

\* The copy of the data directory is taken from a stopped server and is
\* readable for the host (PrepareSnapshot), whatever fails in between, unless
\* an earlier container leaked with its server running.
SnapshotSafe == snapshot # "unreadable" /\ (snapshot = "torn" => leaked # {})

\* ResumeSnapshot is never refused because the directory is still open for
\* the snapshot (hardenDataDirPermissions comes first).
ResumeAccepted == err # "refused"

\* What the host copies between PrepareSnapshot and ResumeSnapshot is the directory of a
\* stopped server and readable, and the server is accepted back afterwards.
SnapshotSound == SnapshotSafe /\ ResumeAccepted

-----------------------------------------------------------------------------
(* What the properties rest on: an inductive invariant.                    *)

\* Until docker run has answered, the call has no container; only then may it
\* add one to those that run.
NoContainerYet ==
    pc \in {"own", "ready", "initdb", "readable", "run"} => inst = None

\* From docker run on there is one, and an error path has one to stop.
HasContainer ==
    pc \in {"version", "cinitdb", "auth", "pgctl", "wait", "port", "stop"} => inst # None

\* A server that was started, and an instance that is kept, has a whole cluster
\* below it: nothing runs initdb there again.
ClusterFull ==
    \/ pc \in {"wait", "port", "pgstop", "verify", "relax", "copy", "harden", "resume"}
    \/ pc = "idle" /\ inst # None
    => cluster = "full"

\* Between verifyStopped and the copy the server of the instance is down; the
\* directory is open for the copy and closed again before the server is started.
SnapshotWindow ==
    /\ pc \in {"relax", "copy"} => inst \notin servers
    /\ pc = "copy" => mode = "open"
    /\ pc = "resume" => mode = "closed"

\* Types of the environment and of the fault counter, and of the rest.
WorldTypes == docker \in BOOLEAN /\ mounted \in BOOLEAN /\ faults \in 0..MaxFaults
DirTypes ==
    /\ cluster \in {"none", "partial", "full"} /\ mode \in {"open", "closed"} /\ auth \in 0..2
    /\ running \subseteq Containers /\ inst \in Containers \cup {None}
    /\ servers \subseteq running /\ leaked \subseteq Containers
    /\ err \in {"none", "error", "refused"}

Core ==
    /\ DirTypes
    /\ FailedStartCleans /\ SnapshotSafe /\ ResumeAccepted
    /\ NoContainerYet /\ HasContainer /\ ClusterFull /\ SnapshotWindow

IInv == WorldTypes /\ Core
=============================================================================
