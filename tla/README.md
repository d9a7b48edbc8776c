# Verification of sqlrs

TLA+ models of sqlrs: the local engine with its prepare jobs, the cache of
database states they build and share, the containers and instances made of
them, its configuration and its event stream; and the command line that finds or
starts the engine, sends it files, follows its jobs, keeps a login session and
provisions the store. TLC checks the models on small instances; TLAPS proves the
main safety properties of thirteen of them, the components of the engine that act
concurrently and the parts of the command line that keep state, for every number
of jobs, requests, commands, files, faults and crashes.

Paths below are relative to `src/`; `prepare/` stands for
`backend/local-engine-go/internal/prepare/`, `engine/` for
`backend/local-engine-go/internal/`, `cli/` for `frontend/cli-go/internal/`.

## 1. The system

| Component | State it keeps | Operations | Hard behaviour | What makes it correct |
|---|---|---|---|---|
| Job service, `prepare/manager.go` | rows of jobs and tasks, `running` map of runners, one goroutine per job, `jobs/<id>` directories | Submit, runJob, Cancel, Delete, Recover, retention | cancel and delete race with the runner; a crash between any two statements; retention acts on a list that is stale | a succeeded job has a usable instance; no container is forgotten; jobs end; statuses move forward |
| Queue, `prepare/queue` | SQLite tables with foreign keys | create, update, delete, replace tasks, append event | an UPDATE of a deleted job is silent, an INSERT for it fails; a task list is not written atomically | callers cope with both |
| State builder, `prepare/execution.go` | state directories, `.build.lock`, `.build.ok`, rows of states and instances, the runtime a job carries along | executeStateTask, withStateBuildLock, createInstance | jobs that want the same state; failures and crashes between snapshot, row and marker | one builder per state; a row stands for a complete directory; an instance is a copy of its state |
| Cache capacity, `prepare/capacity.go` | eviction lock, candidates, measurements | ensureCacheCapacity, runEviction | measured before the lock; candidates read once; directory and row removed in two steps; a lock left by a crash | eviction is exclusive, removes little more than it must, spares what was just committed, and never blocks for ever |
| Base images, `prepare/execution.go` | `.init.lock`, `.init.ok`, base directory | ensureBaseState | many first jobs, waiters that remove a lock they do not hold, a crash in initdb | a base directory is used only when it is complete |
| Planning and identity, `prepare/psql*.go`, `liquibase.go`, `content_lock.go` | plans, digests, held files | plan, hash, replan, execute | files change between plan, digest and execution | a state holds what its id says |
| Events, `prepare/manager.go`, `engine/httpapi` | rows of events, heartbeat entries, event bus | appendEvent, heartbeat, EventsSince, WaitForEvent, stream | lost wakeups; a heartbeat that is appended late; connections that break | the client sees the log once, in order, and ends |
| Deletion and runs, `engine/deletion`, `engine/run` | rows of states and instances, directories, containers | delete (plain, recursive), run, recreate a container | requests race with each other and with new rows; docker down; crash | rows go last, the tree stays closed, one server per directory |
| Containers, `engine/runtime`, `engine/dbms` | containers, data directory, its permissions | InitBase, Start, Stop, PrepareSnapshot, ResumeSnapshot | every docker command may fail, also the one that cleans up | no container is left, a snapshot is of a stopped server |
| Configuration, `engine/config` | overrides in memory and on disk | Get, Set, Remove, load | a write that fails after the rename; maps under lists; order of two watermarks | an acknowledged value is read back; the settings can be loaded |
| Engine process and daemon control, `cmd/sqlrs-engine`, `cli/daemon` | engine.json, start lock, activity counter | start, serve, idle shutdown, ConnectOrStart | commands that start at once, reused ports, a file removed by a predecessor | one engine, the right engine, and it ends |
| Login session, `cli/authsession` | one credential | login, refresh, logout | overlapping processes without a lock, expiry, interrupts | a login stays usable, a logout stays |
| Source upload, `cli/remotesource` | manifest, uploaded digests | rounds of request, answer, upload | edits and lost blobs between rounds | the accepted job reads what the manifest names |
| Pipelines, `cli/app`, `cli/refctx` | worktree, staging directory, instance of a composite run | stages, binding, cleanup | a failure, interrupt or detach at any stage | nothing is left behind, nothing is removed too early |
| `sqlrs init`, `cli/app/init*.go` | images, devices, mounts, VHDX, config.yaml | provision, reinit, update | kill between truncate, mkfs and mount; reboot; restart of WSL; foreign disks | can be run again; data goes only with `--reinit`; the engine starts on its store |
| Input sets, `cli/inputset` | none | validate, collect, convert | include cycles, diamonds, search paths | the set is what the tool reads |
| Rendering, listing, discovery, diff | none | | | unit tests |

How they interact: the command line resolves its inputs (InputSet, StagePipeline),
finds or starts an engine (EngineProcess, on a store made by init), submits a job
over HTTP, for a remote engine after uploading the sources (SourceSync) with a
bearer token (AuthSession), and follows its event stream. Submit stores the job
and starts `runJob` in a goroutine. runJob plans a list of tasks, runs them
through the executor (which builds or finds states, sharing lock files and the
states table with all other jobs) and ends by writing the status row and then the
events. Every event goes through `appendEvent`, which also feeds the heartbeat and
wakes the streams. After a restart `Recover` makes room in the cache and starts a
goroutine for each unfinished job before the HTTP server accepts requests.
Retention runs inside the goroutine of whichever job has just been planned or has
just ended, or inside a cancel request. Instances outlive their jobs: run and
delete requests act on them through the store and docker.

`PROJECT.json` lists every component with its status, and under `hazards` each
place of this code that a test would hardly reach, with the property aimed at
it.

## 2. Modules

| Module | Models | Role |
|---|---|---|
| `PrepareJobs` | `prepare/manager.go`, `prepare/queue/sqlite_store.go` | the job service |
| `JobLifecycle` | what a client may assume about a job's status | abstract specification, implemented by `PrepareJobs` |
| `StateBuild` | `prepare/execution.go`, `prepare/capacity.go` | building, sharing and evicting states |
| `BaseInit` | ensureBaseState, withInitLock | the base directory of an image |
| `CacheCapacity` | `prepare/capacity.go` | the cache budget and its eviction lock |
| `PrepareContent` | `prepare/psql*.go`, `liquibase.go`, `content_lock.go`, planning in `manager.go` | from files to state ids |
| `JobEvents` | `appendEvent`, heartbeat, bus, stream, client | the events of one job from end to end |
| `Instances` | `engine/deletion`, `engine/run` | deletion and runs over states and instances |
| `ContainerRuntime` | `engine/runtime/docker.go`, `engine/dbms/postgres.go` | the containers of one data directory |
| `EngineConfig`, `ConfigNodes` | `engine/config/config.go` | configuration; its JSON values |
| `EngineProcess` | `cmd/sqlrs-engine/main.go`, `cli/daemon` | life of an engine and of the commands that look for it |
| `AuthSession` | `cli/authsession` | the stored login |
| `SourceSync` | `cli/remotesource` | source upload |
| `StagePipeline` | `cli/app`, `cli/refctx` | one command line with its stages |
| `InitLocal`, `InitWSL` | `cli/app/init*.go`, the WSL part of `cli/daemon` | `sqlrs init` on Linux, on Windows |
| `InputSet` | `cli/inputset` | input files of psql, pgbench and Liquibase |
| `MCPrepareJobs`, `MCStateBuild` | | values of constants for TLC |
| `MCJobsLive` | | `PrepareJobs` with fairness: two jobs, or one alone with every request and fault |
| `MCWaiting`, `MCEngine`, `MCClient` | | several components in one run, see below |
| `EngineLocks` | | `BaseInit` and an instance of `CacheCapacity`, with the properties of the latter |
| `EngineContainers` | | `Instances` and an instance of `ContainerRuntime`, with the properties of the latter |
| `CommandLine` | | `EngineProcess` and instances of `AuthSession`, `SourceSync`, `StagePipeline`, `InitLocal` and `InitWSL`, with their properties |
| `PrepareJobsProofs` | | types, safety and retention of `PrepareJobs`, and that it implements `JobLifecycle` |
| `StateBuildProofs`, `InstancesProofs`, `JobEventsProofs` | | types and safety of the module each extends |
| `ContainerRuntimeProofs` | | types and safety of `ContainerRuntime` |
| `EngineLocksProofs` | | the two lock files of an engine: `BaseInit`, `CacheCapacity` |
| `CommandLineProofs` | | `EngineProcess`, `AuthSession`, `SourceSync`, `StagePipeline` |
| `InitProofs` | | `InitLocal` and `InitWSL` |

Components that share no state are checked side by side: in `MCWaiting`,
`MCEngine` and `MCClient` the variable `part` selects a component. One component is
extended and has its own variables (`BaseInit`, `Instances`,
`EngineProcess`); for the others the generic variables r1, r2, ... are substituted
by INSTANCE. Init and Next are the disjunctions over the components. A behaviour
is a behaviour of one component; nothing is interleaved that the code does not
interleave, and every component keeps the constants written at its INSTANCE.

`EngineLocks`, `EngineContainers` and `CommandLine` hold the instances that are also
proved about, with the constants, the assumptions on them and the properties;
`MCWaiting`, `MCEngine` and `MCClient` extend them, the proofs modules too, so a theorem is about the very
definition a run checks. A property of such a component starts with the part it
speaks of (InAuth => ...). Its theorem is about the component's own Spec, over the
variables r1, r2, ...; it holds with any value of `part`. Only DataKept, an action
property of two components, has the part in its hypothesis.

### PrepareJobs

One step is one SQL statement or one call that changes the world outside. `row`,
`task`, `signed`, `fin` are columns of `prepare_jobs` and `prepare_tasks`;
`inst`, `dir`, `ctr` are the instance rows, the content of `jobs/<id>/runtime`
and the running containers, each tagged with the engine run (`epoch`) that made
it; `pc`, `cur`, `mem`, `rt`, `ok`, `cancelled`, `reg` are the local variables of
runJob, its context and its entry in the `running` map; `boot` says that
runtime.Start is under way and has made its container, and `stuck` names the
containers that a call of runtime.Stop has left running; `trim` is the loop of a
retention pass, per goroutine that runs one; `cancel` and `del` are the requests
in flight.

The actions follow runJob from top to bottom: RegisterRunner, LoadJob, StartJob,
the four outcomes of loadOrPlanTasks (PlanFresh, PlanDrifted, PlanStored,
PlanFails), StoreTask (ReplaceTasks writes one row at a time), the loop
(BeginTask, Work..., FinishTask, FailTask), the runtime that planning or a task asks
for (StartRuntime, then RuntimeStarted or StartFails), the end (Succeed, FailJob, their
events, retention) and the deferred cleanup (Exit, Unregister). runtime.Start gets the job's context: when a cancel comes before it
returns, the Stop of its error path has a cancelled context too and does nothing.
cleanupRuntime tries twice, the second time with a context of its own, and forgets
the runtime also when docker has refused both times (DockerRefuses). Cancel and
Delete are split where the code reads before it acts. The list of state_execute tasks is
one task here, "exec": its inside is `StateBuild`. Outcomes that depend on what
is in a script or in the cache are free choices.

SQLite errors other than those that follow from a cancelled context or a missing
row are not modelled, with one exception: EventRefused lets SQLite refuse a final
event, because the status row has been written by then.

### StateBuild

All jobs apply a prefix of one chain of steps, so they compete for the same
states. A database is the set of steps applied to it; that is enough to tell a
correct state or instance from a wrong one. `Kind` selects where lock and marker
live: beside the state directory (btrfs) or inside it, and copied with it (copy,
overlay). Every job has the runtime it carries from step to step (`rt`), which is
where the interesting behaviour is. Eviction picks its candidates in one step and
removes directory and row in two; its lock is exclusive, and a crash frees it
(the code does so after five minutes).

### JobEvents

One job seen through its events. appendEvent is insert, updateHeartbeat, notify;
the heartbeat goroutine copies an event under the mutex and appends it outside;
the stream is EventsSince and WaitForEvent statement by statement; the client
counts events and skips those it has processed on a new stream.

### BaseInit and CacheCapacity

Lock files are state that survives a crash. In `BaseInit` a job goes through
ensureBaseState call by call: make the directory or subvolume, take `.init.lock`
or skip it because `.init.ok` has appeared (and remove the lock of whoever holds
it), look for PG_VERSION, reset, initdb, mark, unlock. In `CacheCapacity` the
callers are the jobs, each with the three checks of its step (prepare_step,
snapshot, metadata_commit), and the start-up check of Recover. Bytes are small
integers; the order of candidates is defined by what a sorted list satisfies, not
by sorting. Time is one event: the lock file becomes five minutes old.

### PrepareContent

A digest is the text it is taken of, a state id the sequence of the digests of its
chain, and a database the sequence of texts applied to it: an id is right when
the two are equal. Edits happen at any time, also while a content lock holds the
file, because LocksBind is FALSE: the flock of Unix is advisory. (On Windows the
lock binds; this is the constant's other value.) `drift` records the two kinds of
edit that no job notices: under a plan that is not made again ("plan"), and of a
file between the digest of a step and its execution ("lock").

### Instances and ContainerRuntime

Every store query, docker command and file system call of a delete or run request
is a step. A request decides on what it has read (`plan`, the instance entry) and
acts later. `touched` marks instances on which a run started a container after a
deletion had read them or whose stop was skipped with docker down. A run request
lives in the context of its HTTP request, so when the client goes away, the Stop of a
container it has just made does nothing and the container stays, under the fixed
name of its instance (StopStarted).
`ContainerRuntime` is one data directory seen from the docker commands of InitBase,
Start, Stop and of the snapshot protocol; `leaked` are containers whose Stop
failed.

### EngineConfig

JSON values are records with a kind (`ConfigNodes`); paths are sequences of keys
and indexes. A request is one step, because one mutex covers it, but the step has
several outcomes: the temporary file cannot be written, or the file has been
replaced and the directory sync fails. `acked` is the last change that was answered
with success, and stays it when a later request fails; `unacked` is the tree that
such a request has left in the file and, once an engine has started on that file,
in memory.

### EngineProcess

Engines go through off, start, listen, unlinked (the old engine.json removed),
recover, serve, deciding, closing, dead; commands go through ConnectOrStart: the
cached engine, engine.json twice, the start lock, engine.json again, spawn, poll.
A request of any kind restarts the idle clock of the engine that answers. `excuse`
records that one of the events happened against which the code has no guard: an
answer or a start that is too slow, an auth probe cut off, a command killed while
it starts an engine, an engine that removes the engine.json of its successor.

### AuthSession, SourceSync, StagePipeline

Commands of the command line are processes. `AuthSession` numbers refresh tokens
and keeps the set Google honours; `under` are the commands that were under way when
the last logout succeeded, and `undone` says that a refresh among them has stored its
session since; `SourceSync` runs the rounds against a server
that is external and modelled by what the client's protocol tells of it;
`StagePipeline` starts from every command line of up to two stages and records
what temporary directories, jobs and instances exist and who will remove them.

### InitLocal, InitWSL, InputSet

`InitLocal` has block devices and images with a file system and a data flag, mount
stacks on two directories, the configuration file, and every command the parser
accepts; `InitWSL` has the VHDX, an unrelated disk, mount unit, mount and engine.
`InputSet` walks the include graph with an explicit stack of frames and is compared
with reference definitions (Reads, Reached, OnCycle) that quantify over paths of
the graph.

## 3. Runs

`tlc -config X.cfg Module`, each between seconds and four minutes.

| Run | Instance | Checks |
|---|---|---|
| Jobs_race | 2 identical jobs, retention of 1, 1 cancel, docker may refuse to stop | TypeOK, SucceededUsable, NoLeakedRuntime, RetentionBound |
| Jobs_live | fair. `PrepareJobs`, a prepare and an identical plan-only job, retention of 1, crash; or one job with crash, cancel, delete, refused event | PlanCreatesNothing, EventuallyEnds, ImplementsLifecycle (the refinement of `JobLifecycle`) |
| Build | btrfs: 2 jobs, 3 steps, failure, crash, eviction | TypeOK, BuiltByOne, RowsWhole, StepLeavesState |
| Events_live | 1 task; one heartbeat, broken connection or refused event; fair | TypeOK, InOrder, ClientEnds |
| Waiting | fair. `StateBuild`: a psql job on 2 steps and a Liquibase job on 1, failure, eviction. `BaseInit`: 3 jobs, failure, crash. `CacheCapacity`: 2 jobs, 3 old states, failure, crash. `EngineProcess`: 1 command twice, 2 engines, fault | TypesOK, BaseComplete, EvictionBounded, EveryBuildEnds, EveryStartSettles, EveryEvictionSettles, EngineRetires |
| Engine | `Instances`: 2 requests of 2 operations, 3 states, 2 instances, one state and one instance made meanwhile, clients that go away, fault, crash. `ContainerRuntime`: 3 containers, 2 faults. `EngineConfig`: 5 paths, 5 values, 3 changes. `StateBuild` on copy: 3 jobs, one on 3 steps and two on its first, crash | TypeOK, OneServer, DeletionOrdered, RuntimeTypeOK, FailedStartCleans, SnapshotSound, ConfigSound, CopySound |
| Client | `PrepareContent`: 3 jobs, 4 files, edit also under a lock, crash. `EngineProcess`: 2 commands, 3 engines, 2 ports. `AuthSession`: 4 commands, 2 at a time. `SourceSync`: 3 files, 2 edits, lost blob, fault. `StagePipeline`: all command lines, 2 faults. `InitLocal`, `InitWSL`: 2 commands, fault, reboot. `InputSet`: all graphs over 3 files with up to 2 references a file | TypesOK, StateFaithful, SingleEngine, ConnectsToItself, SessionSound, SyncFaithful, EndsClean, InitRepeatable, EngineOnStore, DataKept, InputsSound |

Deadlock checking is off: jobs end, requests are bounded, and the system then really
stands still.

Bounds. Two jobs are the least that compete for retention, for a lock or for a
state; three are used where a third party takes what two others believe to hold
(`StateBuild` on copy, `BaseInit`, where one removes the lock another has just taken).
Three steps are the least at which a job has a runtime from a step
before the one another job builds, and a step after it. One crash, cancel, delete,
failure or lost event is the fault whose position is varied over all states;
the theorems of section 5 remove these bounds for the modules they are about. Three engines and
two ports let a third engine get the port of the first while the second is still
named by engine.json. The old states of `CacheCapacity` are an inner state, a leaf
one job builds on, and one as large as the room that is missing; sizes and
watermarks are such that one eviction sometimes is and sometimes is not enough.
Two init commands are the least that show a repair after a failure. Two edits let
a file change and change back between the rounds of a sync. Client is cut off
(constraint NoDrift) where StateFaithful says nothing any more. Jobs_live has one
job in its second part so that every combination of a cancel, a delete, a refused event
and a crash is reached; that jobs disturb each other is the matter of its first part and
of Jobs_race. Jobs or requests that do the same are interchangeable (SYMMETRY in Build,
Engine and Client, none of which checks liveness).

### Where the code and its documents disagree

These runs expect a violation; `PROJECT.json` quotes the sentence that TLC
refutes.

| Run | What TLC shows |
|---|---|
| Jobs_v_retention_runtime | RetentionKeepsRuntime: retention deletes the data directory of a live instance |
| Build_v_stale_runtime | InstanceFaithful: a job that waited for another's build hands out an instance that lacks a step |
| Build_v_orphan_lock | EveryJobEnds: after a crash the build lock blocks its state for ever |
| Events_v_zombie | NoBeatAfterEnd: a late heartbeat brings the heartbeat state back after the end |
| Jobs_v_cancelled_start | CancelStopsContainer: a forced delete during runtime.Start leaves a container that no row and no runner names |

Further disagreements met while modelling, without a run of their own:

* `docs/architecture/server-config-flow.md:4` says configuration updates are applied
  atomically. A request that fails in syncDir after the rename (`config.go:747`) is
  answered with an error and leaves the file with the refused values and memory without
  them; the model has the step (Save), and AckedReadable says what is left of it.
* `docs/user-guides/sqlrs-auth.md:253` says `auth logout` deletes the local session. A
  refresh that was under way stores its session again after the logout has reported
  success (`cli/authsession/manager.go:394`, `:309`); the model has the step and notes
  it (`undone`).
* `docs/adr/2026-02-03-content-locks.md:21` says the locks prevent state fingerprints
  "from being computed against content that changes before execution". On Unix they are
  advisory and stop no editor; the model has the edit, and records it in `drift`.
* `docs/api-guides/sqlrs-engine.md:1303` says the engine enforces `-X` and
  `-v ON_ERROR_STOP=1` for psql. `prepare/psql.go:84` appends them at the end of the
  arguments, and `prepare/psql_steps.go:15` gives a step only the flags before its
  `-c` or `-f`: no step of a script gets them.
* `docs/architecture/ref-flow.md:186` says a ref worktree is removed after the command
  succeeds or fails. An alias stage opens it before buildStageRuntime, which may fail
  (`cli/app/stage_pipeline.go:60`) before the cleanup is bound.
* `docs/user-guides/sqlrs-run.md:187` says the instance of a composite `prepare ... run`
  is removed after `run` finishes. A run stage of an unknown kind (`run:x`) is found
  out after the prepare stage has made the instance, and returns
  (`cli/app/runner.go:516`) without the removal.
* `docs/user-guides/sqlrs-init.md:168` says `--reinit` recreates the store from scratch.
  A store directory that is on btrfs already, or a device mounted as btrfs, is
  returned as it is (`cli/app/init_btrfs_linux.go:39` and `:188`).

### What bounds the positive results

The models contain further behaviours of the code that a reader of the
properties has to know, because a property is stated, or a run bounded, so as to
leave them out. Each is reached by the constants given.

* SucceededUsable and RetentionBound assume that no final event is refused. With
  MaxLost = 1 a refused event after the status row makes runJob clean up the
  runtime of a job whose row says succeeded (`manager.go:636`), and the client,
  which waits for the terminal event, reconnects for ever: hence the second
  disjunct of ClientEnds.
* ImplementsLifecycle and the theorem LifecycleRefined assume no cancel request. With MaxCancels = 1 Cancel reads
  the status, looks for a runner and writes failed in three steps, so that a job
  that succeeds in between turns into a failed one (`manager.go:437`), and a job
  it has failed before its runner started turns into a running one
  (`manager.go:539`).
* NoLeakedRuntime knows three owners of a container: an instance row, the runner that
  holds the runtime, and a runtime.Start under way. It excuses containers that a call
  of Stop has left running: because docker refused (cleanupRuntime ignores that,
  `execution.go:1405`), or because Start stopped its container under the job's
  cancelled context (`execution.go:1005`, `engine/runtime/docker.go:468`), which
  Jobs_v_cancelled_start shows without any refusal of docker.
* EventuallyEnds excepts a job that polls for ever (MayWait): an engine that dies leaves `.build.lock` or `.init.lock` behind, and
  nothing but a cancel ends the loop of `execution.go:1301`. So after a crash it says
  that a job ends, is deleted, or is caught in that one loop, and nowhere else. Before a
  crash every holder of a lock lives, and Waiting shows that the wait ends.
* A crash after the instance row and before its task is marked replays
  prepare_instance: NoLeakedRuntime speaks of the running engine only, and a job
  may own one instance per engine run.
* What CopySound says of instances and of the data of states holds as long as only
  one job goes past the first step. With two jobs on two steps Build_v_stale_runtime refutes the
  first; with a third step the job that carries a stale runtime commits what it
  builds in it, and the second falls too. A Liquibase job keeps the runtime of
  planning, an empty database, when all its states are cached (Liquibase = {a},
  Preloaded = N). That a cached row has a complete directory (RowsWhole) holds for any number of jobs and steps: section 5 proves it.
* A failed CreateState on copy removes the state directory with the lock in it
  (`execution.go:432`), and a second builder may come in: no property covers that.
* On the copy backend the marker `.build.ok` lies inside the state directory and
  is copied with the data into the next state before that state is committed. A
  waiter that sees it breaks the builder's lock. StepLeavesState is therefore
  checked and proved on btrfs only, and one builder per state on copy without
  failures.
* On btrfs the marker survives eviction, and eviction does not protect the input
  of a step that is about to start: not even the check of the step itself spares it
  (`execution.go:289`). BuiltByOne, RowsWhole and StepLeavesState, in the run and in
  the theorems, speak of the time until the first eviction (Undisturbed); Waiting
  shows that with evictions every job still ends. Between the removal of a directory
  and of its row the row says cached for a state that is gone; a job that needs it then
  fails.
* EveryBuildEnds and EveryStartSettles assume that no engine crashes while it
  holds a lock file (Build_v_orphan_lock shows the first; `.init.lock` behaves the
  same). The eviction lock is the one that is cleaned up, after five minutes,
  for which also the start-up check of the next engine waits; in these five
  minutes a slow eviction loses its lock too: EvictionBounded holds until then.
* BaseComplete leaves out two ways to a half-made base directory: an initdb cut
  short that has written PG_VERSION (or a PG_VERSION that cannot be inspected), which
  `execution.go:1050` takes for success, and two jobs that both wipe the directory
  of another backend.
* OneServer holds also when the container of a run stays because its client went away:
  its name keeps any other from starting. The price is outside the property: while the
  row names the old container, every later run request fails on that name until the
  container is removed by hand.
* DeletionOrdered leaves out instances a run brought back while they were deleted
  and those whose stop was skipped because docker did not answer: their container
  or directory stays without a row. It also leaves out states that prepare jobs
  commit while a deletion is under way (NewStates): the deletion has not read them.
* FailedStartCleans leaves out a Stop that fails, as it does when the caller's
  context is the reason of the failed start (`docker.go:468` uses it).
* AckedReadable, in ConfigSound: when a request has failed in syncDir after the rename
  (`config.go:747`), the file holds exactly what that request wrote and memory what was
  acknowledged; the next engine starts on the file, so the acknowledged value may be
  lost by a restart. The two are apart from the failed request until that
  restart.
* SettingsLoad speaks of changes that validation looks at. Setting the map
  `cache.capacity` as a whole, or a value above it, is accepted unseen, and every later
  prepare job is refused (`docs/architecture/state-cache-capacity-control.md:61`
  describes checks that are made on single values only).
* SingleEngine holds until one of the events recorded by `excuse`.
* StateFaithful leaves out edits under a psql job of several steps and under a
  Liquibase job, where later steps follow the plan, and edits of a file between the
  digest of a step and its execution, which only an advisory lock forbids on Unix
  (`prepare/content_lock.go:22`): then even the state of a job of a single step need not
  hold what its id says.
* SessionSound, for a login, leaves out failures of Google and of the store, commands
  that overlap while one of them acts on a refresh token Google has replaced or
  revoked, and a logout that overlaps another command. For a logout it leaves out
  one case only: a refresh that was under way when the logout succeeded may put its
  session back (`cli/authsession/manager.go:394`).
* EndsClean leaves out the alias stage and the unknown run kind described above, a
  job whose connection was lost, and what the user asked to keep.
* DataKept leaves out a device that blkid cannot read without root
  (`cli/app/init_btrfs_linux.go:249`): it then looks unformatted.
* EngineOnStore leaves out a second disk of exactly the size of the store, which
  selectDiskBySize (`cli/app/init_wsl_storage.go:346`) may take for it.

## 4. Fairness

`PrepareJobs`: weak fairness of each retention pass, of the cancel and delete requests,
of Recover, and of each runner except where it may be polling for a lock file left by
a dead engine (MayWait: after a crash, at planning or in a state_execute task, while no
runtime.Start is under way and the job is not cancelled). Goroutines are scheduled by the Go
runtime; the other calls a runner makes end with the process they run or at a timeout,
and a poll ends when the holder of the lock does (module `StateBuild`, `BaseInit`) or
when the job is cancelled; the engine is started again by the next command of the
user. Submitting, cancelling, deleting,
crashing and refusing events are not fair. `StateBuild`: weak fairness of each job,
waiting for a lock included: it is a polling loop, and the runs that use it have no
crash, or show that the loop does not end (Build_v_orphan_lock). `JobEvents`: weak fairness of
the runner, the stream, the client and each heartbeat goroutine. `BaseInit` and
`CacheCapacity`: weak fairness of every caller, and of time, so that a lock file
that stays gets old. `EngineProcess`: weak fairness of engines and commands, and of
the idle ticker, which ticks as long as the process lives.

## 5. Proofs

Each proofs module extends the module it is about, or the composition of several;
its assumptions are the named ASSUMEs of that module, which fix the types of the
constants and that markers such as None are not elements. Two say more.
CacheAssumption of `EngineLocks`: sizes are natural numbers, no step builds a state
that is in the cache already, and a larger set of state directories takes at least
as many bytes; the last is a fact about sums of natural numbers, which TLC evaluates
on the instance and which would need induction to prove. SyncAssumption of
`CommandLine`: every version of a file has a content, and what scripts include are
files of the workspace. No theorem bounds the number of jobs, requests, steps,
containers, engines, commands, rounds, faults or crashes. Every invariant below was
checked with TLC on an instance like those of the runs before it was proved. The layout is the same
everywhere: the invariant as named parts, frame lemmas that say once what most
actions leave alone, one step per action, and the temporal step last.

| Theorem | Module | States |
|---|---|---|
| TypeCorrect | `PrepareJobsProofs` | `[]TypeOK` |
| SucceededStaysUsable, NothingLeaked, PlanOnlyCreatesNothing | `PrepareJobsProofs` | `[]SucceededUsable`, `[]NoLeakedRuntime`, `[]PlanCreatesNothing` |
| RetentionHolds | `PrepareJobsProofs` | `[]RetentionBound` |
| LifecycleRefined | `PrepareJobsProofs` | without cancel requests, Init and every step of `JobLifecycle` under the mapping JobStatus |
| BuildTypes | `StateBuildProofs` | `[]TypeOK`, on every backend |
| OneBuilder, RowsAreWhole, StepsAreCached | `StateBuildProofs` | `[]BuiltByOne`, `[]RowsWhole`, StepLeavesState |
| BaseTypes, OneInitdb, UsedOnlyComplete, BaseAlwaysComplete | `EngineLocksProofs` | `[]TypeOK`, `[]InitExclusive`, `[]UsedComplete`, `[]BaseComplete` |
| CacheTypes, EvictionsBounded | `EngineLocksProofs` | `[]TypeOK` of `CacheCapacity`, `[]EvictionBounded` |
| InstanceTypes, OneServerEach, DeletesInOrder | `InstancesProofs` | `[]TypeOK`, `[]OneServer`, `[]DeletionOrdered` |
| RuntimeTypes, StartCleansUp, SnapshotsAreSafe | `ContainerRuntimeProofs` | `[]RuntimeTypeOK`, `[]FailedStartCleans`, `[]SnapshotSound` |
| EngineTypes, OneEngine, ConnectedRight | `CommandLineProofs` | `[]TypeOK`, `[]SingleEngine`, ConnectsToItself |
| SyncsFaithfully | `CommandLineProofs` | `[]SyncFaithful` of `SourceSync` |
| SessionsSound | `CommandLineProofs` | `[]SessionSound` of `AuthSession` |
| CommandsEndClean | `CommandLineProofs` | `[]EndsClean` of `StagePipeline` |
| EngineRunsOnStore | `InitProofs` | `[]EngineOnStore` of `InitWSL` |
| InitsRepeatable | `InitProofs` | `[]InitRepeatable` of `InitLocal` |
| InitsKeepData | `InitProofs` | DataKept of both |
| EventTypes, FollowsTheLog | `JobEventsProofs` | `[]TypeOK`, `[]InOrder` |

### PrepareJobs

None of the safety properties is inductive. The invariant IInv adds, in three
groups:

* Owned: which identifiers have been handed out (Issued), that a deleted row
  has no runner that could make it succeeded again (Gone), that the directory a
  retention pass (TrimSafe) or a delete request (DeleteSafe) is about to remove
  belongs to a job that has no row any more, and that an engine that is down has no
  local state (Stopped). Without it, removing a directory could hit a succeeded
  job.
* Control: what a runner has made by the time it reaches a control point. From
  the insert on it holds its runtime and its instance row (Created); after the
  status has been written it keeps them until the flag is set (AfterSuccess); a
  plan-only job never stands at a point of the task loop (PlanOnly); a start is under
  way only at planning or in a task, and of a runner without a runtime (Booting).
* Outside: a runtime that a runner holds or starts is a container and a directory of the
  current engine run (HeldRuntime), and instances and containers carry the number
  of a run that has been (PastRuns); with the three properties themselves.

RetentionHolds needs RInv on top. A first idea, "the excess of a signature is on
the list of some pass, or some job has yet to make its pass", is not inductive: the
job that has yet to make its pass may be deleted before it does, and then nobody
answers for the excess. So Swept speaks of the settled jobs only, those that have
ended and have no pass to make (ToTrim): one that MaxIdentical settled jobs of its
signature are newer than is on the list of a pass that nothing can stop. A job that
ends joins the settled ones together with a list it has read at that moment
(SweptAgain); a job that is deleted, started again or finished a second time by a
late cancel only leaves them (SweptFrame). The pass after planning does not count,
since a cancelled context ends it half way. SignedByPlan covers the job that is
cancelled before its runner has looked at it: it ends without a pass, and without a
signature. FinishOrder says that no two jobs have finished at the same time, so the
oldest of more than MaxIdentical jobs would be listed, and when everything is quiet
nothing is (QuietBound; the oldest job exists because strict inclusion of finite
sets is well founded). RInv was checked with TLC on two jobs with a cancel and a
delete (6.7 million states) before it was proved.

LifecycleRefined needs a different invariant, Forward: without cancel requests no
request writes a status, and the point at which a runner stands bounds what its
row may be (RowAt). A runner that has not written running yet sees a queued, a
running or no row; one in the task loop a running one or none. So every write of
a status is a move of the life cycle, also when the row has gone meanwhile, in
which case the UPDATE changes nothing. Deletes, refused events, retention and
crashes are allowed; cancel requests are not, because the code really breaks the
life cycle then (section 3). The theorem is about the initial states and the
steps; which jobs end is EventuallyEnds, which TLC checks.

### StateBuild

The type invariant needs to know that only a job that waits for room has the
eviction (EvictTypes). The safety invariant Core is claimed while Undisturbed:
lock and marker outside the directory (btrfs), and nothing evicted. It has three
parts. Rows: a marker implies a row, a row implies a filled directory. Own(j): a
job between lock and unlock whose state has no row holds the lock file of that
state; while it builds, the row is missing; before the commit the directory is
filled; the runtime it copies from carries no marker. Apart(j, k): between the
row and the marker nobody else is under the lock of that state. The last one is
the delicate one: a job that finds the row after it got the lock is under the lock
of a state that is finished, and a waiter that sees the marker removes a lock that
is not its own (`execution.go:1312`). What makes this harmless is that the marker
comes after the row, so whoever gets in after that rechecks and finds the state.
A crash that leaves a lock behind is covered: it costs liveness, not safety.

### BaseInit

LockRespected: without a marker there is one job at most between lock and unlock,
and the lock file exists. MarkerEndsWork: with a marker nobody works in the
directory, and the marker stays. A waiter removes a lock that is not its own only
when it sees the marker, so the two together give InitExclusive although the lock
is not exclusive. DataWhole: data that is not whole belongs to the initdb that is
running, which gives UsedComplete. NoWipe isolates the directory of another
backend, which the properties exclude.

### CacheCapacity

LockRespected: until a lock file is five minutes old nobody removes one that is not
its own, and whoever evicts has it; that is EvictExclusive. MeasuredSince: a pass
that has removed more states too many than removals have failed has measured since,
and since then the store has only grown, because nobody else evicts; so it is
about to stop (FewUnneeded). OnlyOldListed: with minStateAge, lists hold old
states only, which gives CommittedKept. That ListEvictionCandidates has a value at
all, a sorted enumeration of any finite set of states, is a lemma of its own
(LastOne and what follows it): a set without a last element would have a least one
of that kind, and one element less would be smaller.

### Instances

IInv has a part for instances and one for the tree of states. For instances
(InstInv): a container other than the first one means that the first is gone for
good and a run has re-created it (BoxOk), which is why the fixed name that
recreateContainer gives is enough for OneServer; what a run (RunOk) or a delete
request (Knows) has read of an instance stays true, or the instance is marked
touched. For the tree (StateInv): every old child of a state in a deletion plan
is in the plan or still to be visited (Pending, Tidy), so when the row of a state
goes, its directory and its children have gone, whichever request removed them.
RowsAssumption says that the rows of the start refer to rows of the start.

### ContainerRuntime

The parts of the invariant follow the call in progress: before docker run there
is no container (NoContainerYet), after it there is one that the error path stops
(HasContainer); a server that was started has a whole cluster below it
(ClusterFull); between verifyStopped and the copy the server is down and the
directory open, and it is closed before the server is resumed (SnapshotWindow).

### EngineProcess

Until one of the events recorded by `excuse`, the invariant Shared says: one
engine is alive (OneLive); while it boots, the command that started it waits for
it and therefore holds the start lock (StarterWaits with LockHeld); once it
has written engine.json, the file names it (FileNamesIt); so a command that reads
the file under the lock has the only live engine at hand (SeenUnderLock), and one
about to spawn knows that there is none (NoneLeft). ConnectedRight follows from
the check of the instance id alone and needs no excuse.

### AuthSession, SourceSync, StagePipeline

`AuthSession`: LoggedOutInv gives LogoutSticks, without any excuse. After a logout
there is nothing to refresh, so no refresh begins, and the ones that run were under way
when the logout succeeded: until one of them stores its session, the store is empty.
For the login, until an excuse, Guarded says that a logout runs alone and holds the
session that is stored (LogoutAlone), that commands overlap only while the stored
session and what each of them holds is honoured by Google (OverlapUsable), and what
each command is about to write (TokensHonoured): what it will put is honoured, what
it will drop is not, and is not what the user relies on. The excuse is decided when
a command begins, so the invariant speaks of the store, of what commands hold and
of what Google honours at once. IDs of tokens are compared with the time read
before the refresh; that a refreshed token outlives that time uses Life > 0.

`SourceSync`: a blob of the server has the content its digest names, since only
what was hashed is uploaded (StillAsked) and losses only remove (BlobsFaithful); an
accepted manifest lacks nothing. The other half, OnlyRoundsFail, needs that without
edits, losses and faults the manifest says what the files are, and that a refusal
names something the manifest does not have yet.

`StagePipeline`: three parts. TempsOwned: from the binding on, the cleanup of the
stage owns every directory that is not to stay, before it there is at most the
worktree of an alias. JobFollowed: a stage with a ref follows its job until it ends.
DeletionDue: a run stage follows a job that ended with an instance, and its deletion
is registered before anything of that stage can fail. NoRefNoTemps says that only a
stage without a ref is followed by another.

### InitLocal and InitWSL

`InitLocal`: MountsSound says what a mount stack implies of the block below it;
StepsSound says for every step of an init what has been found or done by then (which
path the store has, what is mounted, what the block holds that will be formatted or
mounted). RerunSucceeds is the delicate one: a failure without a fault is one of
the five refusals, so every other guard of a step must follow from the steps before
it, in this or in an earlier command that was killed anywhere. DataKept follows from
the same invariant step by step. `InitWSL`: MountsSound, and UnitsSound, which says
that a mount unit that starts at boot names a btrfs disk, because an init that may
format has disabled the unit of the store it gives up; without it a restart of WSL
would bring the engine up on a disk that is being made.

The proofs corrected the model of `InitLocal` in three places. The path of the store
is resolved once, when the command begins (`cli/app/init.go:140`), and was computed
anew at each step, which makes a difference when something is mounted meanwhile; a
failing mkfs cannot have wiped a device that is mounted; and two arms of the
definition of the store's type overlapped, which CASE leaves open.

### JobEvents

After(s, l, n) says that s is what log l holds after its first n events. What the
client has processed is a prefix of the log; the batch of the stream starts at the
stream's index; the wire holds what lies between the client's index and the
stream's (Position). Over a broken connection the client's index starts again
below what it has processed, and the events on the wire up to there are the ones
it skips. Seven lemmas say what Append, Head and Tail do to After.

### Only model-checked

* Everything with fairness (EventuallyEnds, ClientEnds, the four of Waiting): liveness and ENABLED are out of the prover's
  reach.
* CopySound: its bound (one job past the first step) is what makes it true.
* ConfigSound, StateFaithful and InputsSound: paths in JSON values, the expansion of
  included files and the closure of an include graph are recursive definitions,
  and what they compute for every input takes induction over data: the library's
  induction theorems have an operator as a parameter, which the installed provers
  cannot instantiate. (Arguments by a minimal finite set, as for RetentionHolds and
  for the candidates of an eviction, do without.)
* TypesOK of Waiting and Client, the conjunction of the types of their components;
  the types of all components with a proof are theorems or parts of the proved
  invariants.

## 6. Not modelled

Listing and rendering (`cli/cli/commands_ls.go`), discovery, diff, alias files,
paths and the configuration of the command line are sequential code over text; the
registry and cache explain only read. Image resolution, the text Liquibase prints,
tool output, overlay mounts and the detection of a snapshot backend are left out;
what would depend on them is a free choice. Instances are never deleted in
`PrepareJobs`: deletion is in `Instances`, where jobs appear as what they add to
the store. The server side of source upload is not in this repository and is
modelled from what the client expects of it.

Liveness and refinement with fairness are out of the prover's reach and stay with
TLC; so do what recursive definitions compute for every input (the include graphs
of `InputSet` and the texts of `PrepareContent` are checked over bounded inputs).

## 7. Plan

Done: the modules of section 2; types and safety of thirteen modules for every
value of the constants, every invariant of the runs among them but the four that
rest on recursive definitions or on their bound; the steps of `JobLifecycle`.

Next, in this order:

1. StateFaithful with the expansion of a file as a constant function of the
   versions it reads, so that the recursion is out of the module that is proved
   about.
2. The structural half of InputsSound: what is collected is reached from the
   arguments, each file once.
3. LifecycleRefined with cancel requests, for the jobs that are not cancelled.
4. Runs for the three disagreements of section 3 whose steps the models have already:
   a configuration request that fails after the rename, an edit under an advisory
   lock, a logout undone by a refresh.
