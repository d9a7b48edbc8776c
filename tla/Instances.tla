----------------------------- MODULE Instances -----------------------------
(***************************************************************************)
(* Deleting instances and states (internal/deletion) while other requests  *)
(* run commands in the same instances (internal/run) and prepare jobs      *)
(* register new instances and states.  Every store query, docker command   *)
(* and file system call is a step of its own: the engine holds no lock     *)
(* between them, and it may crash between any two of them.                 *)
(***************************************************************************)
EXTENDS Naturals, FiniteSets

CONSTANTS
    States,      \* ids of states
    NewStates,   \* those a prepare job commits during the run
    Parent,      \* Parent[s]: the parent state id, or None for a child of the base
    Insts,       \* ids of instances
    NewInsts,    \* those a prepare job registers during the run
    StateOf,     \* StateOf[i]: the state an instance was cloned from
    Reqs,        \* requests, each of them a DELETE or a POST /v1/runs
    MaxSteps,    \* psql steps of one run request
    MaxStarts,   \* bound on the containers started by run requests
    MaxFaults,   \* bound on failing calls, lost containers and docker outages
    MaxCrashes   \* bound on crashes of the engine

None == "none"

\* At the start the rows are whole: a prepare job commits a state after its parent and registers an
\* instance of a state that it has, so what the rows of the start refer to exists at the start.
ASSUME RowsAssumption ==
    /\ NewStates \subseteq States /\ NewInsts \subseteq Insts
    /\ None \notin States \cup Insts
    /\ Parent \in [States -> States \cup {None}]
    /\ StateOf \in [Insts -> States]
    /\ \A s \in States \ NewStates : Parent[s] \notin NewStates
    /\ \A i \in Insts \ NewInsts : StateOf[i] \notin NewStates

ASSUME BoundsAssumption ==
    MaxSteps \in Nat /\ MaxStarts \in Nat /\ MaxFaults \in Nat /\ MaxCrashes \in Nat

\* A container id: the one a prepare job left for its instance, or the n-th that a run started.
Box == [inst : Insts, n : 0..MaxStarts]

VARIABLES
    srow,     \* the rows of table states
    sdir,     \* the states whose directory exists
    fresh,    \* instances that no prepare job has registered yet
    irow,     \* the rows of table instances
    rid,      \* rid[i]: column runtime_id
    idir,     \* idir[i]: the runtime directory: absent, a data directory, or one without PG_VERSION
    up,       \* the containers that run
    docker,   \* whether the docker daemon answers
    del,      \* del[d]: the delete requests
    run,      \* run[r]: the run requests
    starts, faults, crashes,
    touched   \* history: instances a run re-created a container for, or whose stop was skipped

vars == <<srow, sdir, fresh, irow, rid, idir, up, docker, del, run, starts, faults, crashes, touched>>

store == <<srow, fresh, irow, rid>>
files == <<sdir, idir>>
bounds == <<starts, faults, crashes>>

\* A node of a deletion tree: a state, or an instance with the runtime id that its row had when
\* the tree was built.
NoBox == [inst |-> None, n |-> 0]
StateNode(s) == [kind |-> "state", id |-> s, box |-> NoBox]
InstNode(i) == [kind |-> "instance", id |-> i, box |-> rid[i]]
NoNode == StateNode(None)

NoDelete == [pc |-> "idle", todo |-> {}, plan |-> {}, node |-> NoNode]
NoRun == [pc |-> "idle", inst |-> None, box |-> NoBox, left |-> 0]

Fault == faults < MaxFaults /\ faults' = faults + 1
NoFault == UNCHANGED faults

Unused(q) == del[q].pc = "idle" /\ run[q].pc = "idle"

(***************************************************************************)
(* The store, the runtime and the file system as the requests use them.    *)
(***************************************************************************)
ListInstances(s) == {i \in irow : StateOf[i] = s}
ListStates(s) == {c \in srow : Parent[c] = s}

\* DELETE FROM states: the foreign key of table instances refuses it while an instance refers to the row.
DeleteStateRow(s) == ListInstances(s) = {} /\ srow' = srow \ {s}

\* docker rm -f: a container that is already gone counts as stopped.
StopRuntime(b) ==
    \/ /\ docker
       /\ up' = up \ {b}
       /\ UNCHANGED touched
       /\ NoFault
    \/ /\ ~docker                     \* DockerUnavailableError is swallowed
       /\ touched' = touched \cup {b.inst}
       /\ UNCHANGED up
       /\ NoFault

(***************************************************************************)
(* DELETE /v1/instances/{id}, DELETE /v1/states/{id}?recurse.  The         *)
(* production tracker (conntrack.Noop) reports no connections, so an       *)
(* instance never blocks a deletion; a dry run ends after the look-up.     *)
(***************************************************************************)
Answer(d) == del' = [del EXCEPT ![d] = [NoDelete EXCEPT !.pc = "done"]]

DeleteInstance(d, i) ==
    /\ Unused(d)
    /\ \/ i \notin irow /\ Answer(d)
       \/ i \in irow /\ Answer(d)                  \* dry run
       \/ /\ i \in irow
          /\ del' = [del EXCEPT ![d].pc = "tree", ![d].plan = {InstNode(i)}]
    /\ UNCHANGED <<store, files, up, docker, run, bounds, touched>>

DeleteState(d, s, recurse) ==
    /\ Unused(d)
    /\ \/ s \notin srow /\ Answer(d)
       \/ /\ s \in srow
          /\ del' = [del EXCEPT ![d].pc = IF recurse THEN "get" ELSE "insts",
                                ![d].todo = {s}]
    /\ UNCHANGED <<store, files, up, docker, run, bounds, touched>>

\* hasDescendants asks two questions, one query each; either answer "yes" blocks the request.
HasInstances(d) ==
    /\ del[d].pc = "insts"
    /\ \E s \in del[d].todo :
          IF ListInstances(s) # {} THEN Answer(d) ELSE del' = [del EXCEPT ![d].pc = "childs"]
    /\ UNCHANGED <<store, files, up, docker, run, bounds, touched>>

HasChildren(d) ==
    /\ del[d].pc = "childs"
    /\ \E s \in del[d].todo :
          \/ Answer(d)                              \* has_descendants, or a dry run
          \/ /\ ListStates(s) = {}
             /\ del' = [del EXCEPT ![d].pc = "tree", ![d].todo = {},
                                   ![d].plan = {StateNode(s)}]
    /\ UNCHANGED <<store, files, up, docker, run, bounds, touched>>

\* buildStateNode visits the tree with three queries per state; a child that vanished meanwhile is an error.
VisitState(d) ==
    /\ del[d].pc = "get"
    /\ \E s \in del[d].todo :
          \/ s \notin srow /\ Answer(d)
          \/ /\ s \in srow
             /\ del' = [del EXCEPT ![d].pc = "list", ![d].node = StateNode(s), ![d].todo = @ \ {s}]
    /\ UNCHANGED <<store, files, up, docker, run, bounds, touched>>

VisitInstances(d) ==
    /\ del[d].pc = "list"
    /\ LET s == del[d].node.id IN
       del' = [del EXCEPT ![d].pc = "down",
                          ![d].plan = @ \cup {InstNode(i) : i \in ListInstances(s)}
                                        \cup {StateNode(s)}]
    /\ UNCHANGED <<store, files, up, docker, run, bounds, touched>>

VisitChildren(d) ==
    /\ del[d].pc = "down"
    /\ LET todo == del[d].todo \cup ListStates(del[d].node.id) IN
       \/ del' = [del EXCEPT ![d].pc = IF todo = {} THEN "tree" ELSE "get",
                             ![d].todo = todo, ![d].node = NoNode]
       \/ todo = {} /\ Answer(d)                    \* dry run
    /\ UNCHANGED <<store, files, up, docker, run, bounds, touched>>

\* The nodes that deleteTree may take next: every planned node below them is done.  (The order of
\* siblings is the order of the query's rows, which nothing relies on.)
Below(plan, s) == {n \in plan : IF n.kind = "instance" THEN StateOf[n.id] = s ELSE Parent[n.id] = s}
Leaves_TopDown(plan) == plan   \* mutant: a node before its children
Leaves(plan) == {n \in plan : n.kind = "instance" \/ Below(plan, n.id) = {}}

\* deleteTree, instance: stop the container the plan recorded, remove the directory, delete the row.
StopInstance(d) ==
    /\ del[d].pc = "tree"
    /\ \E n \in Leaves(del[d].plan) :
          /\ n.kind = "instance"
          /\ \/ StopRuntime(n.box) /\ del' = [del EXCEPT ![d].pc = "dir", ![d].node = n]
             \/ docker /\ Fault /\ Answer(d) /\ UNCHANGED <<up, touched>>
    /\ UNCHANGED <<store, files, docker, run, starts, crashes>>

\* RemovePath, then RemoveAll, then a rename aside: an error means that all three failed, possibly half way.
RemoveRuntimeDir(d) ==
    /\ del[d].pc = "dir"
    /\ LET i == del[d].node.id IN
       \/ /\ idir' = [idir EXCEPT ![i] = "absent"]
          /\ del' = [del EXCEPT ![d].pc = "row"]
          /\ NoFault
       \/ /\ Fault
          /\ idir' \in {idir, [idir EXCEPT ![i] = IF @ = "absent" THEN @ ELSE "bare"]}
          /\ Answer(d)
    /\ UNCHANGED <<store, sdir, up, docker, run, starts, crashes, touched>>

DeleteInstanceRow(d) ==
    /\ del[d].pc = "row"
    /\ LET n == del[d].node IN
       /\ irow' = irow \ {n.id}
       /\ del' = [del EXCEPT ![d] = [NoDelete EXCEPT !.pc = IF del[d].plan = {n} THEN "done" ELSE "tree",
                                                     !.plan = del[d].plan \ {n}]]
    /\ UNCHANGED <<srow, fresh, rid, files, up, docker, run, bounds, touched>>

\* deleteTree, state: remove the directory, then the row.
RemoveStateDir(d) ==
    /\ del[d].pc = "tree"
    /\ \E n \in Leaves(del[d].plan) :
          /\ n.kind = "state"
          /\ \/ /\ sdir' = sdir \ {n.id}
                /\ del' = [del EXCEPT ![d].pc = "srow", ![d].node = n]
                /\ NoFault
             \/ Fault /\ Answer(d) /\ UNCHANGED sdir
    /\ UNCHANGED <<store, idir, up, docker, run, starts, crashes, touched>>

RemoveStateRow(d) ==
    /\ del[d].pc = "srow"
    /\ LET n == del[d].node IN
       \/ /\ DeleteStateRow(n.id)
          /\ del' = [del EXCEPT ![d] = [NoDelete EXCEPT !.pc = IF del[d].plan = {n} THEN "done" ELSE "tree",
                                                        !.plan = del[d].plan \ {n}]]
       \/ ListInstances(n.id) # {} /\ Answer(d) /\ UNCHANGED srow
    /\ UNCHANGED <<fresh, irow, rid, files, up, docker, run, bounds, touched>>

(***************************************************************************)
(* POST /v1/runs: resolve the instance once, then execute the steps, each  *)
(* with one recovery when its container is missing.                        *)
(***************************************************************************)
EndRun(r) == run' = [run EXCEPT ![r] = [NoRun EXCEPT !.pc = "done"]]

Run(r, i, n) ==
    /\ Unused(r)
    /\ IF i \in irow
       THEN run' = [run EXCEPT ![r] = [pc |-> "exec", inst |-> i, box |-> rid[i], left |-> n]]
       ELSE EndRun(r)
    /\ UNCHANGED <<store, files, up, docker, del, bounds, touched>>

LastStep_OffByOne(q) == q.left = 0   \* mutant: the loop over the steps runs once too often
LastStep(q) == q.left = 1

Exec(r) ==
    /\ run[r].pc \in {"exec", "again"}
    /\ LET q == run[r] IN
       \/ /\ docker /\ q.box \in up
          /\ IF LastStep(q) THEN EndRun(r)
             ELSE run' = [run EXCEPT ![r].pc = "exec", ![r].left = q.left - 1]
       \/ /\ docker /\ q.box \notin up
          /\ IF q.pc = "exec" THEN run' = [run EXCEPT ![r].pc = "stat"] ELSE EndRun(r)
       \/ EndRun(r)      \* the command fails, docker does not answer, or the client is gone
    /\ UNCHANGED <<store, files, up, docker, del, bounds, touched>>

\* recreateContainer: the runtime directory must exist when it is looked at.
StatRuntimeDir(r) ==
    /\ run[r].pc = "stat"
    /\ IF idir[run[r].inst] = "absent" THEN EndRun(r) ELSE run' = [run EXCEPT ![r].pc = "start"]
    /\ UNCHANGED <<store, files, up, docker, del, bounds, touched>>

\* Start: ensureDataDirOwner mounts the directory, which docker creates when it is missing; the
\* container is named after the instance, and docker refuses a name that is in use.
NameFree_Unnamed(i) == TRUE   \* mutant: docker run without --name
NameFree(i) == \A b \in up : b.inst = i => b.n = 0

StartContainer(r) ==
    /\ run[r].pc = "start"
    /\ LET i == run[r].inst IN
       \/ /\ docker /\ starts < MaxStarts /\ NameFree(i)
          /\ LET b == [inst |-> i, n |-> starts + 1] IN
             /\ up' = up \cup {b}
             /\ run' = [run EXCEPT ![r].pc = "check", ![r].box = b]
          /\ starts' = starts + 1
          /\ idir' = [idir EXCEPT ![i] = IF @ = "absent" THEN "bare" ELSE @]
          /\ touched' = touched \cup {i}
       \/ /\ docker /\ ~NameFree(i)
          /\ EndRun(r)
          /\ idir' = [idir EXCEPT ![i] = IF @ = "absent" THEN "bare" ELSE @]
          /\ touched' = touched \cup {i}
          /\ UNCHANGED <<up, starts>>
       \/ EndRun(r) /\ UNCHANGED <<up, starts, idir, touched>>    \* docker does not answer, or docker run fails
    /\ UNCHANGED <<store, sdir, docker, del, faults, crashes>>

\* The error paths stop the container they started, in the context of the request and without a look
\* at the result: when docker does not answer, or the client has gone away, the container stays.
StopStarted(b) == up' \in {up, IF docker THEN up \ {b} ELSE up}

\* The rest of Start: without PG_VERSION, when the server does not come up, or when the client goes
\* away, the container is stopped again.
CheckStarted(r) ==
    /\ run[r].pc = "check"
    /\ LET q == run[r] IN
       \/ /\ docker /\ idir[q.inst] = "data" /\ q.box \in up
          /\ run' = [run EXCEPT ![r].pc = "update"]
          /\ UNCHANGED up
       \/ StopStarted(q.box) /\ EndRun(r)
    /\ UNCHANGED <<store, files, docker, del, bounds, touched>>

\* UPDATE instances SET runtime_id: no error when the row is gone; a failing update stops the container.
UpdateInstanceRuntime(r) ==
    /\ run[r].pc = "update"
    /\ LET q == run[r] IN
       \/ /\ rid' = IF q.inst \in irow THEN [rid EXCEPT ![q.inst] = q.box] ELSE rid
          /\ run' = [run EXCEPT ![r].pc = "again"]
          /\ UNCHANGED up
       \/ StopStarted(q.box) /\ EndRun(r) /\ UNCHANGED rid
    /\ UNCHANGED <<srow, fresh, irow, files, docker, del, bounds, touched>>

(***************************************************************************)
(* A prepare job beside them (module StateBuild has its steps): it commits *)
(* a state, and registers an instance with its container and directory     *)
(* unless the foreign key refuses the row.                                 *)
(***************************************************************************)
CreateState(s) ==
    /\ s \in NewStates \ srow
    /\ srow' = srow \cup {s}
    /\ sdir' = sdir \cup {s}
    /\ UNCHANGED <<fresh, irow, rid, idir, up, docker, del, run, bounds, touched>>

CreateInstance(i) ==
    /\ i \in fresh /\ StateOf[i] \in srow /\ docker
    /\ fresh' = fresh \ {i}
    /\ irow' = irow \cup {i}
    /\ idir' = [idir EXCEPT ![i] = "data"]
    /\ up' = up \cup {rid[i]}
    /\ UNCHANGED <<srow, rid, sdir, docker, del, run, bounds, touched>>

(***************************************************************************)
(* Faults: a container stops (--rm removes it), docker goes away and comes *)
(* back, the engine crashes.  Requests die with it; everything else stays. *)
(***************************************************************************)
LoseContainer(b) ==
    /\ b \in up
    /\ Fault
    /\ up' = up \ {b}
    /\ UNCHANGED <<store, files, docker, del, run, starts, crashes, touched>>

DockerDown ==
    /\ docker /\ Fault
    /\ docker' = FALSE
    /\ up' \in {up, {}}
    /\ UNCHANGED <<store, files, del, run, starts, crashes, touched>>

DockerBack ==
    /\ ~docker
    /\ docker' = TRUE
    /\ UNCHANGED <<store, files, up, del, run, bounds, touched>>

Crash ==
    /\ crashes < MaxCrashes
    /\ crashes' = crashes + 1
    /\ del' = [d \in Reqs |-> IF del[d].pc = "idle" THEN del[d] ELSE [NoDelete EXCEPT !.pc = "done"]]
    /\ run' = [r \in Reqs |-> IF run[r].pc = "idle" THEN run[r] ELSE [NoRun EXCEPT !.pc = "done"]]
    /\ UNCHANGED <<store, files, up, docker, starts, faults, touched>>

Finished ==
    /\ \A q \in Reqs : "done" \in {del[q].pc, run[q].pc}
    /\ UNCHANGED vars

-----------------------------------------------------------------------------
Init ==
    /\ srow = States \ NewStates /\ sdir = srow
    /\ irow = Insts \ NewInsts /\ fresh = NewInsts
    /\ rid = [i \in Insts |-> [inst |-> i, n |-> 0]]
    /\ idir = [i \in Insts |-> IF i \in irow THEN "data" ELSE "absent"]
    /\ up = {rid[i] : i \in irow}
    /\ docker = TRUE
    /\ del = [d \in Reqs |-> NoDelete]
    /\ run = [r \in Reqs |-> NoRun]
    /\ starts = 0 /\ faults = 0 /\ crashes = 0
    /\ touched = {}

DeleteStep(d) ==
    \/ \E i \in Insts : DeleteInstance(d, i)
    \/ \E s \in States, recurse \in BOOLEAN : DeleteState(d, s, recurse)
    \/ HasInstances(d) \/ HasChildren(d)
    \/ VisitState(d) \/ VisitInstances(d) \/ VisitChildren(d)
    \/ StopInstance(d) \/ RemoveRuntimeDir(d) \/ DeleteInstanceRow(d)
    \/ RemoveStateDir(d) \/ RemoveStateRow(d)

RunStep(r) ==
    \/ \E i \in Insts, n \in 1..MaxSteps : Run(r, i, n)
    \/ Exec(r) \/ StatRuntimeDir(r) \/ StartContainer(r) \/ CheckStarted(r) \/ UpdateInstanceRuntime(r)

Next ==
    \/ \E d \in Reqs : DeleteStep(d)
    \/ \E r \in Reqs : RunStep(r)
    \/ \E s \in NewStates : CreateState(s)
    \/ \E i \in NewInsts : CreateInstance(i)
    \/ \E b \in Box : LoseContainer(b)
    \/ DockerDown \/ DockerBack \/ Crash \/ Finished

Spec == Init /\ [][Next]_vars

-----------------------------------------------------------------------------
StateNodes == [kind : {"state"}, id : States, box : {NoBox}]
InstNodes == [kind : {"instance"}, id : Insts, box : Box]
DelRec == [pc : {"idle", "insts", "childs", "get", "list", "down", "tree", "dir", "row", "srow", "done"},
           todo : SUBSET States, plan : SUBSET (StateNodes \cup InstNodes),
           node : StateNodes \cup InstNodes \cup {NoNode}]
RunRec == [pc : {"exec", "again", "stat", "start", "check", "update"},
           inst : Insts, box : Box, left : 1..MaxSteps]
              \cup {NoRun, [NoRun EXCEPT !.pc = "done"]}

\* Rows, directories, containers and requests take the shapes the code gives them, and a run
\* request that is under way has a step left to execute.
TypeOK ==
    /\ srow \subseteq States /\ sdir \subseteq States /\ irow \subseteq Insts /\ fresh \subseteq NewInsts
    /\ rid \in [Insts -> Box]
    /\ idir \in [Insts -> {"absent", "data", "bare"}]
    /\ up \subseteq Box
    /\ docker \in BOOLEAN
    /\ del \in [Reqs -> DelRec]
    /\ run \in [Reqs -> RunRec]
    /\ starts \in 0..MaxStarts /\ faults \in 0..MaxFaults /\ crashes \in 0..MaxCrashes
    /\ touched \subseteq Insts

\* Two containers never serve the same data directory: two PostgreSQL servers on one directory would
\* corrupt it.  Only the fixed container name of recreateContainer keeps two run requests, which
\* both found the container missing, from starting one each.
OneServer ==
    \A b, c \in up : b.inst = c.inst => b = c

\* A data directory or a container is never left without the row through which it can be found and
\* deleted: whatever fails and wherever the engine dies, rows go last.  Instances that a run brought
\* back to life while they were being deleted, or whose stop was skipped because docker did not
\* answer, are the exceptions the code has (touched).
RowsGoLast ==
    /\ sdir \ NewStates \subseteq srow
    /\ \A i \in Insts \ touched : idir[i] # "absent" => i \in irow
    /\ \A b \in up : b.inst \notin touched => b.inst \in irow

\* Deletion never cuts the state tree: while a state that existed at the start remains, so does
\* its parent, and an instance's state, with recursive and plain deletions racing each other and
\* failing half way.
TreeClosed ==
    /\ \A s \in srow \ NewStates : Parent[s] # None => Parent[s] \in srow
    /\ \A i \in irow : StateOf[i] \in srow

\* Deletion takes rows last and leaves before roots: no directory and no container is
\* left without its row, no state without its parent, no instance without its state,
\* whatever fails, wherever the engine dies, with two deletions racing.
DeletionOrdered == RowsGoLast /\ TreeClosed

=============================================================================
