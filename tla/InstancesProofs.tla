-------------------------- MODULE InstancesProofs --------------------------
(***************************************************************************)
(* One server per instance and ordered deletion, for every tree of states, *)
(* every set of instances and requests, and every bound.                   *)
(***************************************************************************)
EXTENDS Instances, TLAPS

Active(r) == run[r].pc \notin {"idle", "done"}
First(i) == [inst |-> i, n |-> 0]
Stopped(i) == \A b \in up : b.inst # i

\* The container that the prepare job left for i is gone, and none will come.
Gone(i) == i \notin fresh /\ First(i) \notin up

\* The row and the containers of i.  Before its registration it has neither container nor
\* directory; a later container means that the first one is gone and that a run re-created it.
BoxOk(i) ==
    /\ rid[i].inst = i
    /\ rid[i].n # 0 => Gone(i) /\ i \in touched
    /\ i \in fresh => Stopped(i) /\ idir[i] = "absent" /\ i \notin irow /\ i \notin touched
    /\ \A b \in up : b.inst = i /\ b.n # 0 => Gone(i) /\ i \in touched

\* Directories and containers of instances have a row.
InstRows ==
    /\ \A i \in Insts \ touched : idir[i] # "absent" => i \in irow
    /\ \A b \in up : b.inst \notin touched => b.inst \in irow

\* What a run request under way knows of its instance.
RunOk(r) == Active(r) =>
    /\ run[r].inst \notin fresh /\ run[r].box.inst = run[r].inst
    /\ run[r].box.n # 0 => Gone(run[r].inst) /\ run[r].inst \in touched
    /\ run[r].pc \in {"stat", "start"} => Gone(run[r].inst)
    /\ run[r].pc \in {"check", "update", "again"} => run[r].box.n # 0

\* What a delete request knows of the instances of its plan and of the one at hand.
Known(n) == n.kind = "instance" => /\ n.id \notin fresh /\ n.box.inst = n.id
                                   /\ n.box.n # 0 => n.id \in touched
Knows(d) ==
    /\ \A n \in del[d].plan : Known(n)
    /\ del[d].pc \in {"dir", "row"} => /\ del[d].node.id \notin fresh
                                       /\ del[d].node.id \notin touched => Stopped(del[d].node.id)
    /\ del[d].pc = "row" /\ del[d].node.id \notin touched => idir[del[d].node.id] = "absent"

InstInv == /\ OneServer /\ InstRows
           /\ \A i \in Insts : BoxOk(i)
           /\ \A r \in Reqs : RunOk(r) /\ Knows(r)

\* The states that were there at the start and still are.
Old == srow \ NewStates

\* Every old child of a planned state is planned too, or waits to be visited; when the row of a
\* state is about to go, its directory and its old children are gone.
Pending(d, c) ==
    \/ StateNode(c) \in del[d].plan
    \/ c \in del[d].todo
    \/ del[d].pc = "list" /\ del[d].node.id = c
    \/ del[d].pc = "down" /\ del[d].node.id = Parent[c]

Tidy(d) ==
    /\ del[d].pc \in {"idle", "tree", "dir", "row", "srow", "done"} => del[d].todo = {}
    /\ del[d].pc \in {"idle", "insts", "childs", "done"} => del[d].plan = {}
    /\ \A c \in Old : Parent[c] # None /\ StateNode(Parent[c]) \in del[d].plan => Pending(d, c)
    /\ del[d].pc = "srow" => /\ del[d].node.id \notin sdir \ NewStates
                             /\ \A c \in Old : Parent[c] # del[d].node.id

StateInv == /\ sdir \ NewStates \subseteq srow
            /\ TreeClosed
            /\ \A d \in Reqs : Tidy(d)

\* A request that visits or removes a state has a state at hand; one that removes an instance, an instance.
NodeKinds ==
    \A d \in Reqs : /\ del[d].pc \in {"list", "down", "srow"} => del[d].node \in StateNodes
                    /\ del[d].pc \in {"dir", "row"} => del[d].node \in InstNodes

IInv == TypeOK /\ NodeKinds /\ InstInv /\ StateInv

-----------------------------------------------------------------------------
(***************************************************************************)
(* Types.                                                                  *)
(***************************************************************************)
DelPc == {"idle", "insts", "childs", "get", "list", "down", "tree", "dir", "row", "srow", "done"}
Nodes == StateNodes \cup InstNodes

\* A delete request keeps its shape when its fields are replaced by values of theirs.
LEMMA DelShape ==
    ASSUME NEW x \in DelRec, NEW p \in DelPc, NEW t \in SUBSET States,
           NEW l \in SUBSET Nodes, NEW n \in Nodes \cup {NoNode}
    PROVE  /\ [x EXCEPT !.pc = p] \in DelRec
           /\ [x EXCEPT !.pc = p, !.todo = t] \in DelRec
           /\ [x EXCEPT !.pc = p, !.plan = l] \in DelRec
           /\ [x EXCEPT !.pc = p, !.node = n] \in DelRec
           /\ [x EXCEPT !.pc = p, !.todo = t, !.plan = l] \in DelRec
           /\ [x EXCEPT !.pc = p, !.todo = t, !.node = n] \in DelRec
           /\ [x EXCEPT !.pc = p, !.node = n, !.todo = t] \in DelRec
BY DEF DelRec, DelPc, Nodes

\* The nodes of a plan are states and instances.
LEMMA NodeShape ==
    /\ \A s \in States : StateNode(s) \in StateNodes
    /\ \A i \in Insts : rid \in [Insts -> Box] => InstNode(i) \in InstNodes
BY DEF StateNode, StateNodes, InstNode, InstNodes

\* Answer and every other change of one delete request, as a change of its record.
LEMMA DelTyped ==
    ASSUME TypeOK, NEW d \in Reqs, NEW x \in DelRec, del' = [del EXCEPT ![d] = x]
    PROVE  del' \in [Reqs -> DelRec] /\ del'[d] = x /\ \A e \in Reqs \ {d} : del'[e] = del[e]
BY DEF TypeOK

\* An answered delete request keeps its shape and is the only one that changes.
LEMMA AnswerTyped ==
    ASSUME TypeOK, NEW d \in Reqs, Answer(d)
    PROVE  /\ del' \in [Reqs -> DelRec]
           /\ del'[d] = [NoDelete EXCEPT !.pc = "done"]
           /\ \A e \in Reqs \ {d} : del'[e] = del[e]
<1> [NoDelete EXCEPT !.pc = "done"] \in DelRec
  BY DEF DelRec, NoDelete
<1> QED BY DelTyped DEF Answer

\* A run request keeps its shape.
LEMMA RunTyped ==
    ASSUME TypeOK, NEW r \in Reqs, NEW x \in RunRec, run' = [run EXCEPT ![r] = x]
    PROVE  run' \in [Reqs -> RunRec] /\ run'[r] = x /\ \A e \in Reqs \ {r} : run'[e] = run[e]
BY DEF TypeOK

\* A run request that ends keeps its shape and is the only one that changes.
LEMMA EndRunTyped ==
    ASSUME TypeOK, NEW r \in Reqs, EndRun(r)
    PROVE  /\ run' \in [Reqs -> RunRec]
           /\ run'[r] = [NoRun EXCEPT !.pc = "done"]
           /\ \A e \in Reqs \ {r} : run'[e] = run[e]
<1> [NoRun EXCEPT !.pc = "done"] \in RunRec
  BY DEF RunRec
<1> QED BY RunTyped DEF EndRun

\* The steps of a run request that is under way.
RunPc == {"exec", "again", "stat", "start", "check", "update"}

\* A run request under way names its instance and its steps, and stays in shape when it moves on.
LEMMA RunShape ==
    ASSUME NEW x \in RunRec, x.pc \notin {"idle", "done"}, NEW p \in RunPc, NEW b \in Box, NEW k \in 1..MaxSteps
    PROVE  /\ x.pc \in RunPc /\ x.inst \in Insts /\ x.box \in Box /\ x.left \in 1..MaxSteps
           /\ [x EXCEPT !.pc = p] \in RunRec
           /\ [x EXCEPT !.pc = p, !.box = b] \in RunRec
           /\ [x EXCEPT !.pc = p, !.left = k] \in RunRec
<1>1. x # NoRun /\ x # [NoRun EXCEPT !.pc = "done"]
  BY DEF NoRun
<1>2. x \in [pc : RunPc, inst : Insts, box : Box, left : 1..MaxSteps]
  BY <1>1 DEF RunRec, RunPc
<1>3. \A y \in [pc : RunPc, inst : Insts, box : Box, left : 1..MaxSteps] : y \in RunRec
  BY DEF RunRec, RunPc
<1> QED BY <1>2, <1>3

\* The other variables, under any step that leaves the requests' records alone.
Plain ==
    /\ srow \subseteq States /\ sdir \subseteq States /\ irow \subseteq Insts /\ fresh \subseteq NewInsts
    /\ rid \in [Insts -> Box]
    /\ idir \in [Insts -> {"absent", "data", "bare"}]
    /\ up \subseteq Box
    /\ docker \in BOOLEAN
    /\ starts \in 0..MaxStarts /\ faults \in 0..MaxFaults /\ crashes \in 0..MaxCrashes
    /\ touched \subseteq Insts

\* Every step of a delete request keeps the records' shape and touches no other request's.
LEMMA DeleteTyped ==
    ASSUME TypeOK, NodeKinds, NEW d \in Reqs, DeleteStep(d)
    PROVE  del' \in [Reqs -> DelRec] /\ \A e \in Reqs \ {d} : del'[e] = del[e]
<1> DEFINE G == del' \in [Reqs -> DelRec] /\ \A e \in Reqs \ {d} : del'[e] = del[e]
<1>1. /\ del[d] \in DelRec /\ del \in [Reqs -> DelRec]
      /\ del[d].plan \in SUBSET Nodes /\ del[d].todo \in SUBSET States /\ srow \subseteq States
      /\ rid \in [Insts -> Box] /\ irow \subseteq Insts /\ del[d].node \in Nodes \cup {NoNode}
  BY DEF TypeOK, DelRec, Nodes
<1>a. ASSUME Answer(d) PROVE G
  BY <1>a, AnswerTyped
<1>2. ASSUME NEW i \in Insts, DeleteInstance(d, i) PROVE G
  <2>1. {InstNode(i)} \in SUBSET Nodes
    BY <1>1, NodeShape DEF Nodes
  <2>2. CASE del' = [del EXCEPT ![d].pc = "tree", ![d].plan = {InstNode(i)}]
    <3>1. del' = [del EXCEPT ![d] = [del[d] EXCEPT !.pc = "tree", !.plan = {InstNode(i)}]]
      BY <1>1, <2>2
    <3>2. [del[d] EXCEPT !.pc = "tree", !.plan = {InstNode(i)}] \in DelRec
      BY <1>1, <2>1, DelShape DEF DelPc
    <3> QED BY <3>1, <3>2, DelTyped
  <2> QED BY <1>2, <2>2, <1>a DEF DeleteInstance
<1>3. ASSUME NEW s \in States, NEW recurse \in BOOLEAN, DeleteState(d, s, recurse) PROVE G
  <2>2. ASSUME NEW p \in {"get", "insts"}, del' = [del EXCEPT ![d].pc = p, ![d].todo = {s}] PROVE G
    <3>1. del' = [del EXCEPT ![d] = [del[d] EXCEPT !.pc = p, !.todo = {s}]]
      BY <1>1, <2>2
    <3>2. {s} \in SUBSET States /\ p \in DelPc
      BY DEF DelPc
    <3>3. [del[d] EXCEPT !.pc = p, !.todo = {s}] \in DelRec
      BY <1>1, <3>2, DelShape
    <3> QED BY <3>1, <3>3, DelTyped
  <2>3. CASE Answer(d)
    BY <2>3, <1>a
  <2>4. CASE del' = [del EXCEPT ![d].pc = IF recurse THEN "get" ELSE "insts", ![d].todo = {s}]
    <3> DEFINE p == IF recurse THEN "get" ELSE "insts"
    <3>1. p \in {"get", "insts"} OBVIOUS
    <3>2. del' = [del EXCEPT ![d].pc = p, ![d].todo = {s}] BY <2>4
    <3> HIDE DEF p
    <3> QED BY <3>1, <3>2, <2>2
  <2> QED BY <1>3, <2>3, <2>4 DEF DeleteState
<1>4. CASE HasInstances(d)
  <2>2. CASE del' = [del EXCEPT ![d].pc = "childs"]
    <3>1. del' = [del EXCEPT ![d] = [del[d] EXCEPT !.pc = "childs"]]
      BY <1>1, <2>2
    <3>2. [del[d] EXCEPT !.pc = "childs"] \in DelRec
      BY <1>1, DelShape DEF DelPc
    <3> QED BY <3>1, <3>2, DelTyped
  <2> QED BY <1>4, <2>2, <1>a DEF HasInstances
<1>5. CASE HasChildren(d)
  <2>2. ASSUME NEW s \in del[d].todo,
               del' = [del EXCEPT ![d].pc = "tree", ![d].todo = {}, ![d].plan = {StateNode(s)}]
        PROVE G
    <3>1. del' = [del EXCEPT ![d] = [del[d] EXCEPT !.pc = "tree", !.todo = {}, !.plan = {StateNode(s)}]]
      BY <1>1, <2>2
    <3>2. {StateNode(s)} \in SUBSET Nodes
      BY <1>1, NodeShape DEF Nodes
    <3>3. [del[d] EXCEPT !.pc = "tree", !.todo = {}, !.plan = {StateNode(s)}] \in DelRec
      BY <1>1, <3>2, DelShape DEF DelPc
    <3> QED BY <3>1, <3>3, DelTyped
  <2> QED BY <1>5, <2>2, <1>a DEF HasChildren
<1>6. CASE VisitState(d)
  <2>2. ASSUME NEW s \in del[d].todo,
               del' = [del EXCEPT ![d].pc = "list", ![d].node = StateNode(s), ![d].todo = @ \ {s}]
        PROVE G
    <3>1. del' = [del EXCEPT ![d] = [del[d] EXCEPT !.pc = "list", !.node = StateNode(s), !.todo = del[d].todo \ {s}]]
      BY <1>1, <2>2
    <3>2. StateNode(s) \in Nodes
      BY <1>1, NodeShape DEF Nodes
    <3>3. [del[d] EXCEPT !.pc = "list", !.node = StateNode(s), !.todo = del[d].todo \ {s}] \in DelRec
      BY <1>1, <3>2, DelShape DEF DelPc
    <3> QED BY <3>1, <3>3, DelTyped
  <2> QED BY <1>6, <2>2, <1>a DEF VisitState
<1>8. CASE VisitChildren(d)
  <2> DEFINE todo == del[d].todo \cup ListStates(del[d].node.id)
  <2>1. todo \in SUBSET States
    BY <1>1 DEF ListStates
  <2>2. ASSUME NEW p \in {"tree", "get"},
               del' = [del EXCEPT ![d].pc = p, ![d].todo = todo, ![d].node = NoNode]
        PROVE G
    <3> HIDE DEF todo
    <3>1. del' = [del EXCEPT ![d] = [del[d] EXCEPT !.pc = p, !.todo = todo, !.node = NoNode]]
      BY <1>1, <2>2
    <3>3. [del[d] EXCEPT !.pc = p, !.todo = todo, !.node = NoNode] \in DelRec
      BY <1>1, <2>1, DelShape DEF DelPc
    <3> QED BY <3>1, <3>3, DelTyped
  <2>3. CASE todo = {}
    BY <1>8, <2>2, <2>3, <1>a DEF VisitChildren
  <2>4. CASE todo # {}
    BY <1>8, <2>2, <2>4, <1>a DEF VisitChildren
  <2> QED BY <2>3, <2>4
<1>n. ASSUME NEW p \in {"dir", "srow"}, NEW n \in Nodes, del' = [del EXCEPT ![d].pc = p, ![d].node = n] PROVE G
  <2>1. del' = [del EXCEPT ![d] = [del[d] EXCEPT !.pc = p, !.node = n]]
    BY <1>1, <1>n
  <2>2. [del[d] EXCEPT !.pc = p, !.node = n] \in DelRec
    BY <1>1, DelShape DEF DelPc
  <2> QED BY <2>1, <2>2, DelTyped
<1>9. CASE StopInstance(d)
  <2>1. \A n \in Leaves(del[d].plan) : n \in Nodes
    BY <1>1 DEF Leaves
  <2> QED BY <1>9, <2>1, <1>n, <1>a DEF StopInstance
<1>10. CASE RemoveStateDir(d)
  <2>1. \A n \in Leaves(del[d].plan) : n \in Nodes
    BY <1>1 DEF Leaves
  <2> QED BY <1>10, <2>1, <1>n, <1>a DEF RemoveStateDir
<1>11. CASE RemoveRuntimeDir(d)
  <2>2. CASE del' = [del EXCEPT ![d].pc = "row"]
    <3>1. del' = [del EXCEPT ![d] = [del[d] EXCEPT !.pc = "row"]]
      BY <1>1, <2>2
    <3>2. [del[d] EXCEPT !.pc = "row"] \in DelRec
      BY <1>1, DelShape DEF DelPc
    <3> QED BY <3>1, <3>2, DelTyped
  <2> QED BY <1>11, <2>2, <1>a DEF RemoveRuntimeDir
<1>m. ASSUME NEW n, NEW p \in {"done", "tree"},
             del' = [del EXCEPT ![d] = [NoDelete EXCEPT !.pc = p, !.plan = del[d].plan \ {n}]]
      PROVE  G
  <2>1. del[d].plan \ {n} \in SUBSET Nodes /\ p \in DelPc
    BY <1>1 DEF DelPc
  <2>2. [NoDelete EXCEPT !.pc = p, !.plan = del[d].plan \ {n}] \in DelRec
    BY <2>1 DEF DelRec, DelPc, NoDelete, Nodes
  <2> QED BY <1>m, <2>2, DelTyped
<1>12. CASE DeleteInstanceRow(d)
  BY <1>12, <1>m DEF DeleteInstanceRow
<1>13. CASE RemoveStateRow(d)
  BY <1>13, <1>m, <1>a DEF RemoveStateRow
<1>7. CASE VisitInstances(d)
  <2> DEFINE s == del[d].node.id
             l == del[d].plan \cup {InstNode(i) : i \in ListInstances(s)} \cup {StateNode(s)}
  <2>1. del' = [del EXCEPT ![d] = [del[d] EXCEPT !.pc = "down", !.plan = l]]
    BY <1>1, <1>7 DEF VisitInstances
  <2>2. l \in SUBSET Nodes
    <3>1. s \in States
      BY <1>7 DEF VisitInstances, NodeKinds, StateNodes
    <3>2. {InstNode(i) : i \in ListInstances(s)} \in SUBSET Nodes
      BY <1>1, NodeShape DEF Nodes, ListInstances
    <3> QED BY <3>1, <3>2, <1>1, NodeShape DEF Nodes
  <2> HIDE DEF l
  <2>3. [del[d] EXCEPT !.pc = "down", !.plan = l] \in DelRec
    BY <1>1, <2>2, DelShape DEF DelPc
  <2> QED BY <2>1, <2>3, DelTyped
<1> QED BY <1>2, <1>3, <1>4, <1>5, <1>6, <1>7, <1>8, <1>9, <1>10, <1>11, <1>12, <1>13 DEF DeleteStep

\* Every step of a run request keeps the records' shape and touches no other request's.
LEMMA RunStepTyped ==
    ASSUME TypeOK, NEW r \in Reqs, RunStep(r)
    PROVE  run' \in [Reqs -> RunRec] /\ \A e \in Reqs \ {r} : run'[e] = run[e]
<1> DEFINE G == run' \in [Reqs -> RunRec] /\ \A e \in Reqs \ {r} : run'[e] = run[e]
<1>1. run[r] \in RunRec /\ run \in [Reqs -> RunRec]
  BY DEF TypeOK
<1>a. ASSUME EndRun(r) PROVE G
  BY <1>a, EndRunTyped
<1>b. ASSUME NEW p \in RunPc, run[r].pc \notin {"idle", "done"}, run' = [run EXCEPT ![r].pc = p] PROVE G
  <2>1. run[r].box \in Box /\ run[r].left \in 1..MaxSteps
    BY <1>1, <1>b DEF RunRec, NoRun
  <2>2. [run[r] EXCEPT !.pc = p] \in RunRec
    BY <1>1, <1>b, <2>1, RunShape
  <2>3. run' = [run EXCEPT ![r] = [run[r] EXCEPT !.pc = p]]
    BY <1>1, <1>b
  <2> QED BY <2>2, <2>3, RunTyped
<1>2. ASSUME NEW i \in Insts, NEW n \in 1..MaxSteps, Run(r, i, n) PROVE G
  <2>1. CASE run' = [run EXCEPT ![r] = [pc |-> "exec", inst |-> i, box |-> rid[i], left |-> n]]
    <3>1. [pc |-> "exec", inst |-> i, box |-> rid[i], left |-> n] \in RunRec
      BY DEF TypeOK, RunRec
    <3> QED BY <2>1, <3>1, RunTyped
  <2> QED BY <1>2, <2>1, <1>a DEF Run
<1>3. CASE Exec(r)
  <2>0. run[r].pc \notin {"idle", "done"}
    BY <1>3 DEF Exec
  <2>1. run[r].box \in Box /\ run[r].left \in 1..MaxSteps
    BY <1>1, <2>0 DEF RunRec, NoRun
  <2>2. ASSUME ~LastStep(run[r]), run' = [run EXCEPT ![r].pc = "exec", ![r].left = run[r].left - 1] PROVE G
    <3>1. run[r].left - 1 \in 1..MaxSteps
      BY <2>1, <2>2, BoundsAssumption DEF LastStep
    <3>2. [run[r] EXCEPT !.pc = "exec", !.left = run[r].left - 1] \in RunRec
      BY <1>1, <2>0, <2>1, <3>1, RunShape DEF RunPc
    <3>3. run' = [run EXCEPT ![r] = [run[r] EXCEPT !.pc = "exec", !.left = run[r].left - 1]]
      BY <1>1, <2>2
    <3> QED BY <3>2, <3>3, RunTyped
  <2>3. \/ EndRun(r)
        \/ ~LastStep(run[r]) /\ run' = [run EXCEPT ![r].pc = "exec", ![r].left = run[r].left - 1]
        \/ run' = [run EXCEPT ![r].pc = "stat"]
    BY <1>3 DEF Exec
  <2> QED BY <2>0, <2>2, <2>3, <1>a, <1>b DEF RunPc
<1>4. CASE StatRuntimeDir(r)
  BY <1>4, <1>a, <1>b DEF StatRuntimeDir, RunPc
<1>5. CASE StartContainer(r)
  <2>0. run[r].pc \notin {"idle", "done"}
    BY <1>5 DEF StartContainer
  <2>1. run[r].box \in Box /\ run[r].left \in 1..MaxSteps /\ run[r].inst \in Insts
    BY <1>1, <2>0 DEF RunRec, NoRun
  <2> DEFINE b == [inst |-> run[r].inst, n |-> starts + 1]
  <2>2. ASSUME starts < MaxStarts, run' = [run EXCEPT ![r].pc = "check", ![r].box = b] PROVE G
    <3>1. b \in Box
      BY <2>1, <2>2, BoundsAssumption DEF TypeOK, Box
    <3> HIDE DEF b
    <3>2. [run[r] EXCEPT !.pc = "check", !.box = b] \in RunRec
      BY <1>1, <2>0, <2>1, <3>1, RunShape DEF RunPc
    <3>3. run' = [run EXCEPT ![r] = [run[r] EXCEPT !.pc = "check", !.box = b]]
      BY <1>1, <2>2
    <3> QED BY <3>2, <3>3, RunTyped
  <2>3. \/ EndRun(r)
        \/ starts < MaxStarts /\ run' = [run EXCEPT ![r].pc = "check", ![r].box = b]
    BY <1>5 DEF StartContainer
  <2> QED BY <2>2, <2>3, <1>a
<1>6. CASE CheckStarted(r)
  BY <1>6, <1>a, <1>b DEF CheckStarted, RunPc
<1>7. CASE UpdateInstanceRuntime(r)
  BY <1>7, <1>a, <1>b DEF UpdateInstanceRuntime, RunPc
<1> QED BY <1>2, <1>3, <1>4, <1>5, <1>6, <1>7 DEF RunStep

\* The stores, files, containers and counters keep their types under a delete request.
LEMMA DeletePlain ==
    ASSUME TypeOK, NodeKinds, NEW d \in Reqs, DeleteStep(d)
    PROVE  Plain' /\ run' = run
<1> USE BoundsAssumption
<1>0. Plain
  BY DEF TypeOK, Plain
<1>n. \A n \in del[d].plan : n.kind = "instance" => n.id \in Insts /\ n.box.inst \in Insts
  BY DEF TypeOK, DelRec, StateNodes, InstNodes, Box
<1>1. ASSUME NEW i \in Insts, DeleteInstance(d, i) PROVE Plain' /\ run' = run
  BY <1>0, <1>1 DEF Plain, DeleteInstance, store, files, bounds
<1>2. ASSUME NEW s \in States, NEW recurse \in BOOLEAN, DeleteState(d, s, recurse) PROVE Plain' /\ run' = run
  BY <1>0, <1>2 DEF Plain, DeleteState, store, files, bounds
<1>3. CASE HasInstances(d)
  BY <1>0, <1>3 DEF Plain, HasInstances, store, files, bounds
<1>4. CASE HasChildren(d)
  BY <1>0, <1>4 DEF Plain, HasChildren, store, files, bounds
<1>5. CASE VisitState(d)
  BY <1>0, <1>5 DEF Plain, VisitState, store, files, bounds
<1>6. CASE VisitInstances(d)
  BY <1>0, <1>6 DEF Plain, VisitInstances, store, files, bounds
<1>7. CASE VisitChildren(d)
  BY <1>0, <1>7 DEF Plain, VisitChildren, store, files, bounds
<1>8. CASE StopInstance(d)
  <2>1. up' \subseteq up /\ faults' \in 0..MaxFaults /\ touched' \subseteq Insts
    BY <1>0, <1>8, <1>n DEF Plain, StopInstance, StopRuntime, Leaves, Fault, NoFault
  <2> QED BY <1>0, <1>8, <2>1 DEF Plain, StopInstance, store, files
<1>9. CASE RemoveRuntimeDir(d)
  <2>1. idir' \in [Insts -> {"absent", "data", "bare"}] /\ faults' \in 0..MaxFaults
    BY <1>0, <1>9 DEF Plain, RemoveRuntimeDir, Fault, NoFault
  <2> QED BY <1>0, <1>9, <2>1 DEF Plain, RemoveRuntimeDir, store
<1>10. CASE DeleteInstanceRow(d)
  BY <1>0, <1>10 DEF Plain, DeleteInstanceRow, files, bounds
<1>11. CASE RemoveStateDir(d)
  <2>1. sdir' \subseteq States /\ faults' \in 0..MaxFaults
    BY <1>0, <1>11 DEF Plain, RemoveStateDir, Fault, NoFault
  <2> QED BY <1>0, <1>11, <2>1 DEF Plain, RemoveStateDir, store
<1>12. CASE RemoveStateRow(d)
  <2>1. srow' \subseteq States
    BY <1>0, <1>12 DEF Plain, RemoveStateRow, DeleteStateRow
  <2> QED BY <1>0, <1>12, <2>1 DEF Plain, RemoveStateRow, files, bounds
<1> QED BY <1>1, <1>2, <1>3, <1>4, <1>5, <1>6, <1>7, <1>8, <1>9, <1>10, <1>11, <1>12 DEF DeleteStep

\* The same under a run request.
LEMMA RunPlain ==
    ASSUME TypeOK, NEW r \in Reqs, RunStep(r)
    PROVE  Plain' /\ del' = del
<1> USE BoundsAssumption
<1>0. Plain
  BY DEF TypeOK, Plain
<1>a. run[r].pc \notin {"idle", "done"} => run[r].inst \in Insts /\ run[r].box \in Box
  BY DEF TypeOK, RunRec, NoRun
<1>1. ASSUME NEW i \in Insts, NEW n \in 1..MaxSteps, Run(r, i, n) PROVE Plain' /\ del' = del
  BY <1>0, <1>1 DEF Plain, Run, store, files, bounds
<1>2. CASE Exec(r)
  BY <1>0, <1>2 DEF Plain, Exec, store, files, bounds
<1>3. CASE StatRuntimeDir(r)
  BY <1>0, <1>3 DEF Plain, StatRuntimeDir, store, files, bounds
<1>4. CASE StartContainer(r)
  <2>1. run[r].inst \in Insts
    BY <1>4, <1>a DEF StartContainer
  <2>2. starts' \in 0..MaxStarts /\ touched' \subseteq Insts
    BY <1>0, <1>4, <2>1 DEF Plain, StartContainer
  <2>3. idir' \in [Insts -> {"absent", "data", "bare"}]
    BY <1>0, <1>4, <2>1 DEF Plain, StartContainer
  <2>4. up' \subseteq Box
    BY <1>0, <1>4, <2>1 DEF Plain, StartContainer, Box
  <2> QED BY <1>0, <1>4, <2>2, <2>3, <2>4 DEF Plain, StartContainer, store
<1>5. CASE CheckStarted(r)
  <2>1. up' \subseteq Box
    BY <1>0, <1>5 DEF Plain, CheckStarted, StopStarted
  <2> QED BY <1>0, <1>5, <2>1 DEF Plain, CheckStarted, store, files, bounds
<1>6. CASE UpdateInstanceRuntime(r)
  <2>1. up' \subseteq Box
    BY <1>0, <1>6 DEF Plain, UpdateInstanceRuntime, StopStarted
  <2>2. rid' \in [Insts -> Box]
    BY <1>0, <1>6, <1>a DEF Plain, UpdateInstanceRuntime
  <2> QED BY <1>0, <1>6, <2>1, <2>2 DEF Plain, UpdateInstanceRuntime, files, bounds
<1> QED BY <1>1, <1>2, <1>3, <1>4, <1>5, <1>6 DEF RunStep

\* A prepare job, a lost container, docker that goes and comes: the requests do not move.
World ==
    \/ \E s \in NewStates : CreateState(s)
    \/ \E i \in NewInsts : CreateInstance(i)
    \/ \E b \in Box : LoseContainer(b)
    \/ DockerDown \/ DockerBack

\* What happens around the requests leaves rows, directories, containers and counters in shape.
LEMMA WorldPlain ==
    ASSUME TypeOK, World
    PROVE  Plain' /\ del' = del /\ run' = run
<1> USE BoundsAssumption, RowsAssumption
<1>0. Plain
  BY DEF TypeOK, Plain
<1>1. ASSUME NEW s \in NewStates, CreateState(s) PROVE Plain' /\ del' = del /\ run' = run
  BY <1>0, <1>1 DEF Plain, CreateState, bounds
<1>2. ASSUME NEW i \in NewInsts, CreateInstance(i) PROVE Plain' /\ del' = del /\ run' = run
  <2>1. idir' \in [Insts -> {"absent", "data", "bare"}] /\ up' \subseteq Box
    BY <1>0, <1>2 DEF Plain, CreateInstance
  <2> QED BY <1>0, <1>2, <2>1 DEF Plain, CreateInstance, bounds
<1>3. ASSUME NEW b \in Box, LoseContainer(b) PROVE Plain' /\ del' = del /\ run' = run
  BY <1>0, <1>3 DEF Plain, LoseContainer, Fault, store, files
<1>4. CASE DockerDown
  <2>1. up' \subseteq Box /\ faults' \in 0..MaxFaults
    BY <1>0, <1>4 DEF Plain, DockerDown, Fault
  <2> QED BY <1>0, <1>4, <2>1 DEF Plain, DockerDown, store, files
<1>5. CASE DockerBack
  BY <1>0, <1>5 DEF Plain, DockerBack, store, files, bounds
<1> QED BY <1>1, <1>2, <1>3, <1>4, <1>5 DEF World

\* A crash ends every request and changes nothing else.
LEMMA CrashTyped ==
    ASSUME TypeOK, Crash
    PROVE  /\ TypeOK'
           /\ \A q \in Reqs : /\ del'[q] \in {del[q], [NoDelete EXCEPT !.pc = "done"]}
                              /\ run'[q] \in {run[q], [NoRun EXCEPT !.pc = "done"]}
<1> USE BoundsAssumption
<1>1. [NoDelete EXCEPT !.pc = "done"] \in DelRec /\ [NoRun EXCEPT !.pc = "done"] \in RunRec
  BY DEF DelRec, NoDelete, RunRec
<1>2. del' \in [Reqs -> DelRec] /\ run' \in [Reqs -> RunRec]
  BY <1>1 DEF TypeOK, Crash
<1>3. Plain'
  <2>1. crashes' \in 0..MaxCrashes
    BY DEF TypeOK, Crash
  <2> QED BY <2>1 DEF TypeOK, Plain, Crash, store, files
<1>4. \A q \in Reqs : /\ del'[q] \in {del[q], [NoDelete EXCEPT !.pc = "done"]}
                      /\ run'[q] \in {run[q], [NoRun EXCEPT !.pc = "done"]}
  BY DEF Crash
<1> QED BY <1>2, <1>3, <1>4 DEF TypeOK, Plain

\* Next, by who acts.
LEMMA Actors ==
    ASSUME [Next]_vars
    PROVE  \/ \E d \in Reqs : DeleteStep(d)
           \/ \E r \in Reqs : RunStep(r)
           \/ World \/ Crash \/ UNCHANGED vars
BY DEF Next, World, Finished

\* Types and the kinds of the nodes at hand are kept by every step.
LEMMA TypesKept ==
    ASSUME TypeOK, NodeKinds, [Next]_vars
    PROVE  TypeOK' /\ NodeKinds'
<1> DEFINE Kind(d) == /\ del[d].pc \in {"list", "down", "srow"} => del[d].node \in StateNodes
                      /\ del[d].pc \in {"dir", "row"} => del[d].node \in InstNodes
<1>0. \A d \in Reqs : Kind(d)
  BY DEF NodeKinds
<1>f. ASSUME \A d \in Reqs : del'[d] = del[d] \/ del'[d].pc \notin {"list", "down", "srow", "dir", "row"}
      PROVE  NodeKinds'
  BY <1>0, <1>f DEF NodeKinds
<1>1. ASSUME NEW d \in Reqs, DeleteStep(d) PROVE TypeOK' /\ NodeKinds'
  <2>1. TypeOK'
    BY <1>1, DeleteTyped, DeletePlain DEF TypeOK, Plain
  <2>2. \A e \in Reqs \ {d} : del'[e] = del[e]
    BY <1>1, DeleteTyped
  <2>3. Kind(d)'
    <3>a. ASSUME Answer(d) PROVE Kind(d)'
      BY <3>a, AnswerTyped DEF NoDelete
    <3>0. del \in [Reqs -> DelRec] /\ del[d] \in DelRec /\ del[d].todo \subseteq States
      BY DEF TypeOK, DelRec
    <3>1. ASSUME NEW i \in Insts, DeleteInstance(d, i) PROVE Kind(d)'
      BY <3>a, <3>0, <3>1 DEF DeleteInstance, DelRec
    <3>2. ASSUME NEW s \in States, NEW recurse \in BOOLEAN, DeleteState(d, s, recurse) PROVE Kind(d)'
      BY <3>a, <3>0, <3>2 DEF DeleteState, DelRec
    <3>3. CASE HasInstances(d)
      BY <3>a, <3>0, <3>3 DEF HasInstances, DelRec
    <3>4. CASE HasChildren(d)
      BY <3>a, <3>0, <3>4 DEF HasChildren, DelRec
    <3>5. CASE VisitState(d)
      BY <3>a, <3>0, <3>5, NodeShape DEF VisitState, DelRec
    <3>6. CASE VisitInstances(d)
      <4>1. del'[d].pc = "down" /\ del'[d].node = del[d].node
        BY <3>0, <3>6 DEF VisitInstances, DelRec
      <4> QED BY <1>0, <3>6, <4>1 DEF VisitInstances
    <3>7. CASE VisitChildren(d)
      <4> DEFINE t == del[d].todo \cup ListStates(del[d].node.id)
      <4>1. ASSUME NEW p \in {"tree", "get"},
                   del' = [del EXCEPT ![d].pc = p, ![d].todo = t, ![d].node = NoNode]
            PROVE  Kind(d)'
        <5> HIDE DEF t
        <5> QED BY <3>0, <4>1 DEF DelRec
      <4>2. CASE t = {}
        BY <3>a, <3>7, <4>1, <4>2 DEF VisitChildren
      <4>3. CASE t # {}
        BY <3>a, <3>7, <4>1, <4>3 DEF VisitChildren
      <4> QED BY <4>2, <4>3
    <3>8. CASE StopInstance(d)
      <4>1. ASSUME NEW n \in Leaves(del[d].plan), n.kind = "instance",
                   del' = [del EXCEPT ![d].pc = "dir", ![d].node = n]
            PROVE  Kind(d)'
        <5>1. n \in InstNodes
          BY <3>0, <4>1 DEF Leaves, DelRec, StateNodes
        <5>2. del'[d].pc = "dir" /\ del'[d].node = n
          BY <3>0, <4>1 DEF DelRec
        <5> QED BY <5>1, <5>2
      <4> QED BY <3>a, <3>8, <4>1 DEF StopInstance
    <3>9. CASE RemoveRuntimeDir(d)
      <4>1. CASE del' = [del EXCEPT ![d].pc = "row"]
        <5>1. del'[d].pc = "row" /\ del'[d].node = del[d].node
          BY <3>0, <4>1 DEF DelRec
        <5> QED BY <1>0, <3>9, <5>1 DEF RemoveRuntimeDir
      <4> QED BY <3>a, <3>9, <4>1 DEF RemoveRuntimeDir
    <3>10. CASE DeleteInstanceRow(d)
      BY <3>0, <3>10 DEF DeleteInstanceRow, DelRec, NoDelete
    <3>11. CASE RemoveStateDir(d)
      <4>1. ASSUME NEW n \in Leaves(del[d].plan), n.kind = "state",
                   del' = [del EXCEPT ![d].pc = "srow", ![d].node = n]
            PROVE  Kind(d)'
        <5>1. n \in StateNodes
          BY <3>0, <4>1 DEF Leaves, DelRec, InstNodes
        <5>2. del'[d].pc = "srow" /\ del'[d].node = n
          BY <3>0, <4>1 DEF DelRec
        <5> QED BY <5>1, <5>2
      <4> QED BY <3>a, <3>11, <4>1 DEF RemoveStateDir
    <3>12. CASE RemoveStateRow(d)
      <4>1. ASSUME NEW p \in {"done", "tree"}, NEW l,
                   del' = [del EXCEPT ![d] = [NoDelete EXCEPT !.pc = p, !.plan = l]]
            PROVE  Kind(d)'
        BY <3>0, <4>1 DEF NoDelete
      <4> QED BY <3>a, <3>12, <4>1 DEF RemoveStateRow
    <3> QED BY <1>1, <3>1, <3>2, <3>3, <3>4, <3>5, <3>6, <3>7, <3>8, <3>9, <3>10, <3>11, <3>12 DEF DeleteStep
  <2> QED BY <1>0, <2>1, <2>2, <2>3 DEF NodeKinds
<1>2. ASSUME NEW r \in Reqs, RunStep(r) PROVE TypeOK' /\ NodeKinds'
  BY <1>2, <1>f, RunStepTyped, RunPlain DEF TypeOK, Plain
<1>3. CASE World
  BY <1>3, <1>f, WorldPlain DEF TypeOK, Plain
<1>4. CASE Crash
  <2>1. \A d \in Reqs : del'[d] = del[d] \/ del'[d].pc \notin {"list", "down", "srow", "dir", "row"}
    BY <1>4, CrashTyped DEF NoDelete
  <2> QED BY <1>4, <1>f, <2>1, CrashTyped
<1>5. CASE UNCHANGED vars
  BY <1>5, <1>f DEF vars, TypeOK
<1> QED BY <1>1, <1>2, <1>3, <1>4, <1>5, Actors

-----------------------------------------------------------------------------
(***************************************************************************)
(* Instances: what every step leaves true of containers and directories,   *)
(* whoever takes it.                                                       *)
(***************************************************************************)
Calm ==
    /\ fresh' \subseteq fresh /\ touched \subseteq touched'
    /\ \A i \in Insts : Gone(i) => Gone(i)'
    /\ \A i \in Insts \ fresh : i \notin touched' => /\ Stopped(i) => Stopped(i)'
                                                     /\ idir[i] = "absent" => idir'[i] = "absent"

\* Most steps start no container, create no directory and leave the rows alone.
Shrinks ==
    /\ up' \subseteq up /\ fresh' = fresh /\ touched \subseteq touched'
    /\ \A i \in Insts : idir[i] = "absent" => idir'[i] = "absent"
Quiet == Shrinks /\ rid' = rid /\ irow' = irow /\ fresh \cap touched' = {}

\* A step that only removes rows, directories and containers disturbs no request.
LEMMA ShrinksCalm == Shrinks => Calm
BY DEF Shrinks, Calm, Gone, Stopped

\* A step that stops containers and touches no instance row keeps what is known about instances.
LEMMA QuietKeeps ==
    ASSUME TypeOK, OneServer, InstRows, \A i \in Insts : BoxOk(i), Quiet
    PROVE  Calm /\ OneServer' /\ InstRows' /\ \A i \in Insts : BoxOk(i)'
<1>1. OneServer'
  BY DEF Quiet, Shrinks, OneServer
<1>2. InstRows'
  BY DEF Quiet, Shrinks, InstRows
<1>3. ASSUME NEW i \in Insts PROVE BoxOk(i)'
  <2>1. BoxOk(i)
    OBVIOUS
  <2> QED BY <2>1 DEF Quiet, Shrinks, BoxOk, Gone, Stopped
<1> QED BY <1>1, <1>2, <1>3, ShrinksCalm DEF Quiet

\* A request that does not move keeps what it knows; one that ended knows nothing.
LEMMA RunFrame ==
    ASSUME TypeOK, Calm, NEW r \in Reqs, RunOk(r), run'[r] = run[r] \/ run'[r].pc \in {"idle", "done"}
    PROVE  RunOk(r)'
<1>1. CASE run'[r].pc \in {"idle", "done"}
  BY <1>1 DEF RunOk, Active
<1>2. CASE run'[r] = run[r] /\ Active(r)
  <2>1. run[r].inst \in Insts
    BY <1>2 DEF TypeOK, RunRec, NoRun, Active
  <2> QED BY <1>2, <2>1 DEF RunOk, Active, Calm
<1> QED BY <1>1, <1>2 DEF RunOk, Active

\* What a delete request has read about an instance stays true over a calm step.
LEMMA KnownFrame ==
    ASSUME Calm, NEW n, Known(n)
    PROVE  Known(n)'
BY DEF Known, Calm

\* A delete request that stands still, or drops part of its plan, still knows what it acts on.
LEMMA DelFrame ==
    ASSUME TypeOK, NodeKinds, Calm, NEW d \in Reqs, Knows(d),
           \/ del'[d] = del[d]
           \/ del'[d].plan \subseteq del[d].plan /\ del'[d].pc \notin {"dir", "row"}
    PROVE  Knows(d)'
<1>1. \A n \in del'[d].plan : Known(n)'
  BY KnownFrame DEF Knows
<1>2. CASE del'[d] = del[d] /\ del[d].pc \in {"dir", "row"}
  <2>1. del[d].node.id \in Insts
    BY <1>2 DEF NodeKinds, InstNodes
  <2> QED BY <1>1, <1>2, <2>1 DEF Knows, Calm
<1> QED BY <1>1, <1>2 DEF Knows

\* An instance that has a row is known as its row describes it.
LEMMA RowKnown ==
    ASSUME TypeOK, InstInv, NEW i \in irow
    PROVE  Known(InstNode(i))
<1>1. i \in Insts /\ BoxOk(i)
  BY DEF TypeOK, InstInv
<1> QED BY <1>1 DEF BoxOk, Known, InstNode

\* What a delete request does to the instances.
LEMMA DeleteInsts ==
    ASSUME TypeOK, NodeKinds, InstInv, NEW d \in Reqs, DeleteStep(d)
    PROVE  InstInv'
<1>0. /\ del \in [Reqs -> DelRec] /\ del[d] \in DelRec /\ fresh \subseteq Insts
      /\ OneServer /\ InstRows /\ \A i \in Insts : BoxOk(i)
  BY RowsAssumption DEF TypeOK, InstInv
<1>k. Knows(d) /\ \A n \in del[d].plan : Known(n)
  BY DEF InstInv, Knows
<1>x. fresh \cap touched = {}
  BY <1>0 DEF BoxOk
<1>f. ASSUME Calm, OneServer', InstRows', \A i \in Insts : BoxOk(i)', Knows(d)' PROVE InstInv'
  <2>1. ASSUME NEW e \in Reqs PROVE RunOk(e)' /\ Knows(e)'
    <3>1. run' = run /\ RunOk(e) /\ Knows(e)
      BY DeletePlain DEF InstInv
    <3>2. RunOk(e)'
      BY <1>f, <3>1, RunFrame
    <3>3. CASE e # d
      <4>1. del'[e] = del[e]
        BY <3>3, DeleteTyped
      <4> QED BY <1>f, <3>1, <3>2, <4>1, DelFrame
    <3> QED BY <1>f, <3>2, <3>3
  <2> QED BY <1>f, <2>1 DEF InstInv
<1>q. ASSUME Quiet, Knows(d)' PROVE InstInv'
  BY <1>0, <1>f, <1>q, QuietKeeps
<1>l. ASSUME UNCHANGED <<store, files, up, touched>>, \A n \in del'[d].plan : Known(n), del'[d].pc \notin {"dir", "row"}
      PROVE  InstInv'
  <2>1. Quiet
    BY <1>l, <1>x DEF Quiet, Shrinks, store, files
  <2>2. Knows(d)'
    BY <1>l, <2>1, ShrinksCalm, KnownFrame DEF Knows, Quiet
  <2> QED BY <2>1, <2>2, <1>q
<1>a. ASSUME Answer(d) PROVE del'[d].plan = {} /\ del'[d].pc = "done"
  BY <1>a, AnswerTyped DEF NoDelete
<1>1. ASSUME NEW i \in Insts, DeleteInstance(d, i) PROVE InstInv'
  <2>1. CASE i \in irow /\ del' = [del EXCEPT ![d].pc = "tree", ![d].plan = {InstNode(i)}]
    <3>1. del'[d].pc = "tree" /\ del'[d].plan = {InstNode(i)}
      BY <1>0, <2>1 DEF DelRec
    <3> QED BY <1>1, <1>l, <2>1, <3>1, RowKnown DEF DeleteInstance
  <2>2. CASE Answer(d)
    BY <1>1, <1>l, <2>2, <1>a DEF DeleteInstance
  <2> QED BY <1>1, <2>1, <2>2 DEF DeleteInstance
<1>2. ASSUME NEW s \in States, NEW recurse \in BOOLEAN, DeleteState(d, s, recurse) PROVE InstInv'
  <2>1. CASE del' = [del EXCEPT ![d].pc = IF recurse THEN "get" ELSE "insts", ![d].todo = {s}]
    <3>1. del'[d].pc \in {"get", "insts"} /\ del'[d].plan = del[d].plan
      BY <1>0, <2>1 DEF DelRec
    <3> QED BY <1>2, <1>k, <1>l, <3>1 DEF DeleteState
  <2>2. CASE Answer(d)
    BY <1>2, <1>l, <2>2, <1>a DEF DeleteState
  <2> QED BY <1>2, <2>1, <2>2 DEF DeleteState
<1>3. CASE HasInstances(d)
  <2>1. CASE del' = [del EXCEPT ![d].pc = "childs"]
    <3>1. del'[d].pc = "childs" /\ del'[d].plan = del[d].plan
      BY <1>0, <2>1 DEF DelRec
    <3> QED BY <1>3, <1>k, <1>l, <3>1 DEF HasInstances
  <2>2. CASE Answer(d)
    BY <1>3, <1>l, <2>2, <1>a DEF HasInstances
  <2> QED BY <1>3, <2>1, <2>2 DEF HasInstances
<1>4. CASE HasChildren(d)
  <2>1. ASSUME NEW s \in del[d].todo,
               del' = [del EXCEPT ![d].pc = "tree", ![d].todo = {}, ![d].plan = {StateNode(s)}]
        PROVE  InstInv'
    <3>1. del'[d].pc = "tree" /\ del'[d].plan = {StateNode(s)}
      BY <1>0, <2>1 DEF DelRec
    <3>2. Known(StateNode(s))
      BY DEF Known, StateNode
    <3> QED BY <1>4, <1>l, <3>1, <3>2 DEF HasChildren
  <2>2. CASE Answer(d)
    BY <1>4, <1>l, <2>2, <1>a DEF HasChildren
  <2> QED BY <1>4, <2>1, <2>2 DEF HasChildren
<1>5. CASE VisitState(d)
  <2>1. ASSUME NEW s \in del[d].todo,
               del' = [del EXCEPT ![d].pc = "list", ![d].node = StateNode(s), ![d].todo = @ \ {s}]
        PROVE  InstInv'
    <3>1. del'[d].pc = "list" /\ del'[d].plan = del[d].plan
      BY <1>0, <2>1 DEF DelRec
    <3> QED BY <1>5, <1>k, <1>l, <3>1 DEF VisitState
  <2>2. CASE Answer(d)
    BY <1>5, <1>l, <2>2, <1>a DEF VisitState
  <2> QED BY <1>5, <2>1, <2>2 DEF VisitState
<1>6. CASE VisitInstances(d)
  <2> DEFINE s == del[d].node.id
             l == del[d].plan \cup {InstNode(i) : i \in ListInstances(s)} \cup {StateNode(s)}
  <2>1. del'[d].pc = "down" /\ del'[d].plan = l
    BY <1>0, <1>6 DEF VisitInstances, DelRec
  <2>2. \A n \in l : Known(n)
    <3>1. Known(StateNode(s))
      BY DEF Known, StateNode
    <3>2. \A i \in ListInstances(s) : Known(InstNode(i))
      BY RowKnown DEF ListInstances
    <3> QED BY <1>k, <3>1, <3>2
  <2> HIDE DEF l
  <2> QED BY <1>6, <1>l, <2>1, <2>2 DEF VisitInstances
<1>7. CASE VisitChildren(d)
  <2> DEFINE t == del[d].todo \cup ListStates(del[d].node.id)
  <2>1. ASSUME NEW p \in {"tree", "get"},
               del' = [del EXCEPT ![d].pc = p, ![d].todo = t, ![d].node = NoNode]
        PROVE  InstInv'
    <3> HIDE DEF t
    <3>1. del'[d].pc = p /\ del'[d].plan = del[d].plan
      BY <1>0, <2>1 DEF DelRec
    <3> QED BY <1>7, <1>k, <1>l, <3>1 DEF VisitChildren
  <2>2. CASE Answer(d)
    BY <1>7, <1>l, <2>2, <1>a DEF VisitChildren
  <2>3. CASE t = {}
    BY <1>7, <2>1, <2>2, <2>3 DEF VisitChildren
  <2>4. CASE t # {}
    BY <1>7, <2>1, <2>2, <2>4 DEF VisitChildren
  <2> QED BY <2>3, <2>4
<1>s. ASSUME NEW n \in Leaves(del[d].plan), n.kind = "instance"
      PROVE  /\ n \in InstNodes /\ n.id \in Insts /\ n.box \in Box /\ Known(n)
             /\ n.id \notin fresh /\ n.box.inst = n.id
             /\ n.id \notin touched => \A b \in up : b.inst = n.id => b = n.box
  <2>1. n \in InstNodes /\ Known(n)
    BY <1>0, <1>k, <1>s DEF Leaves, DelRec, StateNodes
  <2>2. n.id \in Insts /\ n.box \in Box /\ n.id \notin fresh /\ n.box.inst = n.id
    BY <1>s, <2>1 DEF InstNodes, Known
  <2>3. ASSUME n.id \notin touched, NEW b \in up, b.inst = n.id PROVE b = n.box
    <3>1. b \in Box /\ b.n = 0
      BY <1>0, <2>2, <2>3 DEF TypeOK, BoxOk
    <3>2. n.box.n = 0
      BY <1>s, <2>1, <2>3 DEF Known
    <3> QED BY <2>2, <2>3, <3>1, <3>2 DEF Box
  <2> QED BY <2>1, <2>2, <2>3
<1>8. CASE StopInstance(d)
  <2>u. UNCHANGED <<fresh, irow, rid, idir>>
    BY <1>8 DEF StopInstance, store, files
  <2>1. ASSUME NEW n \in Leaves(del[d].plan), n.kind = "instance", StopRuntime(n.box),
               del' = [del EXCEPT ![d].pc = "dir", ![d].node = n]
        PROVE  InstInv'
    <3>1. del'[d].pc = "dir" /\ del'[d].node = n /\ del'[d].plan = del[d].plan
      BY <1>0, <2>1 DEF DelRec
    <3>2. Quiet
      BY <1>s, <1>x, <2>u, <2>1 DEF Quiet, Shrinks, StopRuntime
    <3>3. \A m \in del'[d].plan : Known(m)'
      BY <1>k, <3>1, <3>2, ShrinksCalm, KnownFrame DEF Quiet
    <3>4. n.id \notin touched' => Stopped(n.id)'
      BY <1>s, <2>1 DEF StopRuntime, Stopped
    <3>5. Knows(d)'
      BY <1>s, <2>u, <2>1, <3>1, <3>3, <3>4 DEF Knows
    <3> QED BY <3>2, <3>5, <1>q
  <2>2. CASE Answer(d) /\ UNCHANGED <<up, touched>>
    BY <1>l, <1>a, <2>2, <1>8 DEF StopInstance
  <2> QED BY <1>8, <2>1, <2>2 DEF StopInstance
<1>i. del[d].pc \in {"dir", "row"} =>
        /\ del[d].node.id \in Insts /\ del[d].node.id \notin fresh
        /\ del[d].node.id \notin touched => Stopped(del[d].node.id)
        /\ del[d].pc = "row" /\ del[d].node.id \notin touched => idir[del[d].node.id] = "absent"
  BY <1>k DEF NodeKinds, InstNodes, Knows
<1>9. CASE RemoveRuntimeDir(d)
  <2>u. UNCHANGED <<fresh, irow, rid, up, touched>>
    BY <1>9 DEF RemoveRuntimeDir, store
  <2>t. idir \in [Insts -> {"absent", "data", "bare"}] /\ del[d].node.id \in Insts
    BY <1>9, <1>i DEF RemoveRuntimeDir, TypeOK
  <2>1. Quiet
    <3>1. \A i \in Insts : idir[i] = "absent" => idir'[i] = "absent"
      BY <1>9, <2>t DEF RemoveRuntimeDir
    <3> QED BY <1>x, <2>u, <3>1 DEF Quiet, Shrinks
  <2>2. CASE del' = [del EXCEPT ![d].pc = "row"] /\ idir' = [idir EXCEPT ![del[d].node.id] = "absent"]
    <3>1. del'[d].pc = "row" /\ del'[d].node = del[d].node /\ del'[d].plan = del[d].plan
      BY <1>0, <2>2 DEF DelRec
    <3>2. idir'[del[d].node.id] = "absent"
      BY <2>t, <2>2
    <3>3. \A m \in del'[d].plan : Known(m)'
      BY <1>k, <3>1, <2>1, ShrinksCalm, KnownFrame DEF Quiet
    <3>4. Knows(d)'
      BY <1>9, <1>i, <2>u, <3>1, <3>2, <3>3 DEF Knows, RemoveRuntimeDir, Stopped
    <3> QED BY <2>1, <3>4, <1>q
  <2>3. CASE Answer(d)
    <3>1. Knows(d)'
      BY <2>3, <1>a DEF Knows
    <3> QED BY <2>1, <3>1, <1>q
  <2> QED BY <1>9, <2>2, <2>3 DEF RemoveRuntimeDir
<1>10. CASE DeleteInstanceRow(d)
  <2> DEFINE i == del[d].node.id
  <2>u. UNCHANGED <<fresh, rid, idir, up, touched>> /\ irow' = irow \ {i}
    BY <1>10 DEF DeleteInstanceRow, files
  <2>1. del'[d].pc \in {"done", "tree"} /\ del'[d].plan \subseteq del[d].plan
    BY <1>0, <1>10 DEF DeleteInstanceRow, NoDelete, DelRec
  <2>2. Calm
    BY <2>u, ShrinksCalm DEF Shrinks
  <2>3. Knows(d)'
    BY <1>k, <2>1, <2>2, DelFrame
  <2>4. OneServer'
    BY <1>0, <2>u DEF OneServer
  <2>5. InstRows'
    BY <1>0, <1>10, <1>i, <2>u DEF InstRows, Stopped, DeleteInstanceRow
  <2>6. ASSUME NEW k \in Insts PROVE BoxOk(k)'
    <3>1. BoxOk(k)
      BY <1>0
    <3> QED BY <2>u, <3>1 DEF BoxOk, Gone, Stopped
  <2> QED BY <2>2, <2>3, <2>4, <2>5, <2>6, <1>f
<1>y. ASSUME UNCHANGED <<fresh, irow, rid, idir, up, touched>>,
             del'[d].plan \subseteq del[d].plan /\ del'[d].pc \notin {"dir", "row"}
      PROVE  InstInv'
  <2>1. Quiet
    BY <1>x, <1>y DEF Quiet, Shrinks
  <2>2. Knows(d)'
    BY <1>k, <1>y, <2>1, ShrinksCalm, DelFrame DEF Quiet
  <2> QED BY <2>1, <2>2, <1>q
<1>11. CASE RemoveStateDir(d)
  <2>1. UNCHANGED <<fresh, irow, rid, idir, up, touched>>
    BY <1>11 DEF RemoveStateDir, store
  <2>2. ASSUME NEW n, del' = [del EXCEPT ![d].pc = "srow", ![d].node = n]
        PROVE  del'[d].plan \subseteq del[d].plan /\ del'[d].pc \notin {"dir", "row"}
    BY <1>0, <2>2 DEF DelRec
  <2> QED BY <1>11, <1>a, <1>y, <2>1, <2>2 DEF RemoveStateDir
<1>12. CASE RemoveStateRow(d)
  <2>1. UNCHANGED <<fresh, irow, rid, idir, up, touched>>
    BY <1>12 DEF RemoveStateRow, files
  <2>2. ASSUME NEW p \in {"done", "tree"}, NEW n,
               del' = [del EXCEPT ![d] = [NoDelete EXCEPT !.pc = p, !.plan = del[d].plan \ {n}]]
        PROVE  del'[d].plan \subseteq del[d].plan /\ del'[d].pc \notin {"dir", "row"}
    BY <1>0, <2>2 DEF NoDelete
  <2> QED BY <1>12, <1>a, <1>y, <2>1, <2>2 DEF RemoveStateRow
<1> QED BY <1>1, <1>2, <1>3, <1>4, <1>5, <1>6, <1>7, <1>8, <1>9, <1>10, <1>11, <1>12 DEF DeleteStep

\* What a run request does to the instances.
LEMMA RunInsts ==
    ASSUME TypeOK, NodeKinds, InstInv, NEW r \in Reqs, RunStep(r)
    PROVE  InstInv'
<1> DEFINE j == run[r].inst
<1>0. /\ run \in [Reqs -> RunRec] /\ run[r] \in RunRec /\ fresh \subseteq Insts /\ up \subseteq Box
      /\ OneServer /\ InstRows /\ RunOk(r) /\ \A i \in Insts : BoxOk(i)
  BY RowsAssumption DEF TypeOK, InstInv
<1>t. Active(r) => j \in Insts /\ run[r].box \in Box /\ run[r].left \in 1..MaxSteps
  BY <1>0 DEF Active, RunRec, NoRun
<1>x. fresh \cap touched = {}
  BY <1>0 DEF BoxOk
<1>f. ASSUME Calm, OneServer', InstRows', \A i \in Insts : BoxOk(i)', RunOk(r)' PROVE InstInv'
  <2>1. ASSUME NEW e \in Reqs PROVE RunOk(e)' /\ Knows(e)'
    <3>1. del' = del /\ RunOk(e) /\ Knows(e)
      BY RunPlain DEF InstInv
    <3>2. Knows(e)'
      BY <1>f, <3>1, DelFrame
    <3>3. CASE e # r
      <4>1. run'[e] = run[e]
        BY <3>3, RunStepTyped
      <4> QED BY <1>f, <3>1, <3>2, <4>1, RunFrame
    <3> QED BY <1>f, <3>2, <3>3
  <2> QED BY <1>f, <2>1 DEF InstInv
<1>q. ASSUME Quiet, RunOk(r)' PROVE InstInv'
  BY <1>0, <1>f, <1>q, QuietKeeps
<1>l. ASSUME UNCHANGED <<fresh, irow, rid, idir, touched>>, up' \subseteq up PROVE Quiet
  BY <1>l, <1>x DEF Quiet, Shrinks
<1>a. ASSUME EndRun(r) PROVE RunOk(r)'
  BY <1>a, EndRunTyped DEF RunOk, Active, NoRun
<1>b. ASSUME Active(r), Calm, run'[r].inst = j, run'[r].box = run[r].box, run'[r].pc \notin {"idle", "done"},
             run'[r].pc \in {"stat", "start"} => Gone(j),
             run'[r].pc \in {"check", "update", "again"} => run[r].box.n # 0
      PROVE  RunOk(r)'
  BY <1>0, <1>b, <1>t DEF RunOk, Active, Calm
<1>1. ASSUME NEW i \in Insts, NEW n \in 1..MaxSteps, Run(r, i, n) PROVE InstInv'
  <2>1. Quiet
    BY <1>1, <1>l DEF Run, store, files
  <2>2. CASE i \in irow /\ run' = [run EXCEPT ![r] = [pc |-> "exec", inst |-> i, box |-> rid[i], left |-> n]]
    <3>1. run'[r] = [pc |-> "exec", inst |-> i, box |-> rid[i], left |-> n]
      BY <1>0, <2>2
    <3>2. BoxOk(i)
      BY <1>0
    <3>3. i \notin fresh /\ rid[i].inst = i /\ (rid[i].n # 0 => Gone(i)' /\ i \in touched')
      BY <1>1, <2>2, <3>2 DEF BoxOk, Run, Gone, store
    <3>4. UNCHANGED fresh
      BY <1>1 DEF Run, store
    <3>5. RunOk(r)'
      BY <3>1, <3>3, <3>4 DEF RunOk, Active
    <3> QED BY <2>1, <3>5, <1>q
  <2> QED BY <1>1, <2>1, <2>2, <1>a, <1>q DEF Run
<1>2. CASE Exec(r)
  <2>1. Quiet /\ Active(r)
    BY <1>2, <1>l DEF Exec, store, files, Active
  <2>2. ASSUME run' = [run EXCEPT ![r].pc = "exec", ![r].left = run[r].left - 1] PROVE RunOk(r)'
    <3>1. run'[r].pc = "exec" /\ run'[r].inst = j /\ run'[r].box = run[r].box
      BY <1>0, <2>1, <2>2 DEF RunRec, NoRun, Active
    <3> QED BY <1>b, <2>1, <3>1, ShrinksCalm DEF Quiet
  <2>3. ASSUME run' = [run EXCEPT ![r].pc = "stat"], run[r].box \notin up PROVE RunOk(r)'
    <3>1. run'[r].pc = "stat" /\ run'[r].inst = j /\ run'[r].box = run[r].box
      BY <1>0, <2>1, <2>3 DEF RunRec, NoRun, Active
    <3>2. run[r].box.n = 0 => run[r].box = First(j)
      BY <1>0, <1>t, <2>1 DEF RunOk, Box, First
    <3>3. Gone(j)
      BY <1>0, <2>1, <2>3, <3>2 DEF RunOk, Gone
    <3> QED BY <1>b, <2>1, <3>1, <3>3, ShrinksCalm DEF Quiet
  <2>4. \/ EndRun(r)
        \/ run' = [run EXCEPT ![r].pc = "exec", ![r].left = run[r].left - 1]
        \/ run' = [run EXCEPT ![r].pc = "stat"] /\ run[r].box \notin up
    BY <1>2 DEF Exec
  <2> QED BY <2>1, <2>2, <2>3, <2>4, <1>a, <1>q
<1>3. CASE StatRuntimeDir(r)
  <2>1. Quiet /\ Active(r)
    BY <1>3, <1>l DEF StatRuntimeDir, store, files, Active
  <2>2. ASSUME run' = [run EXCEPT ![r].pc = "start"] PROVE RunOk(r)'
    <3>1. run'[r].pc = "start" /\ run'[r].inst = j /\ run'[r].box = run[r].box
      BY <1>0, <2>1, <2>2 DEF RunRec, NoRun, Active
    <3>2. Gone(j)
      BY <1>0, <1>3, <2>1 DEF RunOk, StatRuntimeDir
    <3> QED BY <1>b, <2>1, <3>1, <3>2, ShrinksCalm DEF Quiet
  <2> QED BY <1>3, <2>1, <2>2, <1>a, <1>q DEF StatRuntimeDir
<1>5. CASE CheckStarted(r)
  <2>1. Quiet /\ Active(r)
    BY <1>5, <1>l DEF CheckStarted, StopStarted, store, files, Active
  <2>2. ASSUME run' = [run EXCEPT ![r].pc = "update"] PROVE RunOk(r)'
    <3>1. run'[r].pc = "update" /\ run'[r].inst = j /\ run'[r].box = run[r].box
      BY <1>0, <2>1, <2>2 DEF RunRec, NoRun, Active
    <3>2. run[r].box.n # 0
      BY <1>0, <1>5, <2>1 DEF RunOk, CheckStarted
    <3> QED BY <1>b, <2>1, <3>1, <3>2, ShrinksCalm DEF Quiet
  <2> QED BY <1>5, <2>1, <2>2, <1>a, <1>q DEF CheckStarted
<1>6. CASE UpdateInstanceRuntime(r)
  <2>0. Active(r) /\ UNCHANGED <<fresh, irow, idir, touched>> /\ up' \subseteq up
    BY <1>6 DEF UpdateInstanceRuntime, StopStarted, files, Active
  <2>1. Calm
    BY <2>0, ShrinksCalm DEF Shrinks
  <2>2. CASE run' = [run EXCEPT ![r].pc = "again"] /\ UNCHANGED up
             /\ rid' = IF j \in irow THEN [rid EXCEPT ![j] = run[r].box] ELSE rid
    <3>1. run'[r].pc = "again" /\ run'[r].inst = j /\ run'[r].box = run[r].box
      BY <1>0, <2>0, <2>2 DEF RunRec, NoRun, Active
    <3>2. run[r].box.n # 0 /\ run[r].box.inst = j /\ Gone(j) /\ j \in touched
      BY <1>0, <1>6, <2>0 DEF RunOk, UpdateInstanceRuntime
    <3>3. RunOk(r)'
      BY <1>b, <2>0, <2>1, <3>1, <3>2
    <3>4. OneServer' /\ InstRows'
      BY <1>0, <2>0, <2>2 DEF OneServer, InstRows
    <3>5. ASSUME NEW i \in Insts PROVE BoxOk(i)'
      <4>1. BoxOk(i) /\ rid \in [Insts -> Box]
        BY <1>0 DEF TypeOK
      <4>2. rid'[i] = rid[i] \/ (i = j /\ rid'[i] = run[r].box)
        BY <2>2, <4>1
      <4> QED BY <2>0, <2>2, <3>2, <4>1, <4>2 DEF BoxOk, Gone, Stopped
    <3> QED BY <2>1, <3>3, <3>4, <3>5, <1>f
  <2>3. CASE EndRun(r) /\ UNCHANGED rid
    BY <2>0, <2>3, <1>a, <1>l, <1>q
  <2> QED BY <1>6, <2>2, <2>3 DEF UpdateInstanceRuntime
<1>4. CASE StartContainer(r)
  <2>0. Active(r) /\ j \in Insts /\ j \notin fresh /\ Gone(j) /\ UNCHANGED <<fresh, irow, rid>>
    BY <1>0, <1>4, <1>t DEF StartContainer, Active, RunOk, store
  <2>i. ASSUME idir' = [idir EXCEPT ![j] = IF @ = "absent" THEN "bare" ELSE @]
        PROVE  \A i \in Insts \ {j} : idir'[i] = idir[i]
    BY <2>i DEF TypeOK
  <2>1. ASSUME NEW b \in Box, b.inst = j, b.n # 0, NameFree(j), up' = up \cup {b},
               run' = [run EXCEPT ![r].pc = "check", ![r].box = b],
               idir' = [idir EXCEPT ![j] = IF @ = "absent" THEN "bare" ELSE @],
               touched' = touched \cup {j}
        PROVE  InstInv'
    <3>1. Stopped(j)
      <4>1. ASSUME NEW c \in up, c.inst = j PROVE FALSE
        <5>1. c = First(j)
          BY <1>0, <2>1, <4>1 DEF NameFree, Box, First
        <5> QED BY <2>0, <4>1, <5>1 DEF Gone
      <4> QED BY <4>1 DEF Stopped
    <3>2. b # First(j) /\ \A i \in Insts : First(i) # b
      BY <2>1 DEF First
    <3>3. \A i \in Insts : Gone(i) => Gone(i)'
      BY <2>0, <2>1, <3>2 DEF Gone
    <3>4. Calm
      BY <2>0, <2>i, <2>1, <3>3 DEF Calm, Stopped
    <3>5. OneServer'
      BY <1>0, <2>1, <3>1 DEF OneServer, Stopped
    <3>6. InstRows'
      BY <1>0, <2>0, <2>i, <2>1 DEF InstRows
    <3>7. ASSUME NEW i \in Insts PROVE BoxOk(i)'
      <4>1. BoxOk(i)
        BY <1>0
      <4>2. CASE i = j
        BY <2>0, <2>1, <3>3, <4>1, <4>2 DEF BoxOk
      <4>3. CASE i # j
        BY <2>0, <2>i, <2>1, <3>3, <4>1, <4>3 DEF BoxOk, Stopped
      <4> QED BY <4>2, <4>3
    <3>8. run'[r].pc = "check" /\ run'[r].inst = j /\ run'[r].box = b
      BY <1>0, <2>0, <2>1 DEF RunRec, NoRun, Active
    <3>9. RunOk(r)'
      BY <2>0, <2>1, <3>3, <3>8 DEF RunOk, Active
    <3> QED BY <3>4, <3>5, <3>6, <3>7, <3>9, <1>f
  <2>2. ASSUME EndRun(r), UNCHANGED up, touched' = touched \cup {j},
               idir' = [idir EXCEPT ![j] = IF @ = "absent" THEN "bare" ELSE @]
        PROVE  InstInv'
    <3>4. Calm
      BY <2>0, <2>i, <2>2 DEF Calm, Stopped, Gone
    <3>5. OneServer'
      BY <1>0, <2>2 DEF OneServer
    <3>6. InstRows'
      BY <1>0, <2>0, <2>i, <2>2 DEF InstRows
    <3>7. ASSUME NEW i \in Insts PROVE BoxOk(i)'
      <4>1. BoxOk(i)
        BY <1>0
      <4> QED BY <2>0, <2>i, <2>2, <4>1 DEF BoxOk, Stopped, Gone
    <3> QED BY <2>2, <3>4, <3>5, <3>6, <3>7, <1>a, <1>f
  <2>3. CASE EndRun(r) /\ UNCHANGED <<up, idir, touched>>
    BY <2>0, <2>3, <1>a, <1>l, <1>q
  <2>4. ASSUME starts < MaxStarts PROVE /\ [inst |-> j, n |-> starts + 1] \in Box
                                        /\ starts + 1 # 0
    BY <2>0, <2>4, BoundsAssumption DEF TypeOK, Box
  <2> QED BY <1>4, <2>1, <2>2, <2>3, <2>4 DEF StartContainer
<1> QED BY <1>1, <1>2, <1>3, <1>4, <1>5, <1>6 DEF RunStep

\* What prepare jobs, lost containers and docker do to the instances.
LEMMA WorldInsts ==
    ASSUME TypeOK, NodeKinds, InstInv, World
    PROVE  InstInv'
<1>0. /\ fresh \subseteq Insts /\ up \subseteq Box /\ rid \in [Insts -> Box]
      /\ OneServer /\ InstRows /\ \A i \in Insts : BoxOk(i)
  BY RowsAssumption DEF TypeOK, InstInv
<1>x. fresh \cap touched = {}
  BY <1>0 DEF BoxOk
<1>f. ASSUME Calm, OneServer', InstRows', \A i \in Insts : BoxOk(i)' PROVE InstInv'
  <2>1. ASSUME NEW e \in Reqs PROVE RunOk(e)' /\ Knows(e)'
    <3>1. del' = del /\ run' = run /\ RunOk(e) /\ Knows(e)
      BY WorldPlain DEF InstInv
    <3> QED BY <1>f, <3>1, DelFrame, RunFrame
  <2> QED BY <1>f, <2>1 DEF InstInv
<1>l. ASSUME UNCHANGED <<fresh, irow, rid, idir, touched>>, up' \subseteq up PROVE InstInv'
  <2>1. Quiet
    BY <1>l, <1>x DEF Quiet, Shrinks
  <2> QED BY <1>0, <1>f, <2>1, QuietKeeps
<1>1. ASSUME NEW s \in NewStates, CreateState(s) PROVE InstInv'
  BY <1>1, <1>l DEF CreateState
<1>2. ASSUME NEW i \in NewInsts, CreateInstance(i) PROVE InstInv'
  <2>0. /\ i \in Insts /\ i \in fresh /\ fresh' = fresh \ {i} /\ irow' = irow \cup {i}
        /\ idir' = [idir EXCEPT ![i] = "data"] /\ up' = up \cup {rid[i]} /\ UNCHANGED <<rid, touched>>
    BY <1>2, RowsAssumption DEF CreateInstance
  <2>1. rid[i] = First(i) /\ Stopped(i) /\ i \notin touched /\ rid[i].inst = i /\ rid[i].n = 0
    <3>1. BoxOk(i)
      BY <1>0, <2>0
    <3>2. rid[i] \in Box /\ rid[i].inst = i /\ rid[i].n = 0
      BY <1>0, <2>0, <3>1 DEF BoxOk, Gone
    <3> QED BY <2>0, <3>1, <3>2 DEF Box, BoxOk, First
  <2>2. \A k \in Insts \ {i} : idir'[k] = idir[k]
    BY <2>0 DEF TypeOK
  <2>3. \A k \in Insts : Gone(k) => Gone(k)'
    BY <2>0, <2>1 DEF Gone, First
  <2>4. Calm
    BY <2>0, <2>1, <2>2, <2>3 DEF Calm, Stopped
  <2>5. OneServer'
    BY <1>0, <2>0, <2>1 DEF OneServer, Stopped
  <2>6. InstRows'
    BY <1>0, <2>0, <2>1, <2>2 DEF InstRows
  <2>7. ASSUME NEW k \in Insts PROVE BoxOk(k)'
    <3>1. BoxOk(k)
      BY <1>0
    <3>2. CASE k = i
      BY <2>0, <2>1, <3>1, <3>2 DEF BoxOk, Stopped
    <3>3. CASE k # i
      BY <2>0, <2>1, <2>2, <2>3, <3>1, <3>3 DEF BoxOk, Stopped
    <3> QED BY <3>2, <3>3
  <2> QED BY <2>4, <2>5, <2>6, <2>7, <1>f
<1>3. ASSUME NEW b \in Box, LoseContainer(b) PROVE InstInv'
  BY <1>3, <1>l DEF LoseContainer, store, files
<1>4. CASE DockerDown
  BY <1>4, <1>l DEF DockerDown, store, files
<1>5. CASE DockerBack
  BY <1>5, <1>l DEF DockerBack, store, files
<1> QED BY <1>1, <1>2, <1>3, <1>4, <1>5 DEF World

\* A step that changes no more than the requests' fate leaves the instances as they are.
LEMMA StillInsts ==
    ASSUME TypeOK, NodeKinds, InstInv, UNCHANGED <<fresh, irow, rid, idir, up, touched>>,
           \A q \in Reqs : /\ del'[q] \in {del[q], [NoDelete EXCEPT !.pc = "done"]}
                           /\ run'[q] \in {run[q], [NoRun EXCEPT !.pc = "done"]}
    PROVE  InstInv'
<1>1. Quiet
  BY RowsAssumption DEF Quiet, Shrinks, InstInv, BoxOk, TypeOK
<1>2. Calm /\ OneServer' /\ InstRows' /\ \A i \in Insts : BoxOk(i)'
  BY <1>1, QuietKeeps DEF InstInv
<1>3. ASSUME NEW e \in Reqs PROVE RunOk(e)' /\ Knows(e)'
  <2>1. RunOk(e) /\ Knows(e)
    BY DEF InstInv
  <2>2. run'[e] = run[e] \/ run'[e].pc \in {"idle", "done"}
    BY DEF NoRun
  <2>3. \/ del'[e] = del[e]
        \/ del'[e].plan \subseteq del[e].plan /\ del'[e].pc \notin {"dir", "row"}
    BY DEF NoDelete
  <2> QED BY <1>2, <2>1, <2>2, <2>3, RunFrame, DelFrame
<1> QED BY <1>2, <1>3 DEF InstInv

\* What every step leaves true of the instances.
LEMMA InstsKept ==
    ASSUME TypeOK, NodeKinds, InstInv, [Next]_vars
    PROVE  InstInv'
<1>1. CASE Crash
  <2>1. UNCHANGED <<fresh, irow, rid, idir, up, touched>>
    BY <1>1 DEF Crash, store, files
  <2> QED BY <1>1, <2>1, CrashTyped, StillInsts
<1>2. CASE UNCHANGED vars
  BY <1>2, StillInsts DEF vars
<1> QED BY <1>1, <1>2, Actors, DeleteInsts, RunInsts, WorldInsts

-----------------------------------------------------------------------------
(***************************************************************************)
(* States: the tree of rows.                                               *)
(***************************************************************************)
\* A request that does not move, or that ended, keeps what it knows of the tree.
LEMMA TidyFrame ==
    ASSUME NEW d \in Reqs, Tidy(d), Old' \subseteq Old, (sdir \ NewStates)' \subseteq sdir \ NewStates,
           del'[d] = del[d] \/ del'[d] = [NoDelete EXCEPT !.pc = "done"]
    PROVE  Tidy(d)'
<1>1. CASE del'[d] = del[d]
  BY <1>1 DEF Tidy, Pending
<1>2. CASE del'[d] = [NoDelete EXCEPT !.pc = "done"]
  BY <1>2 DEF Tidy, NoDelete
<1> QED BY <1>1, <1>2

\* A step that removes no row keeps the tree.
LEMMA TreeFrame ==
    ASSUME StateInv, srow' = srow, irow' \subseteq irow, sdir' \subseteq sdir
    PROVE  (sdir \ NewStates \subseteq srow)' /\ TreeClosed' /\ Old' = Old
BY DEF StateInv, TreeClosed, Old

\* Nodes of a deletion plan are told apart by what they stand for.
LEMMA NodesApart ==
    /\ \A s, t : StateNode(s) = StateNode(t) => s = t
    /\ \A n \in InstNodes : \A s : n # StateNode(s)
    /\ \A n \in StateNodes : n = StateNode(n.id) /\ n.id \in States
BY DEF StateNode, InstNodes, StateNodes

\* What a delete request does to the tree.
LEMMA DeleteTree ==
    ASSUME TypeOK, NodeKinds, StateInv, NEW d \in Reqs, DeleteStep(d)
    PROVE  StateInv'
<1>0. /\ del \in [Reqs -> DelRec] /\ del[d] \in DelRec /\ Tidy(d)
      /\ srow \subseteq States /\ rid \in [Insts -> Box]
  BY DEF TypeOK, StateInv
<1>f. ASSUME srow' = srow, irow' \subseteq irow, sdir' \subseteq sdir, Tidy(d)' PROVE StateInv'
  <2>1. (sdir \ NewStates \subseteq srow)' /\ TreeClosed' /\ Old' = Old
    BY <1>f, TreeFrame
  <2>2. ASSUME NEW e \in Reqs, e # d PROVE Tidy(e)'
    <3>1. del'[e] = del[e] /\ Tidy(e)
      BY <2>2, DeleteTyped DEF StateInv
    <3> QED BY <1>f, <2>1, <3>1, TidyFrame
  <2> QED BY <1>f, <2>1, <2>2 DEF StateInv
<1>a. ASSUME Answer(d), srow' = srow, sdir' \subseteq sdir PROVE Tidy(d)'
  <2>1. Old' = Old /\ (sdir \ NewStates)' \subseteq sdir \ NewStates
    BY <1>a DEF Old
  <2> QED BY <1>0, <1>a, <2>1, AnswerTyped, TidyFrame
<1>b. ASSUME Answer(d), UNCHANGED <<store, files>> PROVE StateInv'
  BY <1>b, <1>a, <1>f DEF store, files
<1>c. ASSUME UNCHANGED <<store, files>>, Tidy(d)' PROVE StateInv'
  BY <1>c, <1>f DEF store, files
<1>o. ASSUME UNCHANGED <<store, files>> PROVE Old' = Old /\ UNCHANGED <<sdir, srow>>
  BY <1>o DEF store, files, Old
<1>1. ASSUME NEW i \in Insts, DeleteInstance(d, i) PROVE StateInv'
  <2>u. UNCHANGED <<store, files>>
    BY <1>1 DEF DeleteInstance
  <2>1. CASE del' = [del EXCEPT ![d].pc = "tree", ![d].plan = {InstNode(i)}]
    <3>1. del'[d].pc = "tree" /\ del'[d].plan = {InstNode(i)} /\ del'[d].todo = {}
      BY <1>0, <1>1, <2>1 DEF DelRec, Tidy, DeleteInstance, Unused
    <3>2. \A s : StateNode(s) \notin del'[d].plan
      BY <1>0, <3>1, NodeShape, NodesApart
    <3>3. Tidy(d)'
      BY <3>1, <3>2 DEF Tidy
    <3> QED BY <1>c, <2>u, <3>3
  <2> QED BY <1>1, <1>b, <2>u, <2>1 DEF DeleteInstance
<1>2. ASSUME NEW s \in States, NEW recurse \in BOOLEAN, DeleteState(d, s, recurse) PROVE StateInv'
  <2>u. UNCHANGED <<store, files>>
    BY <1>2 DEF DeleteState
  <2>1. CASE del' = [del EXCEPT ![d].pc = IF recurse THEN "get" ELSE "insts", ![d].todo = {s}]
    <3>1. del'[d].pc \in {"get", "insts"} /\ del'[d].plan = del[d].plan
      BY <1>0, <2>1 DEF DelRec
    <3>2. del[d].plan = {}
      BY <1>0, <1>2 DEF DeleteState, Unused, Tidy
    <3>3. Tidy(d)'
      BY <3>1, <3>2 DEF Tidy
    <3> QED BY <1>c, <2>u, <3>3
  <2> QED BY <1>2, <1>b, <2>u, <2>1 DEF DeleteState
<1>3. CASE HasInstances(d)
  <2>u. UNCHANGED <<store, files>>
    BY <1>3 DEF HasInstances
  <2>1. CASE del' = [del EXCEPT ![d].pc = "childs"]
    <3>1. del'[d].pc = "childs" /\ del'[d].plan = {}
      BY <1>0, <1>3, <2>1 DEF DelRec, Tidy, HasInstances
    <3>3. Tidy(d)'
      BY <3>1 DEF Tidy
    <3> QED BY <1>c, <2>u, <3>3
  <2> QED BY <1>3, <1>b, <2>u, <2>1 DEF HasInstances
<1>4. CASE HasChildren(d)
  <2>u. UNCHANGED <<store, files>>
    BY <1>4 DEF HasChildren
  <2>1. ASSUME NEW s \in del[d].todo, ListStates(s) = {},
               del' = [del EXCEPT ![d].pc = "tree", ![d].todo = {}, ![d].plan = {StateNode(s)}]
        PROVE  StateInv'
    <3>1. del'[d].pc = "tree" /\ del'[d].plan = {StateNode(s)} /\ del'[d].todo = {}
      BY <1>0, <2>1 DEF DelRec
    <3>2. \A c \in Old' : StateNode(Parent[c]) \notin del'[d].plan
      BY <1>o, <2>u, <2>1, <3>1, NodesApart DEF ListStates, Old
    <3>3. Tidy(d)'
      BY <3>1, <3>2 DEF Tidy
    <3> QED BY <1>c, <2>u, <3>3
  <2> QED BY <1>4, <1>b, <2>u, <2>1 DEF HasChildren
<1>5. CASE VisitState(d)
  <2>u. UNCHANGED <<store, files>>
    BY <1>5 DEF VisitState
  <2>1. ASSUME NEW s \in del[d].todo,
               del' = [del EXCEPT ![d].pc = "list", ![d].node = StateNode(s), ![d].todo = @ \ {s}]
        PROVE  StateInv'
    <3>1. /\ del'[d].pc = "list" /\ del'[d].plan = del[d].plan /\ del'[d].todo = del[d].todo \ {s}
          /\ del'[d].node.id = s
      BY <1>0, <2>1 DEF DelRec, StateNode
    <3>2. ASSUME NEW c \in Old', Parent[c] # None, StateNode(Parent[c]) \in del'[d].plan PROVE Pending(d, c)'
      <4>1. Pending(d, c) /\ del[d].pc = "get"
        BY <1>0, <1>5, <1>o, <2>u, <3>1, <3>2 DEF Tidy, VisitState
      <4> QED BY <3>1, <4>1 DEF Pending
    <3>3. Tidy(d)'
      BY <3>1, <3>2 DEF Tidy
    <3> QED BY <1>c, <2>u, <3>3
  <2> QED BY <1>5, <1>b, <2>u, <2>1 DEF VisitState
<1>6. CASE VisitInstances(d)
  <2> DEFINE s == del[d].node.id
             I == {InstNode(i) : i \in ListInstances(s)}
  <2>u. UNCHANGED <<store, files>> /\ del[d].pc = "list"
    BY <1>6 DEF VisitInstances
  <2>1. /\ del'[d].pc = "down" /\ del'[d].plan = del[d].plan \cup I \cup {StateNode(s)}
        /\ del'[d].todo = del[d].todo /\ del'[d].node = del[d].node
    BY <1>0, <1>6 DEF VisitInstances, DelRec
  <2>2. \A n \in I : n \in InstNodes
    BY NodeShape DEF ListInstances, TypeOK
  <2> HIDE DEF I
  <2>3. ASSUME NEW c \in Old', Parent[c] # None, StateNode(Parent[c]) \in del'[d].plan PROVE Pending(d, c)'
    <3>1. StateNode(Parent[c]) \in del[d].plan \/ Parent[c] = s
      BY <2>1, <2>2, <2>3, NodesApart
    <3>2. CASE Parent[c] = s
      BY <2>1, <3>2 DEF Pending
    <3>3. CASE StateNode(Parent[c]) \in del[d].plan
      <4>1. Pending(d, c)
        BY <1>0, <1>o, <2>u, <2>3, <3>3 DEF Tidy
      <4> QED BY <2>u, <2>1, <4>1 DEF Pending
    <3> QED BY <3>1, <3>2, <3>3
  <2>4. Tidy(d)'
    BY <2>1, <2>3 DEF Tidy
  <2> QED BY <1>c, <2>u, <2>4
<1>7. CASE VisitChildren(d)
  <2> DEFINE t == del[d].todo \cup ListStates(del[d].node.id)
  <2>u. UNCHANGED <<store, files>> /\ del[d].pc = "down"
    BY <1>7 DEF VisitChildren
  <2>1. ASSUME NEW p \in {"tree", "get"}, p = "tree" => t = {},
               del' = [del EXCEPT ![d].pc = p, ![d].todo = t, ![d].node = NoNode]
        PROVE  StateInv'
    <3>1. del'[d].pc = p /\ del'[d].plan = del[d].plan /\ del'[d].todo = t
      <4> HIDE DEF t
      <4> QED BY <1>0, <2>1 DEF DelRec
    <3>2. ASSUME NEW c \in Old', Parent[c] # None, StateNode(Parent[c]) \in del'[d].plan PROVE Pending(d, c)'
      <4>1. Pending(d, c) /\ c \in srow
        BY <1>0, <1>o, <2>u, <3>1, <3>2 DEF Tidy, Old
      <4> QED BY <2>u, <3>1, <4>1 DEF Pending, ListStates
    <3>3. Tidy(d)'
      BY <2>1, <3>1, <3>2 DEF Tidy
    <3> QED BY <1>c, <2>u, <3>3
  <2>2. CASE Answer(d)
    BY <1>b, <2>u, <2>2
  <2>3. CASE t = {}
    BY <1>7, <2>1, <2>2, <2>3 DEF VisitChildren
  <2>4. CASE t # {}
    BY <1>7, <2>1, <2>2, <2>4 DEF VisitChildren
  <2> QED BY <2>3, <2>4
<1>g. ASSUME srow' = srow, sdir' \subseteq sdir, del[d].pc \in {"tree", "dir"}, del'[d].pc \in {"dir", "row"},
             del'[d].plan = del[d].plan, del'[d].todo = del[d].todo
      PROVE  Tidy(d)'
  <2>1. Old' = Old
    BY <1>g DEF Old
  <2> QED BY <1>0, <1>g, <2>1 DEF Tidy, Pending
<1>8. CASE StopInstance(d)
  <2>u. UNCHANGED <<store, files>> /\ del[d].pc = "tree"
    BY <1>8 DEF StopInstance
  <2>1. ASSUME NEW n, del' = [del EXCEPT ![d].pc = "dir", ![d].node = n] PROVE StateInv'
    <3>1. del'[d].pc = "dir" /\ del'[d].plan = del[d].plan /\ del'[d].todo = del[d].todo
      BY <1>0, <2>1 DEF DelRec
    <3>2. Tidy(d)'
      BY <1>g, <2>u, <3>1 DEF store, files
    <3> QED BY <1>c, <2>u, <3>2
  <2> QED BY <1>8, <1>b, <2>u, <2>1 DEF StopInstance
<1>9. CASE RemoveRuntimeDir(d)
  <2>u. UNCHANGED <<store, sdir>> /\ del[d].pc = "dir"
    BY <1>9 DEF RemoveRuntimeDir
  <2>1. CASE del' = [del EXCEPT ![d].pc = "row"]
    <3>1. del'[d].pc = "row" /\ del'[d].plan = del[d].plan /\ del'[d].todo = del[d].todo
      BY <1>0, <2>1 DEF DelRec
    <3>2. Tidy(d)'
      BY <1>g, <2>u, <3>1 DEF store
    <3> QED BY <1>f, <2>u, <3>2 DEF store
  <2>2. CASE Answer(d)
    BY <1>a, <1>f, <2>u, <2>2 DEF store
  <2> QED BY <1>9, <2>1, <2>2 DEF RemoveRuntimeDir
<1>r. ASSUME NEW n, NEW p \in {"done", "tree"}, p = "done" => del[d].plan = {n},
             del' = [del EXCEPT ![d] = [NoDelete EXCEPT !.pc = p, !.plan = del[d].plan \ {n}]]
      PROVE  /\ del'[d].pc = p /\ del'[d].todo = {} /\ del'[d].plan = del[d].plan \ {n}
             /\ p = "done" => del'[d].plan = {}
  BY <1>0, <1>r DEF NoDelete
<1>10. CASE DeleteInstanceRow(d)
  <2> DEFINE n == del[d].node
             p == IF del[d].plan = {n} THEN "done" ELSE "tree"
  <2>u. UNCHANGED <<srow, files>> /\ del[d].pc = "row" /\ irow' \subseteq irow
    BY <1>10 DEF DeleteInstanceRow
  <2>1. /\ del'[d].pc \in {"done", "tree"} /\ del'[d].todo = {} /\ del'[d].plan = del[d].plan \ {n}
        /\ del'[d].pc = "done" => del'[d].plan = {}
    <3>1. p \in {"done", "tree"} /\ (p = "done" => del[d].plan = {n})
      OBVIOUS
    <3>2. del' = [del EXCEPT ![d] = [NoDelete EXCEPT !.pc = p, !.plan = del[d].plan \ {n}]]
      BY <1>10 DEF DeleteInstanceRow
    <3> HIDE DEF p, n
    <3> QED BY <1>r, <3>1, <3>2
  <2>2. n \in InstNodes
    BY <2>u DEF NodeKinds
  <2> HIDE DEF n
  <2>3. ASSUME NEW c \in Old', Parent[c] # None, StateNode(Parent[c]) \in del'[d].plan PROVE Pending(d, c)'
    <3>1. Pending(d, c) /\ del[d].todo = {}
      BY <1>0, <2>u, <2>1, <2>3 DEF Tidy, Old
    <3> QED BY <2>u, <2>1, <2>2, <3>1, NodesApart DEF Pending
  <2>4. Tidy(d)'
    BY <2>1, <2>3 DEF Tidy
  <2> QED BY <1>f, <2>u, <2>4 DEF files
<1>11. CASE RemoveStateDir(d)
  <2>u. UNCHANGED store /\ del[d].pc = "tree"
    BY <1>11 DEF RemoveStateDir
  <2>1. ASSUME NEW n \in Leaves(del[d].plan), n.kind = "state", sdir' = sdir \ {n.id},
               del' = [del EXCEPT ![d].pc = "srow", ![d].node = n]
        PROVE  StateInv'
    <3>1. del'[d].pc = "srow" /\ del'[d].plan = del[d].plan /\ del'[d].todo = del[d].todo /\ del'[d].node = n
      BY <1>0, <2>1 DEF DelRec
    <3>2. n \in del[d].plan /\ n = StateNode(n.id) /\ n.id \in States /\ Below(del[d].plan, n.id) = {}
      BY <1>0, <2>1, NodesApart DEF Leaves, DelRec, InstNodes
    <3>3. Old' = Old /\ del[d].todo = {}
      BY <1>0, <2>u DEF Old, store, Tidy
    <3>4. ASSUME NEW c \in Old, Parent[c] = n.id PROVE FALSE
      <4>1. Parent[c] # None
        BY <3>2, <3>4, RowsAssumption
      <4>2. Pending(d, c)
        BY <1>0, <3>2, <3>4, <4>1 DEF Tidy
      <4>3. StateNode(c) \in del[d].plan
        BY <2>u, <3>3, <4>2 DEF Pending
      <4>4. StateNode(c) \in Below(del[d].plan, n.id)
        BY <3>4, <4>3 DEF Below, StateNode
      <4> QED BY <3>2, <4>4
    <3>5. ASSUME NEW c \in Old', Parent[c] # None, StateNode(Parent[c]) \in del'[d].plan PROVE Pending(d, c)'
      <4>1. Pending(d, c)
        BY <1>0, <3>1, <3>3, <3>5 DEF Tidy
      <4> QED BY <2>u, <3>1, <4>1 DEF Pending
    <3>6. Tidy(d)'
      <4>1. \A c \in Old' : Parent[c] # del'[d].node.id
        BY <3>1, <3>3, <3>4
      <4>2. del'[d].todo = {}
        BY <3>1, <3>3
      <4>3. sdir' = sdir \ {n.id}
        BY <2>1
      <4>4. del'[d].node.id \notin sdir' \ NewStates
        BY <3>1, <4>3
      <4> QED BY <3>1, <3>5, <4>1, <4>2, <4>4 DEF Tidy
    <3> QED BY <1>f, <2>u, <2>1, <3>6 DEF store
  <2>2. CASE Answer(d) /\ UNCHANGED sdir
    BY <1>a, <1>f, <2>u, <2>2 DEF store
  <2> QED BY <1>11, <2>1, <2>2 DEF RemoveStateDir
<1>12. CASE RemoveStateRow(d)
  <2> DEFINE n == del[d].node
             p == IF del[d].plan = {n} THEN "done" ELSE "tree"
  <2>u. UNCHANGED <<irow, files>> /\ del[d].pc = "srow"
    BY <1>12 DEF RemoveStateRow
  <2>1. CASE Answer(d) /\ UNCHANGED srow
    BY <1>a, <1>f, <2>u, <2>1 DEF files
  <2>2. CASE DeleteStateRow(n.id) /\ del' = [del EXCEPT ![d] = [NoDelete EXCEPT !.pc = p, !.plan = del[d].plan \ {n}]]
    <3>1. /\ del'[d].pc \in {"done", "tree"} /\ del'[d].todo = {} /\ del'[d].plan = del[d].plan \ {n}
          /\ del'[d].pc = "done" => del'[d].plan = {}
      <4>1. p \in {"done", "tree"} /\ (p = "done" => del[d].plan = {n})
        OBVIOUS
      <4>2. del' = [del EXCEPT ![d] = [NoDelete EXCEPT !.pc = p, !.plan = del[d].plan \ {n}]]
        BY <2>2
      <4> HIDE DEF p, n
      <4> QED BY <1>r, <4>1, <4>2
    <3>2. n = StateNode(n.id) /\ n.id \in States
      BY <2>u, NodesApart DEF NodeKinds
    <3>3. srow' = srow \ {n.id} /\ ListInstances(n.id) = {} /\ Old' = Old \ {n.id}
      BY <2>2 DEF DeleteStateRow, Old
    <3>4. n.id \notin sdir \ NewStates /\ (\A c \in Old : Parent[c] # n.id) /\ del[d].todo = {}
      BY <1>0, <2>u DEF Tidy
    <3> HIDE DEF n
    <3>5. (sdir \ NewStates \subseteq srow)'
      BY <2>u, <3>3, <3>4 DEF StateInv, files
    <3>6. TreeClosed'
      BY <2>u, <3>3, <3>4 DEF StateInv, TreeClosed, ListInstances, Old
    <3>7. ASSUME NEW c \in Old', Parent[c] # None, StateNode(Parent[c]) \in del'[d].plan PROVE Pending(d, c)'
      <4>1. Pending(d, c) /\ c # n.id
        BY <1>0, <3>1, <3>3, <3>7 DEF Tidy
      <4> QED BY <2>u, <3>1, <3>2, <3>4, <4>1, NodesApart DEF Pending
    <3>8. Tidy(d)'
      BY <3>1, <3>7 DEF Tidy
    <3>9. ASSUME NEW e \in Reqs, e # d PROVE Tidy(e)'
      <4>1. del'[e] = del[e] /\ Tidy(e)
        BY <3>9, DeleteTyped DEF StateInv
      <4>2. Old' \subseteq Old /\ (sdir \ NewStates)' \subseteq sdir \ NewStates
        BY <2>u, <3>3 DEF files
      <4> QED BY <4>1, <4>2, TidyFrame
    <3> QED BY <3>5, <3>6, <3>8, <3>9 DEF StateInv
  <2> QED BY <1>12, <2>1, <2>2 DEF RemoveStateRow
<1> QED BY <1>1, <1>2, <1>3, <1>4, <1>5, <1>6, <1>7, <1>8, <1>9, <1>10, <1>11, <1>12 DEF DeleteStep

\* What every step leaves true of the tree.
LEMMA TreeKept ==
    ASSUME TypeOK, NodeKinds, StateInv, [Next]_vars
    PROVE  StateInv'
<1>f. ASSUME UNCHANGED <<srow, sdir, irow>>,
             \A d \in Reqs : del'[d] \in {del[d], [NoDelete EXCEPT !.pc = "done"]}
      PROVE  StateInv'
  <2>1. (sdir \ NewStates \subseteq srow)' /\ TreeClosed' /\ Old' = Old
    BY <1>f, TreeFrame
  <2>2. \A d \in Reqs : Tidy(d)'
    BY <1>f, <2>1, TidyFrame DEF StateInv
  <2> QED BY <2>1, <2>2 DEF StateInv
<1>1. ASSUME NEW r \in Reqs, RunStep(r) PROVE StateInv'
  <2>1. UNCHANGED <<srow, sdir, irow>>
    BY <1>1 DEF RunStep, Run, Exec, StatRuntimeDir, StartContainer, CheckStarted, UpdateInstanceRuntime, store, files
  <2> QED BY <1>1, <1>f, <2>1, RunPlain
<1>2. CASE World
  <2>0. del' = del
    BY <1>2, WorldPlain
  <2>1. ASSUME NEW s \in NewStates, CreateState(s) PROVE StateInv'
    <3>1. srow' = srow \cup {s} /\ sdir' = sdir \cup {s} /\ irow' = irow
      BY <2>1 DEF CreateState
    <3>2. Old' = Old /\ (sdir \ NewStates)' = sdir \ NewStates
      BY <3>1 DEF Old
    <3>3. \A d \in Reqs : Tidy(d)'
      BY <2>0, <3>2, TidyFrame DEF StateInv
    <3>4. (sdir \ NewStates \subseteq srow)' /\ TreeClosed'
      BY <3>1 DEF StateInv, TreeClosed
    <3> QED BY <3>3, <3>4 DEF StateInv
  <2>2. ASSUME NEW i \in NewInsts, CreateInstance(i) PROVE StateInv'
    <3>1. UNCHANGED <<srow, sdir>> /\ irow' = irow \cup {i} /\ StateOf[i] \in srow
      BY <2>2 DEF CreateInstance
    <3>2. Old' = Old
      BY <3>1 DEF Old
    <3>3. \A d \in Reqs : Tidy(d)'
      BY <2>0, <3>1, <3>2, TidyFrame DEF StateInv
    <3>4. (sdir \ NewStates \subseteq srow)' /\ TreeClosed'
      BY <3>1 DEF StateInv, TreeClosed
    <3> QED BY <3>3, <3>4 DEF StateInv
  <2>3. CASE (\E b \in Box : LoseContainer(b)) \/ DockerDown \/ DockerBack
    <3>1. UNCHANGED <<srow, sdir, irow>>
      BY <2>3 DEF LoseContainer, DockerDown, DockerBack, store, files
    <3> QED BY <1>f, <2>0, <3>1
  <2> QED BY <1>2, <2>1, <2>2, <2>3 DEF World
<1>3. CASE Crash
  <2>1. UNCHANGED <<srow, sdir, irow>>
    BY <1>3 DEF Crash, store, files
  <2> QED BY <1>3, <1>f, <2>1, CrashTyped
<1>4. CASE UNCHANGED vars
  BY <1>4, <1>f DEF vars
<1> QED BY <1>1, <1>2, <1>3, <1>4, Actors, DeleteTree

-----------------------------------------------------------------------------
(***************************************************************************)
(* The theorems.                                                           *)
(***************************************************************************)
\* The invariant holds at the start: no request, one container per row, a whole tree.
LEMMA Start == Init => IInv
<1> SUFFICES ASSUME Init PROVE IInv
  OBVIOUS
<1> USE RowsAssumption, BoundsAssumption
<1>1. NoDelete \in DelRec /\ NoRun \in RunRec
  BY DEF NoDelete, DelRec, RunRec
<1>2. rid \in [Insts -> Box] /\ up \subseteq Box /\ \A i \in Insts : rid[i] = First(i)
  BY DEF Init, Box, First
<1>3. idir \in [Insts -> {"absent", "data", "bare"}]
  BY DEF Init
<1>4. TypeOK
  BY <1>1, <1>2, <1>3 DEF Init, TypeOK
<1>5. NodeKinds
  BY DEF Init, NodeKinds, NoDelete
<1>6. InstInv
  <2>1. OneServer
    BY <1>2 DEF Init, OneServer, First
  <2>2. InstRows
    BY <1>2 DEF Init, InstRows, First
  <2>3. ASSUME NEW i \in Insts PROVE BoxOk(i)
    BY <1>2 DEF Init, BoxOk, First, Stopped
  <2>4. ASSUME NEW r \in Reqs PROVE RunOk(r) /\ Knows(r)
    BY DEF Init, RunOk, Active, Knows, NoRun, NoDelete
  <2> QED BY <2>1, <2>2, <2>3, <2>4 DEF InstInv
<1>7. StateInv
  <2>1. TreeClosed
    BY DEF Init, TreeClosed
  <2>2. ASSUME NEW d \in Reqs PROVE Tidy(d)
    BY DEF Init, Tidy, NoDelete
  <2> QED BY <2>1, <2>2 DEF Init, StateInv
<1> QED BY <1>4, <1>5, <1>6, <1>7 DEF IInv

\* IInv is inductive.
LEMMA Inductive == Spec => []IInv
<1>1. IInv /\ [Next]_vars => IInv'
  BY TypesKept, InstsKept, TreeKept DEF IInv
<1> QED BY Start, <1>1, PTL DEF Spec

\* Rows, directories, containers and requests keep their types under every interleaving of delete
\* and run requests, prepare jobs, docker outages and crashes.
THEOREM InstanceTypes == Spec => []TypeOK
<1>1. IInv => TypeOK
  BY DEF IInv
<1> QED BY <1>1, Inductive, PTL

\* No two containers ever serve one instance's data directory, however many run requests find the
\* container missing at the same time (recreateContainer and its fixed container name).
THEOREM OneServerEach == Spec => []OneServer
<1>1. IInv => OneServer
  BY DEF IInv, InstInv
<1> QED BY <1>1, Inductive, PTL

\* Deletion takes rows last and leaves before roots (deleteTree), for every tree of states and any
\* number of requests, whatever fails and wherever the engine dies.
THEOREM DeletesInOrder == Spec => []DeletionOrdered
<1>1. IInv => DeletionOrdered
  BY DEF IInv, InstInv, InstRows, StateInv, DeletionOrdered, RowsGoLast
<1> QED BY <1>1, Inductive, PTL

=============================================================================
