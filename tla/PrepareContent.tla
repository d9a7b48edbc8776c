--------------------------- MODULE PrepareContent ---------------------------
(***************************************************************************)
(* From the files of a prepare request to the id of the state they make:   *)
(* psql arguments are cut into steps (psql.go, psql_steps.go), the content *)
(* of a step is hashed with its includes (psql_content.go), the hashes are *)
(* chained into state ids when the job is planned and again when a task    *)
(* runs (manager.go, execution.go), while the user goes on editing the     *)
(* files (content_lock.go).  Liquibase jobs get their changesets from      *)
(* Liquibase once, when they are planned (liquibase.go).                   *)
(*                                                                         *)
(* A digest is the text it is the digest of, a state id the sequence of    *)
(* the digests of its chain, and a database the sequence of the texts that *)
(* were applied to it, so an id and a database can be compared.            *)
(***************************************************************************)
EXTENDS Naturals, Sequences, FiniteSets, SequencesExt

CONSTANTS
    Jobs,
    Args,         \* Args[j]: the arguments of the request of job j
    Files,        \* file names, pairs <<directory, name>>
    Lines,        \* Lines[f]: lines of file f
    Editable,     \* files the user edits
    LocksBind,    \* a lock keeps an editor from writing: TRUE on Windows, while the flock
                  \* of Unix is advisory and stops nobody
    MaxEdits, MaxFaults    \* bounds: edits; crashes and failures together

VARIABLES
    version,      \* version[f]: how often f has been edited
    db,           \* rows of states: a function from ids to contents
    pc,           \* pc[j]
    sig,          \* job row: signature
    tasks,        \* tasks[j]: the state_execute rows of the job
    done,         \* done[j]: how many of them have succeeded
    planning,     \* planning[j]: tasks planned and not stored yet
    held,         \* held[j]: files job j holds a content lock on
    rt,           \* rt[j]: contents of the runtime of the job, or Off
    out,          \* out[j]: output of the task that is running
    drift,        \* edits that no job notices: under a plan, of a file under a lock
    count         \* edits and faults so far

vars == <<version, db, pc, sig, tasks, done, planning, held, rt, out, drift, count>>

-----------------------------------------------------------------------------
(* Arguments.  A token is a flag with its value; "f" a script ("-" is      *)
(* stdin), "c" an inline command, "X" --no-psqlrc, "v" a variable, "stop"  *)
(* -v ON_ERROR_STOP=1, "nostop" any other value of it, "conn" a connection *)
(* flag, "word" a positional argument, "lb" the changelog of an update.    *)

None == "none"
NoFile == <<None, None>>
Flag(name, value) == [flag |-> name, file |-> value]
Plain(name) == Flag(name, NoFile)
Stdin == <<"-", "-">>

Has(args, name) == \E i \in DOMAIN args : args[i].flag = name
IsLiquibase(args) == Has(args, "lb")

(* preparePsqlArgs refuses the request.                                    *)
Rejected(args) ==
    \/ \E i \in DOMAIN args :
          \/ args[i].flag \in {"conn", "word", "nostop"}
          \/ args[i].flag = "f" /\ args[i].file \notin Files \cup {Stdin}
    \/ IsLiquibase(args) /\ \E i \in DOMAIN args : args[i].flag \notin {"lb", "v"}

(* The enforced defaults are appended after what the user wrote.           *)
Normalized(args) ==
    args \o (IF Has(args, "X") THEN <<>> ELSE <<Plain("X")>>)
         \o (IF Has(args, "stop") THEN <<>> ELSE <<Plain("stop")>>)

IsStep(token) == token.flag \in {"f", "c"}
StepIndices(args) == {i \in DOMAIN args : IsStep(args[i])}

(* buildPsqlSteps: a step gets the options written before it.              *)
BuildPsqlSteps(args) ==
    LET at == SetToSortSeq(StepIndices(args), LAMBDA a, b : a < b)
        Before(i) == SelectSeq(SubSeq(args, 1, i), LAMBDA token : ~IsStep(token))
    IN  IF at = <<>> THEN <<[shared |-> args, input |-> Plain("none")]>>
        ELSE [k \in 1..Len(at) |-> [shared |-> Before(at[k]), input |-> args[at[k]]]]

Inputs(args) == SelectSeq(args, IsStep)
Steps(j) == BuildPsqlSteps(Normalized(Args[j]))

(* psqlWorkDir: the directory of the first script.                         *)
WorkDir(args) ==
    LET scripts == SelectSeq(args, LAMBDA token : token.flag = "f" /\ token.file # Stdin)
    IN  IF scripts = <<>> THEN "cwd" ELSE Head(scripts).file[1]

(* The directory psql runs in: rewritePsqlFileArgs, from the step's own -f.*)
ExecDir(step) ==
    IF step.input.flag = "f" /\ step.input.file # Stdin THEN step.input.file[1] ELSE "container"

-----------------------------------------------------------------------------
(* Content.  A line is text or an include; text changes with the version   *)
(* of its file.                                                            *)

Text == [inc |-> "no", name |-> None]
Include(cmd, name) == [inc |-> cmd, name |-> name]
Broken == <<"broken">>
Boundary == <<"boundary", 0>>

ResolveIncludePath(line, file, dir) ==
    <<IF line.inc = "ir" /\ file # NoFile THEN file[1] ELSE dir, line.name>>

(* expandFile: the text of a file with the files it includes, in order;    *)
(* stack holds the files that are open, to refuse a cycle.                 *)
RECURSIVE ExpandLines(_, _, _, _, _)
ExpandLines(lines, file, dir, stack, ver) ==
    IF lines = <<>> THEN <<>>
    ELSE LET line == Head(lines)
             target == ResolveIncludePath(line, file, dir)
             inner == IF target \notin Files \/ target \in stack THEN Broken
                      ELSE ExpandLines(Lines[target], target, dir, stack \cup {target}, ver)
             first == IF line.inc = "no" THEN << <<file[2], IF file \in Files THEN ver[file] ELSE 0>> >>
                      ELSE IF inner = Broken THEN Broken
                      ELSE <<Boundary>> \o inner \o <<Boundary>>
             rest == ExpandLines(Tail(lines), file, dir, stack, ver)
         IN  IF first = Broken \/ rest = Broken THEN Broken ELSE first \o rest

(* The files a content is read from.                                       *)
RECURSIVE ReadFiles(_, _, _, _)
ReadFiles(lines, file, dir, stack) ==
    UNION {LET target == ResolveIncludePath(lines[i], file, dir)
           IN  IF lines[i].inc = "no" \/ target \notin Files \/ target \in stack THEN {}
               ELSE {target} \cup ReadFiles(Lines[target], target, dir, stack \cup {target})
             : i \in DOMAIN lines}

IsScript(input) == input.flag = "f" /\ input.file \in Files
InputLines(input) == IF IsScript(input) THEN Lines[input.file] ELSE <<Text>>
InputFile(input) == IF IsScript(input) THEN input.file ELSE NoFile
InputStack(input) == IF IsScript(input) THEN {input.file} ELSE {}

Content(input, dir) ==
    ExpandLines(InputLines(input), InputFile(input), dir, InputStack(input), version)
ContentFiles(input, dir) ==
    InputStack(input) \cup ReadFiles(InputLines(input), InputFile(input), dir, InputStack(input))

(* computePsqlContentDigest of all inputs, for the signature of the job.   *)
Signature(j) ==
    LET inputs == Inputs(Args[j])
    IN  [i \in 1..Len(inputs) |-> Content(inputs[i], WorkDir(Args[j]))]

(* What updateSQL reports against the base, and what update-count 1 applies*)
(* to a database: the changesets of the changelog that it does not have.   *)
Changelog(j) == (CHOOSE i \in DOMAIN Args[j] : Args[j][i].flag = "lb")
Changesets(j) ==
    LET file == Args[j][Changelog(j)].file
    IN  [i \in 1..Len(Lines[file]) |-> << <<i, version[file]>> >>]
Pending(j, contents) == SelectSeq(Changesets(j), LAMBDA cs : cs \notin ToSet(contents))

-----------------------------------------------------------------------------
Off == <<"off">>
Base == <<>>
Ended == {"idle", "done", "failed"}

Init ==
    /\ version = [f \in Files |-> 0]
    /\ db = [s \in {} |-> <<>>]
    /\ pc = [j \in Jobs |-> "idle"]
    /\ sig = [j \in Jobs |-> <<>>]
    /\ tasks = [j \in Jobs |-> <<>>]
    /\ done = [j \in Jobs |-> 0]
    /\ planning = [j \in Jobs |-> <<>>]
    /\ held = [j \in Jobs |-> {}]
    /\ rt = [j \in Jobs |-> Off]
    /\ out = [j \in Jobs |-> Base]
    /\ drift = {}
    /\ count = [edits |-> 0, faults |-> 0]

Goto(j, step) == pc' = [pc EXCEPT ![j] = step]
IsCached(id) == id \in DOMAIN db

Submit(j) ==
    /\ pc[j] = "idle"
    /\ ~Rejected(Args[j])
    /\ Goto(j, "load")
    /\ UNCHANGED <<version, db, sig, tasks, done, planning, held, rt, out, drift, count>>

(* The signature of a psql job is computed before its plan, and reads the  *)
(* files by itself; the one of a Liquibase job is taken from the plan.     *)
Sign(j) ==
    /\ pc[j] = "load" /\ tasks[j] = <<>>
    /\ Goto(j, "plan")
    /\ sig' = [sig EXCEPT ![j] = IF IsLiquibase(Args[j]) THEN <<>> ELSE Signature(j)]
    /\ planning' = [planning EXCEPT ![j] = <<>>]
    /\ UNCHANGED <<version, db, tasks, done, held, rt, out, drift, count>>

PlannedOut(plan) == IF plan = <<>> THEN Base ELSE plan[Len(plan)].out
Task(in, hash) == [in |-> in, hash |-> hash, out |-> Append(in, hash), cached |-> IsCached(Append(in, hash))]

(* buildPlanPsql, one step; a broken include fails the job.                *)
PlanPsqlStep(j) ==
    LET step == Steps(j)[Len(planning[j]) + 1]
        hash == Content(step.input, WorkDir(Args[j]))
    IN  /\ pc[j] = "plan" /\ ~IsLiquibase(Args[j])
        /\ Len(planning[j]) < Len(Steps(j))
        /\ IF hash = Broken THEN Goto(j, "failed") /\ UNCHANGED planning
           ELSE /\ planning' = [planning EXCEPT ![j] = Append(@, Task(PlannedOut(@), hash))]
                /\ UNCHANGED pc
        /\ UNCHANGED <<version, db, sig, tasks, done, held, rt, out, drift, count>>

(* buildPlanLiquibase: the runtime it starts stays with the job.           *)
PlanLiquibase(j) ==
    LET sets == Changesets(j)
        In(i) == SubSeq(sets, 1, i - 1)
    IN  /\ pc[j] = "plan" /\ IsLiquibase(Args[j]) /\ planning[j] = <<>>
        /\ planning' = [planning EXCEPT ![j] = [i \in 1..Len(sets) |-> Task(In(i), sets[i])]]
        /\ rt' = [rt EXCEPT ![j] = IF @ = Off THEN Base ELSE @]
        /\ UNCHANGED <<version, db, pc, sig, tasks, done, held, out, drift, count>>

StorePlan(j) ==
    /\ pc[j] = "plan"
    /\ Len(planning[j]) = IF IsLiquibase(Args[j]) THEN Len(Changesets(j)) ELSE Len(Steps(j))
    /\ Goto(j, "run")
    /\ tasks' = [tasks EXCEPT ![j] = planning[j]]
    /\ done' = [done EXCEPT ![j] = 0]
    /\ planning' = [planning EXCEPT ![j] = <<>>]
    /\ UNCHANGED <<version, db, sig, held, rt, out, drift, count>>

(* A job with stored tasks: planned again when its signature has changed.  *)
Resume(j) ==
    /\ pc[j] = "load" /\ tasks[j] # <<>>
    /\ IF ~IsLiquibase(Args[j]) /\ sig[j] # Signature(j)
       THEN /\ Goto(j, "plan")
            /\ sig' = [sig EXCEPT ![j] = Signature(j)]
            /\ planning' = [planning EXCEPT ![j] = <<>>]
       ELSE Goto(j, "run") /\ UNCHANGED <<sig, planning>>
    /\ UNCHANGED <<version, db, tasks, done, held, rt, out, drift, count>>

Now(j) == tasks[j][done[j] + 1]
NextTask(j) == done' = [done EXCEPT ![j] = @ + 1]
HasTask(j) == pc[j] = "run" /\ done[j] < Len(tasks[j])

(* runJob: planned as cached, and still cached.                            *)
SkipCached(j) ==
    /\ HasTask(j) /\ Now(j).cached /\ IsCached(Now(j).out)
    /\ NextTask(j)
    /\ UNCHANGED <<version, db, pc, sig, tasks, planning, held, rt, out, drift, count>>

(* Mutant: the task keeps the hash of its plan.                            *)
TaskHash_Planned(j) == Now(j).hash

(* executeStateTask hashes the inputs of a psql step again, under the lock;*)
(* a Liquibase task keeps the hash of its plan.                            *)
TaskHash(j) ==
    IF IsLiquibase(Args[j]) THEN Now(j).hash
    ELSE Content(Steps(j)[done[j] + 1].input, WorkDir(Args[j]))

LockedInputs(j) ==
    IF IsLiquibase(Args[j]) THEN {}
    ELSE ContentFiles(Steps(j)[done[j] + 1].input, WorkDir(Args[j]))

(* The output id follows the input of the plan.  A hit releases the        *)
(* runtime and the locks.                                                  *)
BeginTask(j) ==
    LET hash == TaskHash(j)
        id == Append(Now(j).in, hash)
    IN  /\ HasTask(j) /\ ~(Now(j).cached /\ IsCached(Now(j).out))
        /\ IF hash = Broken
           THEN Goto(j, "failed") /\ rt' = [rt EXCEPT ![j] = Off] /\ UNCHANGED <<tasks, done, held, out>>
           ELSE /\ tasks' = [tasks EXCEPT ![j][done[j] + 1] =
                               [@ EXCEPT !.hash = hash, !.out = id, !.cached = IsCached(id)]]
                /\ IF IsCached(id)
                   THEN rt' = [rt EXCEPT ![j] = Off] /\ NextTask(j) /\ UNCHANGED <<pc, held, out>>
                   ELSE /\ Goto(j, "exec")
                        /\ held' = [held EXCEPT ![j] = LockedInputs(j)]
                        /\ out' = [out EXCEPT ![j] = id]
                        /\ UNCHANGED <<rt, done>>
        /\ UNCHANGED <<version, db, sig, planning, drift, count>>

(* What psql or Liquibase does to the database, from the files as they are.*)
Applied(j, contents) ==
    IF IsLiquibase(Args[j])
    THEN IF Pending(j, contents) = <<>> THEN contents ELSE Append(contents, Head(Pending(j, contents)))
    ELSE Append(contents, Content(Steps(j)[done[j] + 1].input, ExecDir(Steps(j)[done[j] + 1])))

(* The step runs in the runtime of the job, or in one started from the     *)
(* input of the plan; the row of its parent must exist to store its state. *)
ExecTask(j) ==
    LET in == Now(j).in
        start == IF rt[j] # Off THEN rt[j] ELSE IF in = Base THEN Base ELSE db[in]
        parent == in = Base \/ IsCached(in)
    IN  /\ pc[j] = "exec"
        /\ held' = [held EXCEPT ![j] = {}]
        /\ out' = [out EXCEPT ![j] = Base]
        /\ IF ~parent
           THEN Goto(j, "failed") /\ rt' = [rt EXCEPT ![j] = Off] /\ UNCHANGED <<db, done>>
           ELSE /\ Goto(j, "run")
                /\ NextTask(j)
                /\ rt' = [rt EXCEPT ![j] = Applied(j, start)]
                /\ db' = IF IsCached(out[j]) THEN db
                         ELSE [s \in DOMAIN db \cup {out[j]} |->
                                 IF s = out[j] THEN Applied(j, start) ELSE db[s]]
        /\ UNCHANGED <<version, sig, tasks, planning, drift, count>>

(* createInstance, from the runtime or from the last state.                *)
Finish(j) ==
    /\ pc[j] = "run" /\ done[j] = Len(tasks[j])
    /\ Goto(j, "done")
    /\ rt' = [rt EXCEPT ![j] = Off]
    /\ UNCHANGED <<version, db, sig, tasks, done, planning, held, out, drift, count>>

Fail(j) ==
    /\ pc[j] \notin Ended /\ count.faults < MaxFaults
    /\ Goto(j, "failed")
    /\ rt' = [rt EXCEPT ![j] = Off]
    /\ held' = [held EXCEPT ![j] = {}]
    /\ count' = [count EXCEPT !.faults = @ + 1]
    /\ UNCHANGED <<version, db, sig, tasks, done, planning, out, drift>>

(* The plan of job j may be out of date when it is used: it has several    *)
(* steps, and each follows the planned input, or its hashes are not taken  *)
(* again.                                                                  *)
Exposed(j) ==
    IF IsLiquibase(Args[j]) THEN pc[j] \notin Ended
    ELSE pc[j] \in {"plan", "run", "exec"} /\ Len(Steps(j)) > 1

(* Digests are taken in one step; the files stay locked from then until    *)
(* the step has run.                                                       *)
Edit(f) ==
    LET locked == \E j \in Jobs : f \in held[j]
    IN  /\ count.edits < MaxEdits
        /\ LocksBind => ~locked
        /\ version' = [version EXCEPT ![f] = @ + 1]
        /\ count' = [count EXCEPT !.edits = @ + 1]
        /\ drift' = drift \cup (IF \E j \in Jobs : Exposed(j) THEN {"plan"} ELSE {})
                          \cup (IF locked THEN {"lock"} ELSE {})
        /\ UNCHANGED <<db, pc, sig, tasks, done, planning, held, rt, out>>

(* The engine dies; its jobs are loaded again by the next one.             *)
Crash ==
    /\ count.faults < MaxFaults
    /\ count' = [count EXCEPT !.faults = @ + 1]
    /\ pc' = [j \in Jobs |-> IF pc[j] \in Ended THEN pc[j] ELSE "load"]
    /\ rt' = [j \in Jobs |-> Off]
    /\ held' = [j \in Jobs |-> {}]
    /\ UNCHANGED <<version, db, sig, tasks, done, planning, out, drift>>

Next ==
    \/ \E j \in Jobs :
          \/ Submit(j) \/ Sign(j) \/ PlanPsqlStep(j) \/ PlanLiquibase(j) \/ StorePlan(j) \/ Resume(j)
          \/ SkipCached(j) \/ BeginTask(j) \/ ExecTask(j) \/ Finish(j) \/ Fail(j)
    \/ \E f \in Editable : Edit(f)
    \/ Crash

Spec == Init /\ [][Next]_vars

-----------------------------------------------------------------------------
(* Jobs, their progress and what they lock; the base state has no row.      *)
TypeOK ==
    /\ version \in [Files -> 0..MaxEdits]
    /\ pc \in [Jobs -> {"idle", "load", "plan", "run", "exec", "done", "failed"}]
    /\ \A j \in Jobs : done[j] \in 0..Len(tasks[j]) /\ held[j] \subseteq Files
    /\ \A s \in DOMAIN db : s # Base
    /\ drift \subseteq {"plan", "lock"}

(* Every cached state holds what its id says: the texts applied to its     *)
(* database are the ones its chain of digests was taken of, whoever else   *)
(* built a prefix, after any crash, and whatever was edited meanwhile but  *)
(* under a plan that is not made again or, where locks do not bind, between*)
(* the digest of a step and its execution (executeStateTask,               *)
(* computePsqlContentDigestWithLock, replanTasksOnDrift).                  *)
StateFaithful == drift = {} => \A s \in DOMAIN db : db[s] = s
=============================================================================
