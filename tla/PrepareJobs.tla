----------------------------- MODULE PrepareJobs -----------------------------
(***************************************************************************)
(* The prepare job service of the local engine                             *)
(* (internal/prepare/manager.go): one goroutine per job (runJob), the      *)
(* persistent job and task rows (queue/sqlite_store.go), user cancellation *)
(* and deletion, retention of completed jobs, engine crashes and recovery. *)
(*                                                                         *)
(* One step is one statement against SQLite, or one call that changes the  *)
(* outside world (start or stop a container, remove a directory).  A job   *)
(* has three tasks: "plan", "exec" (the chain of state_execute tasks,      *)
(* whose inner protocol is module StateBuild) and "inst"                   *)
(* (prepare_instance).  Outcomes that depend on data left out here (is the *)
(* state cached? did psql fail?) are nondeterministic choices.             *)
(***************************************************************************)
EXTENDS Naturals, FiniteSets

CONSTANTS Jobs,          \* job identifiers; idGen never repeats one
          PlanOnlyJobs,  \* the jobs submitted with plan_only
          Signature,     \* Signature[j]: what computeJobSignature returns for j
          MaxIdentical,  \* orchestrator.jobs.maxIdentical; 0 disables retention
          MaxCrashes, MaxCancels, MaxDeletes, MaxLost,  \* bounds on the environment
          DockerRefuses, \* docker may refuse to remove a container
          None, Canceller

ASSUME JobsAssumption ==
  /\ IsFiniteSet(Jobs)
  /\ PlanOnlyJobs \subseteq Jobs
  /\ MaxIdentical \in Nat /\ MaxCrashes \in Nat
  /\ MaxCancels \in Nat /\ MaxDeletes \in Nat /\ MaxLost \in Nat
  /\ DockerRefuses \in BOOLEAN
  /\ None \notin Jobs /\ Canceller \notin Jobs

VARIABLES
  row,        \* prepare_jobs.status of each job, or "absent"
  task,       \* prepare_tasks.status of each task of each job, or "none"
  signed,     \* prepare_jobs.signature is set
  fin, clock, \* prepare_jobs.finished_at, and the time
  inst,       \* rows of instances: <<job, engine run that created it>>
  dir,        \* what jobs/<id>/runtime holds: the run that cloned it, or None
  ctr,        \* running containers: <<job, engine run that started it>>; of
              \* several that a job started in one run, the last
  stuck,      \* containers that a call to stop them has left running
  epoch,      \* number of engine restarts so far
  up,         \* the engine process is running
  lost,       \* number of final events SQLite has refused so far
  pc,         \* control point of runJob for each job
  cur,        \* the task runJob is at
  mem,        \* the task list runJob holds in memory
  reg,        \* PrepareService.running has an entry for the job
  cancelled,  \* the job's context is cancelled
  rt,         \* jobRunner.rt is set
  boot,       \* runtime.Start is under way: docker run has started the container
  ok,         \* jobSucceeded
  trim,       \* per actor: jobs retention still deletes, directory it removes
  cancel,     \* the Cancel request in flight
  del,        \* the Delete request in flight
  used        \* identifiers already handed out, and requests made so far

db    == <<row, task, signed, fin, clock>>
world == <<inst, dir, ctr, stuck>>
proc  == <<epoch, up, lost>>
local == <<cur, mem, reg, cancelled, rt, boot, ok>>
reqs  == <<cancel, del, used>>
vars  == <<db, world, proc, pc, local, trim, reqs>>

-----------------------------------------------------------------------------
TaskIds    == {"plan", "exec", "inst"}
TaskStatus == {"none", "queued", "running", "succeeded", "failed"}
RowStatus  == {"absent", "queued", "running", "succeeded", "failed"}
Terminal   == {"succeeded", "failed"}
Points == {"idle", "spawned", "load", "start", "plan", "store", "restore",
           "planTrim", "mark", "begin", "work", "insert", "finish",
           "taskFail", "succeed", "succEvents", "fail", "failEvents",
           "endTrim", "exit", "unreg"}
Epochs  == 0..MaxCrashes
Actors  == Jobs \cup {Canceller}

NoTasks  == [t \in TaskIds |-> "none"]
FullPlan == [t \in TaskIds |-> "queued"]
NoTrim   == [todo |-> {}, dir |-> None]
NextTask(t) == CASE t = "plan" -> "exec" [] t = "exec" -> "inst" [] OTHER -> "end"

Here(j) == <<j, epoch>>
Goto(j, p) == pc' = [pc EXCEPT ![j] = p]

(***************************************************************************)
(* Row helpers.  An UPDATE of a deleted job changes nothing and reports no *)
(* error; an event or a task of a deleted job violates the foreign key, so *)
(* every updateTaskStatus and every appendEvent of it fails.               *)
(***************************************************************************)
SetRow(j, s) == row' = [row EXCEPT ![j] = IF @ = "absent" THEN @ ELSE s]
SetTask(j, t, s) == task' = [task EXCEPT ![j][t] = s]
TaskWritable(j) == ~cancelled[j] /\ row[j] # "absent"

\* A terminal status is stored together with finished_at.
SetFinished(j, s) ==
  /\ SetRow(j, s)
  /\ fin' = [fin EXCEPT ![j] = IF row[j] = "absent" THEN @ ELSE clock + 1]
  /\ clock' = clock + 1

\* DeleteJob: tasks and events go with the row (ON DELETE CASCADE).
DropRow(j) ==
  /\ row' = [row EXCEPT ![j] = "absent"]
  /\ task' = [task EXCEPT ![j] = NoTasks]
  /\ signed' = [signed EXCEPT ![j] = FALSE]

\* removeJobDir deletes jobs/<id>, and with it jobs/<id>/runtime.
RemoveJobDir(j) == dir' = [dir EXCEPT ![j] = None]

-----------------------------------------------------------------------------
(***************************************************************************)
(* Retention.  Terminal jobs with the signature of j, newest first; all    *)
(* but the first MaxIdentical of them are deleted.                         *)
(***************************************************************************)
Completed(j) ==
  {k \in Jobs : row[k] \in Terminal /\ signed[k] /\ Signature[k] = Signature[j]}

\* Mutant: one job too many is kept.
Excess_OffByOne(j) ==
  {k \in Completed(j) :
     /\ MaxIdentical > 0
     /\ Cardinality({m \in Completed(j) : fin[m] > fin[k]}) > MaxIdentical}

Excess(j) ==
  {k \in Completed(j) :
     /\ MaxIdentical > 0
     /\ Cardinality({m \in Completed(j) : fin[m] > fin[k]}) >= MaxIdentical}

TrimList(a, j) == trim' = [trim EXCEPT ![a] = [todo |-> Excess(j), dir |-> None]]

\* trimCompletedJobsForJob takes the signature from the row.
TrimForJob(a, j) == IF signed[j] THEN TrimList(a, j) ELSE UNCHANGED trim
TrimIdle(a) == trim[a] = NoTrim

\* The retention pass after planning runs under the job's context.
TrimBlocked(a) == a \in Jobs /\ pc[a] = "planTrim" /\ cancelled[a]

\* One row of the list is deleted, then its directory.
TrimRow(a) ==
  /\ trim[a].dir = None /\ ~TrimBlocked(a)
  /\ \E k \in trim[a].todo :
       /\ \A m \in trim[a].todo : fin[m] <= fin[k]
       /\ DropRow(k)
       /\ trim' = [trim EXCEPT ![a] = [todo |-> @.todo \ {k}, dir |-> k]]
  /\ UNCHANGED <<fin, clock, world, proc, pc, local, reqs>>

TrimDir(a) ==
  /\ trim[a].dir # None
  /\ RemoveJobDir(trim[a].dir)
  /\ trim' = [trim EXCEPT ![a].dir = None]
  /\ UNCHANGED <<db, inst, ctr, stuck, proc, pc, local, reqs>>

-----------------------------------------------------------------------------
\* An engine without jobs, whatever it did before.
Empty ==
  /\ row = [j \in Jobs |-> "absent"]
  /\ task = [j \in Jobs |-> NoTasks]
  /\ signed = [j \in Jobs |-> FALSE]
  /\ fin = [j \in Jobs |-> 0] /\ clock = 0
  /\ inst = {} /\ ctr = {} /\ stuck = {}
  /\ dir = [j \in Jobs |-> None]
  /\ epoch = 0 /\ up = TRUE
  /\ pc = [j \in Jobs |-> "idle"]
  /\ cur = [j \in Jobs |-> "end"]
  /\ mem = [j \in Jobs |-> NoTasks]
  /\ reg = [j \in Jobs |-> FALSE]
  /\ cancelled = [j \in Jobs |-> FALSE]
  /\ rt = [j \in Jobs |-> FALSE] /\ boot = [j \in Jobs |-> FALSE]
  /\ ok = [j \in Jobs |-> FALSE]
  /\ trim = [a \in Actors |-> NoTrim]
  /\ cancel = [pc |-> "idle", job |-> None]
  /\ del = [pc |-> "idle", job |-> None, force |-> FALSE]

Init == Empty /\ lost = 0 /\ used = [jobs |-> {}, cancels |-> 0, deletes |-> 0]

\* The HTTP server starts once Recover has returned.
Serving == up /\ \A j \in Jobs : pc[j] \in {"fail", "failEvents", "endTrim"} => reg[j]

(***************************************************************************)
(* Submit: create the row, append the "queued" event, start the goroutine. *)
(***************************************************************************)
Submit(j) ==
  /\ Serving /\ j \notin used.jobs
  /\ used' = [used EXCEPT !.jobs = @ \cup {j}]
  /\ row' = [row EXCEPT ![j] = "queued"]
  /\ Goto(j, "spawned")
  /\ UNCHANGED <<task, signed, fin, clock, world, proc, local, trim, cancel, del>>

(***************************************************************************)
(* The job's runtime: a clone in jobs/<id>/runtime and a container on it.  *)
(* startRuntime runs under the job's context, at planning (Liquibase) or   *)
(* when a task needs the runtime.  Between docker run and the return of    *)
(* runtime.Start nothing but that call knows the container.                *)
(***************************************************************************)
StartRuntime(j) ==
  /\ pc[j] = "plan" \/ (pc[j] = "work" /\ cur[j] # "plan")
  /\ ~cancelled[j] /\ ~rt[j] /\ ~boot[j]
  /\ ctr' = ctr \cup {Here(j)}
  /\ stuck' = stuck \ {Here(j)}
  /\ dir' = [dir EXCEPT ![j] = epoch]
  /\ boot' = [boot EXCEPT ![j] = TRUE]
  /\ UNCHANGED <<db, inst, proc, pc, cur, mem, reg, cancelled, rt, ok, trim, reqs>>

RuntimeStarted(j) ==
  /\ boot[j]
  /\ boot' = [boot EXCEPT ![j] = FALSE]
  /\ rt' = [rt EXCEPT ![j] = TRUE]
  /\ UNCHANGED <<db, world, proc, pc, cur, mem, reg, cancelled, ok, trim, reqs>>

\* runtime.Stop: docker rm -f is never run under a context that is done, and
\* docker may refuse it.
StopContainer(j, done) ==
  \/ ~done /\ ctr' = ctr \ {Here(j)} /\ UNCHANGED stuck
  \/ (done \/ DockerRefuses) /\ stuck' = stuck \cup {Here(j)} /\ UNCHANGED ctr

\* runtime.Start fails: it stops the container with the context it was given, the
\* job's, and ignores the error; the clone is removed and the job fails.
StartFails(j) ==
  /\ boot[j]
  /\ boot' = [boot EXCEPT ![j] = FALSE]
  /\ dir' = [dir EXCEPT ![j] = None]
  /\ StopContainer(j, cancelled[j])
  /\ Goto(j, IF pc[j] = "plan" THEN "fail" ELSE "taskFail")
  /\ UNCHANGED <<db, inst, proc, cur, mem, reg, cancelled, rt, ok, trim, reqs>>

\* The runner forgets its runtime whether or not the container could be stopped; a
\* second try has a context of its own, so only docker can refuse it.
CleanupRuntime(j) ==
  /\ rt' = [rt EXCEPT ![j] = FALSE]
  /\ IF rt[j] THEN StopContainer(j, FALSE) /\ dir' = [dir EXCEPT ![j] = None]
     ELSE UNCHANGED <<ctr, dir, stuck>>

\* Planning a Liquibase job runs updateSQL in the job's own runtime; a plan_only job
\* has a temporary one, released before the plan is used.
ReleasePlanRuntime(j) ==
  IF j \in PlanOnlyJobs THEN CleanupRuntime(j) ELSE UNCHANGED <<ctr, dir, stuck, rt>>

-----------------------------------------------------------------------------
(* runJob, up to the task loop.                                            *)

RegisterRunner(j) ==
  /\ pc[j] = "spawned"
  /\ Goto(j, "load")
  /\ reg' = [reg EXCEPT ![j] = TRUE]
  /\ UNCHANGED <<db, world, proc, cur, mem, cancelled, rt, boot, ok, trim, reqs>>

\* runJob returns at once for a job that is gone or already terminal.
SkipRun(j) == row[j] \in Terminal \cup {"absent"}

LoadJob(j) ==
  /\ pc[j] = "load"
  /\ Goto(j, IF SkipRun(j) THEN "exit"
             ELSE IF cancelled[j] THEN "fail" ELSE "start")
  /\ UNCHANGED <<db, world, proc, local, trim, reqs>>

\* UpdateJob(running) goes through the job's context and its error is
\* ignored; it does not look at the status it overwrites.  validateStore may
\* then fail the job.
StartJob(j) ==
  /\ pc[j] = "start"
  /\ IF cancelled[j] THEN UNCHANGED row ELSE SetRow(j, "running")
  /\ \E p \in {"plan", "fail"} : Goto(j, p)
  /\ UNCHANGED <<task, signed, fin, clock, world, proc, local, trim, reqs>>

\* loadOrPlanTasks without stored tasks: sign the job and build the plan.
PlanFresh(j) ==
  /\ pc[j] = "plan" /\ ~cancelled[j] /\ ~boot[j] /\ task[j] = NoTasks
  /\ signed' = [signed EXCEPT ![j] = row[j] # "absent"]
  /\ mem' = [mem EXCEPT ![j] = FullPlan]
  /\ cur' = [cur EXCEPT ![j] = "plan"]
  /\ ReleasePlanRuntime(j)
  /\ Goto(j, "store")
  /\ UNCHANGED <<row, task, fin, clock, inst, proc, reg, cancelled, boot, ok, trim, reqs>>

\* Stored tasks whose signature or shape has drifted: sign again, delete
\* them and build a new plan.
PlanDrifted(j) ==
  /\ pc[j] = "plan" /\ ~cancelled[j] /\ ~boot[j] /\ task[j] # NoTasks
  /\ signed' = [signed EXCEPT ![j] = TRUE]
  /\ task' = [task EXCEPT ![j] = NoTasks]
  /\ mem' = [mem EXCEPT ![j] = FullPlan]
  /\ cur' = [cur EXCEPT ![j] = "plan"]
  /\ ReleasePlanRuntime(j)
  /\ Goto(j, "restore")
  /\ UNCHANGED <<row, fin, clock, inst, proc, reg, cancelled, boot, ok, trim, reqs>>

\* Stored tasks that still fit: a state_execute task that an earlier engine
\* left running is done if its state is in the cache, else queued again.
PlanStored(j) ==
  /\ pc[j] = "plan" /\ ~cancelled[j] /\ ~boot[j] /\ ~rt[j] /\ task[j] # NoTasks
  /\ \E s \in {"succeeded", "queued"} :
       LET loaded == [task[j] EXCEPT !["exec"] = IF @ = "running" THEN s ELSE @]
       IN  /\ task' = [task EXCEPT ![j] = loaded]
           /\ mem' = [mem EXCEPT ![j] = loaded]
  /\ cur' = [cur EXCEPT ![j] = "plan"]
  /\ Goto(j, IF j \in PlanOnlyJobs THEN "mark" ELSE "begin")
  /\ UNCHANGED <<row, signed, fin, clock, world, proc, reg, cancelled, rt, boot, ok,
                 trim, reqs>>

\* Planning fails before or after signing the job, or its first query meets
\* a cancelled context.
PlanFails(j) ==
  /\ pc[j] = "plan" /\ ~boot[j]
  /\ \E b \in {FALSE, TaskWritable(j)} :
       signed' = [signed EXCEPT ![j] = @ \/ b]
  /\ ReleasePlanRuntime(j)
  /\ Goto(j, "fail")
  /\ UNCHANGED <<row, task, fin, clock, inst, proc, cur, mem, reg, cancelled, boot, ok,
                 trim, reqs>>

\* ReplaceTasks inserts the tasks one statement at a time, outside any
\* transaction.
StoreTask(j) ==
  /\ pc[j] \in {"store", "restore"} /\ cur[j] # "end"
  /\ IF TaskWritable(j)
     THEN /\ SetTask(j, cur[j], "queued")
          /\ cur' = [cur EXCEPT ![j] = NextTask(@)]
          /\ UNCHANGED pc
     ELSE Goto(j, "fail") /\ UNCHANGED <<task, cur>>
  /\ UNCHANGED <<row, signed, fin, clock, world, proc, mem, reg, cancelled, rt,
                 boot, ok, trim, reqs>>

\* A fresh plan is followed by retention; its query uses the job's context.
PlanStoredAll(j) ==
  /\ pc[j] \in {"store", "restore"} /\ cur[j] = "end"
  /\ IF pc[j] = "store" /\ ~cancelled[j]
     THEN TrimList(j, j) ELSE UNCHANGED trim
  /\ Goto(j, "planTrim")
  /\ UNCHANGED <<db, world, proc, local, reqs>>

\* Mutant: a freshly planned plan_only job is executed.
PlanTrimmed_Executes(j) ==
  /\ pc[j] = "planTrim"
  /\ trim[j].dir = None /\ (trim[j].todo = {} \/ TrimBlocked(j))
  /\ trim' = [trim EXCEPT ![j] = NoTrim]
  /\ cur' = [cur EXCEPT ![j] = "plan"]
  /\ Goto(j, "begin")
  /\ UNCHANGED <<db, world, proc, mem, reg, cancelled, rt, boot, ok, reqs>>

PlanTrimmed(j) ==
  /\ pc[j] = "planTrim"
  /\ trim[j].dir = None /\ (trim[j].todo = {} \/ TrimBlocked(j))
  /\ trim' = [trim EXCEPT ![j] = NoTrim]
  /\ cur' = [cur EXCEPT ![j] = "plan"]
  /\ Goto(j, IF j \in PlanOnlyJobs THEN "mark" ELSE "begin")
  /\ UNCHANGED <<db, world, proc, mem, reg, cancelled, rt, boot, ok, reqs>>

\* plan_only: markTasksSucceeded, one task at a time, then succeedPlan.
MarkTask(j) ==
  /\ pc[j] = "mark"
  /\ IF cur[j] = "end"
     THEN Goto(j, "succeed") /\ UNCHANGED <<task, cur>>
     ELSE IF mem[j][cur[j]] # "none" /\ ~TaskWritable(j)
     THEN Goto(j, "fail") /\ UNCHANGED <<task, cur>>
     ELSE /\ IF mem[j][cur[j]] = "none" THEN UNCHANGED task
             ELSE SetTask(j, cur[j], "succeeded")
          /\ cur' = [cur EXCEPT ![j] = NextTask(@)]
          /\ UNCHANGED pc
  /\ UNCHANGED <<row, signed, fin, clock, world, proc, mem, reg, cancelled, rt,
                 boot, ok, trim, reqs>>

-----------------------------------------------------------------------------
(* runJob: the task loop.                                                  *)

\* One turn of the loop before the task's own work: the context check, the
\* tasks to skip, the cached state_execute task, or the move to "running".
BeginTask(j) ==
  /\ pc[j] = "begin" /\ cur[j] # "end"
  /\ LET t == cur[j]
         skip == mem[j][t] \in {"none", "succeeded"}
         next == cur' = [cur EXCEPT ![j] = NextTask(t)]
     IN  \/ /\ (cancelled[j] /\ mem[j][t] # "none") \/ mem[j][t] = "failed"
               \/ (~skip /\ ~TaskWritable(j))
            /\ Goto(j, "fail") /\ UNCHANGED <<task, cur>>
         \/ /\ skip /\ (cancelled[j] => mem[j][t] = "none")
            /\ next /\ UNCHANGED <<task, pc>>
         \/ /\ t = "exec" /\ mem[j][t] \in {"queued", "running"} /\ TaskWritable(j)
            /\ SetTask(j, t, "succeeded")
            /\ next /\ UNCHANGED pc
         \/ /\ mem[j][t] \in {"queued", "running"} /\ TaskWritable(j)
            /\ SetTask(j, t, "running")
            /\ Goto(j, "work") /\ UNCHANGED cur
  /\ UNCHANGED <<row, signed, fin, clock, world, proc, mem, reg, cancelled, rt,
                 boot, ok, trim, reqs>>

\* Past the last task: a list without prepare_instance still creates an
\* instance, a list without state_execute has no state to create it from.
EndOfTasks(j) ==
  /\ pc[j] = "begin" /\ cur[j] = "end"
  /\ Goto(j, IF mem[j]["exec"] = "none" THEN "fail" ELSE "work")
  /\ UNCHANGED <<db, world, proc, local, trim, reqs>>

WorkPlan(j) ==
  /\ pc[j] = "work" /\ cur[j] = "plan"
  /\ Goto(j, "finish")
  /\ UNCHANGED <<db, world, proc, local, trim, reqs>>

\* executeStateTask, past the start of the runtime: the state is built in it or by
\* another job, or it is cached and the runtime is released, or it fails.
WorkExec(j) ==
  /\ pc[j] = "work" /\ cur[j] = "exec" /\ ~boot[j]
  /\ \/ /\ ~cancelled[j] /\ Goto(j, "finish")
        /\ UNCHANGED <<ctr, dir, stuck, rt>> \/ CleanupRuntime(j)
     \/ Goto(j, "taskFail") /\ UNCHANGED <<ctr, dir, stuck, rt>>
  /\ UNCHANGED <<db, inst, proc, cur, mem, reg, cancelled, boot, ok, trim, reqs>>

\* createInstance, first half: the job's runtime, or the one started from the state.
WorkInstance(j) ==
  /\ pc[j] = "work" /\ cur[j] \in {"inst", "end"} /\ ~boot[j]
  /\ \/ ~cancelled[j] /\ rt[j] /\ Goto(j, "insert")
     \/ (cancelled[j] \/ ~rt[j]) /\ Goto(j, "taskFail")
  /\ UNCHANGED <<db, world, proc, local, trim, reqs>>

\* createInstance, second half: the instance row, whose foreign key fails if
\* the state has been evicted or deleted since.
InsertInstance(j) ==
  /\ pc[j] = "insert"
  /\ \/ /\ ~cancelled[j]
        /\ inst' = inst \cup {Here(j)}
        /\ Goto(j, IF cur[j] = "end" THEN "succeed" ELSE "finish")
     \/ Goto(j, "taskFail") /\ UNCHANGED inst
  /\ UNCHANGED <<db, dir, ctr, stuck, proc, local, trim, reqs>>

\* updateTaskStatus(succeeded) after the work; its failure fails the job.
FinishTask(j) ==
  /\ pc[j] = "finish"
  /\ IF TaskWritable(j)
     THEN /\ SetTask(j, cur[j], "succeeded")
          /\ cur' = [cur EXCEPT ![j] = NextTask(@)]
          /\ Goto(j, IF cur[j] = "inst" THEN "succeed" ELSE "begin")
     ELSE Goto(j, "fail") /\ UNCHANGED <<task, cur>>
  /\ UNCHANGED <<row, signed, fin, clock, world, proc, mem, reg, cancelled, rt,
                 boot, ok, trim, reqs>>

\* updateTaskStatus(failed) goes through the job's context; its error is
\* ignored, so a cancelled job leaves the task row as it was.
FailTask(j) ==
  /\ pc[j] = "taskFail"
  /\ IF TaskWritable(j) /\ cur[j] # "end"
     THEN SetTask(j, cur[j], "failed") ELSE UNCHANGED task
  /\ Goto(j, "fail")
  /\ UNCHANGED <<row, signed, fin, clock, world, proc, local, trim, reqs>>

-----------------------------------------------------------------------------
(* runJob: the end of the job.  The status row is written first, the       *)
(* events after it; without the row the events fail and retention is       *)
(* skipped.                                                                *)

Succeed(j) ==
  /\ pc[j] = "succeed"
  /\ SetFinished(j, "succeeded")
  /\ Goto(j, "succEvents")
  /\ UNCHANGED <<task, signed, world, proc, local, trim, reqs>>

\* Mutant: jobSucceeded is never set, so the deferred cleanup always runs.
SucceedEvents_KeepsFlag(j) ==
  /\ pc[j] = "succEvents"
  /\ IF row[j] = "absent" THEN Goto(j, "exit") /\ UNCHANGED trim
     ELSE TrimForJob(j, j) /\ Goto(j, "endTrim")
  /\ UNCHANGED <<db, world, proc, local, reqs>>

SucceedEvents(j) ==
  /\ pc[j] = "succEvents"
  /\ IF row[j] = "absent" THEN Goto(j, "exit") /\ UNCHANGED <<ok, trim>>
     ELSE /\ ok' = [ok EXCEPT ![j] = TRUE]
          /\ TrimForJob(j, j)
          /\ Goto(j, "endTrim")
  /\ UNCHANGED <<db, world, proc, cur, mem, reg, cancelled, rt, boot, reqs>>

FailJob(j) ==
  /\ pc[j] = "fail"
  /\ SetFinished(j, "failed")
  /\ Goto(j, "failEvents")
  /\ UNCHANGED <<task, signed, world, proc, local, trim, reqs>>

FailEvents(j) ==
  /\ pc[j] = "failEvents"
  /\ IF row[j] = "absent" THEN Goto(j, "exit") /\ UNCHANGED trim
     ELSE TrimForJob(j, j) /\ Goto(j, "endTrim")
  /\ UNCHANGED <<db, world, proc, local, reqs>>

\* SQLite refuses one of the final events (locked database, full disk): succeed
\* and failJob return the error, jobSucceeded stays false, retention is skipped.
EventRefused(j) ==
  /\ pc[j] \in {"succEvents", "failEvents"} /\ lost < MaxLost
  /\ lost' = lost + 1
  /\ Goto(j, "exit")
  /\ UNCHANGED <<db, world, epoch, up, local, trim, reqs>>

EndTrimmed(j) ==
  /\ pc[j] = "endTrim" /\ TrimIdle(j)
  /\ Goto(j, "exit")
  /\ UNCHANGED <<db, world, proc, local, trim, reqs>>

\* Mutant: the deferred function forgets the runtime of a cancelled job.
Exit_SkipsCancelled(j) ==
  /\ pc[j] = "exit"
  /\ IF ok[j] \/ cancelled[j] THEN UNCHANGED <<ctr, dir, stuck, rt>> ELSE CleanupRuntime(j)
  /\ Goto(j, "unreg")
  /\ UNCHANGED <<db, inst, proc, cur, mem, reg, cancelled, boot, ok, trim, reqs>>

\* The deferred function: an unsuccessful job stops its runtime, then done
\* is closed, then the runner leaves the map.
Exit(j) ==
  /\ pc[j] = "exit"
  /\ IF ok[j] THEN UNCHANGED <<ctr, dir, stuck, rt>> ELSE CleanupRuntime(j)
  /\ Goto(j, "unreg")
  /\ UNCHANGED <<db, inst, proc, cur, mem, reg, cancelled, boot, ok, trim, reqs>>

Unregister(j) ==
  /\ pc[j] = "unreg"
  /\ Goto(j, "idle")
  /\ cur' = [cur EXCEPT ![j] = "end"]
  /\ mem' = [mem EXCEPT ![j] = NoTasks]
  /\ reg' = [reg EXCEPT ![j] = FALSE]
  /\ cancelled' = [cancelled EXCEPT ![j] = FALSE]
  /\ rt' = [rt EXCEPT ![j] = FALSE]
  /\ boot' = [boot EXCEPT ![j] = FALSE]
  /\ ok' = [ok EXCEPT ![j] = FALSE]
  /\ UNCHANGED <<db, world, proc, trim, reqs>>

-----------------------------------------------------------------------------
(* Cancel: read the status, look for a runner, and only without one fail   *)
(* the job directly.  A terminal job is left alone.                        *)

CancelLookup(j) ==
  /\ Serving /\ cancel.pc = "idle" /\ used.cancels < MaxCancels
  /\ row[j] \in {"queued", "running"}
  /\ cancel' = [pc |-> "runner", job |-> j]
  /\ used' = [used EXCEPT !.cancels = @ + 1]
  /\ UNCHANGED <<db, world, proc, pc, local, trim, del>>

CancelRunner ==
  /\ cancel.pc = "runner"
  /\ IF reg[cancel.job]
     THEN /\ cancelled' = [cancelled EXCEPT ![cancel.job] = TRUE]
          /\ cancel' = [pc |-> "idle", job |-> None]
     ELSE cancel' = [cancel EXCEPT !.pc = "fail"] /\ UNCHANGED cancelled
  /\ UNCHANGED <<db, world, proc, pc, cur, mem, reg, rt, boot, ok, trim, del, used>>

\* Mutant: a status that is not one of the job statuses is stored.
CancelFail_OwnStatus ==
  /\ cancel.pc = "fail"
  /\ SetFinished(cancel.job, "cancelled")
  /\ cancel' = [cancel EXCEPT !.pc = "events"]
  /\ UNCHANGED <<task, signed, world, proc, pc, local, trim, del, used>>

CancelFail ==
  /\ cancel.pc = "fail"
  /\ SetFinished(cancel.job, "failed")
  /\ cancel' = [cancel EXCEPT !.pc = "events"]
  /\ UNCHANGED <<task, signed, world, proc, pc, local, trim, del, used>>

CancelEvents ==
  /\ cancel.pc = "events"
  /\ TrimForJob(Canceller, cancel.job)
  /\ cancel' = [cancel EXCEPT !.pc = "trim"]
  /\ UNCHANGED <<db, world, proc, pc, local, del, used>>

CancelReturn ==
  /\ cancel.pc = "trim" /\ TrimIdle(Canceller)
  /\ cancel' = [pc |-> "idle", job |-> None]
  /\ UNCHANGED <<db, world, proc, pc, local, trim, del, used>>

-----------------------------------------------------------------------------
(* Delete: blocked while a task is running unless forced; a forced delete  *)
(* cancels the runner it finds and waits for it.                           *)

HasRunningTasks(j) == \E t \in TaskIds : task[j][t] = "running"

DeleteLookup(j, force) ==
  /\ Serving /\ del.pc = "idle" /\ used.deletes < MaxDeletes
  /\ row[j] # "absent"
  /\ HasRunningTasks(j) => force
  /\ del' = [pc |-> IF HasRunningTasks(j) THEN "cancel" ELSE "row",
             job |-> j, force |-> force]
  /\ used' = [used EXCEPT !.deletes = @ + 1]
  /\ UNCHANGED <<db, world, proc, pc, local, trim, cancel>>

DeleteCancel ==
  /\ del.pc = "cancel"
  /\ IF reg[del.job]
     THEN /\ cancelled' = [cancelled EXCEPT ![del.job] = TRUE]
          /\ del' = [del EXCEPT !.pc = "wait"]
     ELSE del' = [del EXCEPT !.pc = "row"] /\ UNCHANGED cancelled
  /\ UNCHANGED <<db, world, proc, pc, cur, mem, reg, rt, boot, ok, trim, cancel, used>>

\* done is closed before the runner is unregistered.
RunnerDone(j) == pc[j] \in {"unreg", "idle"}

DeleteWait ==
  /\ del.pc = "wait" /\ RunnerDone(del.job)
  /\ del' = [del EXCEPT !.pc = "row"]
  /\ UNCHANGED <<db, world, proc, pc, local, trim, cancel, used>>

DeleteRow ==
  /\ del.pc = "row"
  /\ DropRow(del.job)
  /\ del' = [del EXCEPT !.pc = "dir"]
  /\ UNCHANGED <<fin, clock, world, proc, pc, local, trim, cancel, used>>

DeleteDir ==
  /\ del.pc = "dir"
  /\ RemoveJobDir(del.job)
  /\ del' = [pc |-> "idle", job |-> None, force |-> FALSE]
  /\ UNCHANGED <<db, inst, ctr, stuck, proc, pc, local, trim, cancel, used>>

-----------------------------------------------------------------------------
(* The engine process dies: rows, directories and containers survive it.   *)
(* Recover starts a goroutine for every queued or running job, or fails it *)
(* when its request can no longer be prepared; requests are served after.  *)

Crash ==
  /\ up /\ epoch < MaxCrashes
  /\ up' = FALSE
  /\ pc' = [j \in Jobs |-> "idle"]
  /\ cur' = [j \in Jobs |-> "end"]
  /\ mem' = [j \in Jobs |-> NoTasks]
  /\ reg' = [j \in Jobs |-> FALSE]
  /\ cancelled' = [j \in Jobs |-> FALSE]
  /\ rt' = [j \in Jobs |-> FALSE] /\ boot' = [j \in Jobs |-> FALSE]
  /\ ok' = [j \in Jobs |-> FALSE]
  /\ trim' = [a \in Actors |-> NoTrim]
  /\ cancel' = [pc |-> "idle", job |-> None]
  /\ del' = [pc |-> "idle", job |-> None, force |-> FALSE]
  /\ UNCHANGED <<db, world, epoch, lost, used>>

\* Mutant: jobs that were still queued are not started again.
Recover_OnlyRunning ==
  /\ ~up
  /\ up' = TRUE
  /\ epoch' = epoch + 1 /\ UNCHANGED lost
  /\ pc' = [j \in Jobs |-> IF row[j] = "running" THEN "spawned" ELSE "idle"]
  /\ UNCHANGED <<db, world, local, trim, reqs>>

\* Mutant: a job that was running is put back into the queue first.
Recover_Requeues ==
  /\ ~up
  /\ up' = TRUE
  /\ epoch' = epoch + 1 /\ UNCHANGED lost
  /\ row' = [j \in Jobs |-> IF row[j] = "running" THEN "queued" ELSE row[j]]
  /\ pc' = [j \in Jobs |-> IF row'[j] = "queued" THEN "spawned" ELSE "idle"]
  /\ UNCHANGED <<task, signed, fin, clock, world, local, trim, reqs>>

Recover ==
  /\ ~up
  /\ up' = TRUE
  /\ epoch' = epoch + 1 /\ UNCHANGED lost
  /\ \E bad \in SUBSET {j \in Jobs : row[j] \in {"queued", "running"}} :
       pc' = [j \in Jobs |-> IF j \in bad THEN "fail"
                             ELSE IF row[j] \in {"queued", "running"}
                             THEN "spawned" ELSE "idle"]
  /\ UNCHANGED <<db, world, local, trim, reqs>>

-----------------------------------------------------------------------------
RunnerStep(j) ==
  \/ RegisterRunner(j) \/ LoadJob(j) \/ StartJob(j)
  \/ StartRuntime(j) \/ RuntimeStarted(j) \/ StartFails(j)
  \/ PlanFresh(j) \/ PlanDrifted(j) \/ PlanStored(j) \/ PlanFails(j)
  \/ StoreTask(j) \/ PlanStoredAll(j) \/ PlanTrimmed(j) \/ MarkTask(j)
  \/ BeginTask(j) \/ EndOfTasks(j)
  \/ WorkPlan(j) \/ WorkExec(j) \/ WorkInstance(j) \/ InsertInstance(j)
  \/ FinishTask(j) \/ FailTask(j)
  \/ Succeed(j) \/ SucceedEvents(j) \/ FailJob(j) \/ FailEvents(j)
  \/ EventRefused(j) \/ EndTrimmed(j) \/ Exit(j) \/ Unregister(j)

CancelStep == CancelRunner \/ CancelFail \/ CancelEvents \/ CancelReturn
DeleteStep == DeleteCancel \/ DeleteWait \/ DeleteRow \/ DeleteDir
TrimStep(a) == TrimRow(a) \/ TrimDir(a)

Next ==
  \/ \E j \in Jobs : Submit(j) \/ RunnerStep(j) \/ CancelLookup(j)
  \/ \E j \in Jobs, force \in BOOLEAN : DeleteLookup(j, force)
  \/ CancelStep \/ DeleteStep
  \/ \E a \in Actors : TrimStep(a)
  \/ Crash \/ Recover

\* A job that may be polling for a lock file: .init.lock of the base at planning or
\* in a task, .build.lock of a state in a task.  While every holder lives the wait
\* ends (modules StateBuild and BaseInit); a lock file left by an engine that died is
\* never removed, and only a cancel ends the loop.
MayWait(j) ==
  /\ epoch > 0 /\ ~cancelled[j] /\ ~boot[j]
  /\ pc[j] = "plan" \/ (pc[j] = "work" /\ cur[j] = "exec")

\* Goroutines are scheduled, the calls a runner makes return (they are bounded
\* by the runtime's timeouts or end with the process they run) except for the wait
\* for a lock left by a crash, and the engine is restarted by the next command.
Fairness ==
  /\ \A j \in Jobs : WF_vars(RunnerStep(j) /\ ~MayWait(j))
  /\ \A a \in Actors : WF_vars(TrimStep(a))
  /\ WF_vars(CancelStep) /\ WF_vars(DeleteStep) /\ WF_vars(Recover)

Spec == Init /\ [][Next]_vars
FairSpec == Spec /\ Fairness

-----------------------------------------------------------------------------
(* Properties.                                                             *)

Runs == Jobs \X Epochs

TypeDb ==
  /\ row \in [Jobs -> RowStatus]
  /\ task \in [Jobs -> [TaskIds -> TaskStatus]]
  /\ signed \in [Jobs -> BOOLEAN]
  /\ fin \in [Jobs -> Nat] /\ clock \in Nat

TypeWorld ==
  /\ inst \in SUBSET Runs /\ ctr \in SUBSET Runs /\ stuck \in SUBSET Runs
  /\ dir \in [Jobs -> Epochs \cup {None}]
  /\ epoch \in Epochs /\ up \in BOOLEAN /\ (~up => epoch < MaxCrashes)
  /\ lost \in Nat

TypeRunner ==
  /\ cur \in [Jobs -> TaskIds \cup {"end"}]
  /\ mem \in [Jobs -> [TaskIds -> TaskStatus]]
  /\ reg \in [Jobs -> BOOLEAN] /\ cancelled \in [Jobs -> BOOLEAN]
  /\ rt \in [Jobs -> BOOLEAN] /\ boot \in [Jobs -> BOOLEAN]
  /\ ok \in [Jobs -> BOOLEAN]

TypeTrim == trim \in [Actors -> [todo : SUBSET Jobs, dir : Jobs \cup {None}]]

TypeReqs ==
  /\ cancel \in [pc : {"idle", "runner", "fail", "events", "trim"}, job : Jobs \cup {None}]
  /\ cancel.pc # "idle" => cancel.job \in Jobs
  /\ del \in [pc : {"idle", "cancel", "wait", "row", "dir"},
              job : Jobs \cup {None}, force : BOOLEAN]
  /\ del.pc # "idle" => del.job \in Jobs
  /\ used \in [jobs : SUBSET Jobs, cancels : Nat, deletes : Nat]

\* Type correctness of every variable of the service, and the engine is only
\* down after a crash.
TypeOK ==
  /\ TypeDb /\ TypeWorld /\ TypeRunner /\ TypeTrim /\ TypeReqs
  /\ pc \in [Jobs -> Points]

\* The instance of an engine run of job j: its row, its running container and
\* the runtime directory the container works on.
Usable(j, e) == <<j, e>> \in inst /\ <<j, e>> \in ctr /\ dir[j] = e

AllSucceededUsable ==
  \A j \in Jobs \ PlanOnlyJobs :
    row[j] = "succeeded" => \E e \in Epochs : Usable(j, e)

\* As long as SQLite accepts the final events, a job whose status is succeeded
\* has a usable instance: neither the runner's own cleanup, nor retention,
\* deletion, cancellation or a crash at any point takes the container or the
\* runtime directory away before the job's row.
SucceededUsable == lost = 0 => AllSucceededUsable

\* The container that job j started in this engine run has someone who will stop it.
HasOwner(j) == Here(j) \in inst \/ rt[j] \/ boot[j]

\* While the engine runs, a container it has started belongs to an instance, to a
\* runner that will stop it or to a start under way; one without an owner is a
\* container that a call to stop it has left running: docker refused, or the call was
\* made with the context of a cancelled job (CancelStopsContainer says how far the
\* code is from what its documents promise).  A dead engine's containers stay behind.
NoLeakedRuntime ==
  \A j \in Jobs : up /\ Here(j) \in ctr => HasOwner(j) \/ Here(j) \in stuck

\* plan_only jobs never leave an instance (docs: plan never creates instances).
PlanCreatesNothing ==
  \A p \in inst : p[1] \notin PlanOnlyJobs

Quiet ==
  /\ up /\ cancel.pc = "idle" /\ del.pc = "idle"
  /\ \A j \in Jobs : pc[j] = "idle"
  /\ \A x \in Actors : TrimIdle(x)

\* Once everything is quiet, concurrent retention passes have left at most
\* MaxIdentical completed jobs of each signature (an engine that died in the
\* middle, or a refused event, may leave more).
RetentionBound ==
  Quiet /\ epoch = 0 /\ lost = 0 /\ MaxIdentical > 0 =>
    \A j \in Jobs : Cardinality(Completed(j)) <= MaxIdentical

\* A job that has neither ended nor been deleted.
Open(j) == row[j] \in {"queued", "running"}

\* The status of a job as a client sees it, for the abstract life cycle.
JobStatus == [j \in Jobs |-> IF row[j] # "absent" THEN row[j]
                             ELSE IF j \in used.jobs THEN "deleted" ELSE "new"]
Lifecycle == INSTANCE JobLifecycle WITH status <- JobStatus

-----------------------------------------------------------------------------
(* What documents and tests of the repository say and the code does not do. *)

\* docs/adr/0011-task-executor-and-queue.md:68: a forced delete cancels the job, and "the
\* runtime attempts a graceful stop".  So while docker refuses nothing, a cancelled job
\* leaves no container without an owner; but a cancel between docker run and the return of
\* runtime.Start makes Start stop the container with the cancelled context.
CancelStopsContainer ==
  \A j \in Jobs : up /\ Here(j) \in ctr => HasOwner(j)

\* Retention does not touch instances and their runtime data: the directory
\* trimCompletedJobsBySignature removes is not the runtime directory of an instance.
RetentionKeepsRuntime ==
  [][\A x \in Actors : trim[x].dir # None /\ trim'[x].dir = None =>
       \A e \in Epochs : <<trim[x].dir, e>> \in inst => dir[trim[x].dir] # e]_vars
=============================================================================
