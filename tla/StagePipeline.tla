--------------------------- MODULE StagePipeline ---------------------------
(***************************************************************************)
(* One command line of `sqlrs prepare`, `plan`, `run` or `prepare ... run` *)
(* (src/frontend/cli-go/internal/app).  A stage may read its files from a  *)
(* git ref, through a detached worktree or through git objects copied into *)
(* a staging directory; it submits a job to the engine and follows it.     *)
(* What matters is who removes the worktree, the staging directory and the *)
(* instance a composite run used, on every way out.                        *)
(***************************************************************************)
EXTENDS Integers, Sequences, FiniteSets

CONSTANTS MaxFaults      \* bound: failures of git, the disk, the engine, the link

VARIABLES
    cmds,        \* the stages of the command line
    at,          \* the stage under way
    pc,          \* its step
    temps,       \* temporary directories that exist
    owned,       \* what the stage's cleanup function removes
    job,         \* the submitted job: "none", "running" or "ended"
    reads,       \* temporary directories the job reads
    inst,        \* the instance of the prepare stage: "none", "live", "gone"
    prepared,    \* the composite run goes on with that instance
    deferred,    \* the deletion of the instance is due when run returns
    early,       \* an alias stage with a ref failed before it was bound
    unfollowed,  \* the link to the job was lost while the job ran
    faults, spared   \* failures; what a failed removal left behind

vars == <<cmds, at, pc, temps, owned, job, reads, inst, prepared, deferred, early,
          unfollowed, faults, spared>>

Fault   == faults < MaxFaults /\ faults' = faults + 1
NoFault == UNCHANGED faults

-----------------------------------------------------------------------------
\* Mutant: --no-watch is accepted with --ref.
ValidPrepare_AnyWatch(s) ==
    s.cmd \in {"prepare", "plan"} /\ (s.keep => s.ref = "worktree")

\* What parsing accepts of a prepare or a plan stage: --ref-keep-worktree only
\* for worktrees, and a job that reads a ref is followed to its end.
ValidPrepare(s) ==
    /\ s.cmd \in {"prepare", "plan"}
    /\ s.keep => s.ref = "worktree"
    /\ s.ref # "none" => s.watch

\* What it accepts of a run stage, which has no job and no artifact.
ValidRun(s) ==
    s.cmd = "run" /\ s.watch /\ ~ s.prov /\ (s.keep => s.ref = "worktree")

\* A plan is always followed; an alias has the flags of the raw stage.  A raw run
\* stage of a kind the program does not know is a stage too.
Stages == {s \in [cmd : {"prepare", "plan", "run"}, alias : BOOLEAN,
                  ref : {"none", "worktree", "blob"}, keep : BOOLEAN,
                  watch : BOOLEAN, prov : BOOLEAN, known : BOOLEAN] :
              /\ ValidPrepare(s) \/ ValidRun(s)
              /\ s.cmd = "plan" => s.watch
              /\ ~ s.known => s.cmd = "run" /\ ~ s.alias /\ s.ref = "none"}

\* splitCommands: one stage, or a prepare stage followed by a run stage.
CommandLines ==
    {<<s>> : s \in Stages} \cup
    {<<s, r>> : s \in {x \in Stages : x.cmd = "prepare"},
                r \in {x \in Stages : x.cmd = "run" /\ ~ x.keep}}

stage     == cmds[at]
Composite == Len(cmds) > 1

Init ==
    /\ cmds \in CommandLines /\ at = 1 /\ pc = "check"
    /\ temps = {} /\ owned = {} /\ job = "none" /\ reads = {}
    /\ inst = "none" /\ prepared = FALSE /\ deferred = FALSE
    /\ early = FALSE /\ unfollowed = FALSE /\ faults = 0 /\ spared = {}

\* Stages, temporary directories, the job and the instance.
TypeOK ==
    /\ cmds \in Seq(Stages) /\ at \in 1..Len(cmds)
    /\ pc \in {"check", "alias", "build", "bind", "trace", "submit", "follow", "artifact",
               "defer", "runalias", "runbind", "exec", "cleanup", "next", "fail", "done",
               "delete", "ended", "killed"}
    /\ temps \in SUBSET {"worktree", "stage"} /\ owned \in SUBSET {"worktree", "stage"}
    /\ job \in {"none", "running", "ended"} /\ reads \in SUBSET {"worktree", "stage"}
    /\ inst \in {"none", "live", "gone"}
    /\ {prepared, deferred, early, unfollowed} \in SUBSET BOOLEAN
    /\ faults \in 0..MaxFaults /\ spared \in SUBSET {"worktree", "stage", "instance"}

Goto(l) == pc' = l /\ UNCHANGED <<cmds, at>>
KeepJob == UNCHANGED <<job, reads, inst>>
KeepTmp == UNCHANGED <<temps, owned, spared>>
KeepRun == UNCHANGED <<prepared, deferred>>
KeepFlags == UNCHANGED <<early, unfollowed>>

-----------------------------------------------------------------------------
\* run refuses a composite whose stages use a ref or a provenance artifact.
Check ==
    /\ pc = "check"
    /\ IF Composite /\ (cmds[1].ref # "none" \/ cmds[1].prov \/ cmds[2].ref # "none")
       THEN Goto("ended")
       ELSE Goto(CASE stage.cmd = "run" -> "defer"
                   [] stage.cmd # "run" /\ stage.alias -> "alias"
                   [] OTHER -> "build")
    /\ KeepTmp /\ KeepJob /\ KeepRun /\ KeepFlags /\ NoFault

\* refctx.Resolve: a worktree is created, or blobs are read from git objects;
\* on an error it cleans up after itself.  Then the alias is looked up at the
\* ref; an error there removes the worktree too.
OpenRef(next) ==
    \/ /\ NoFault /\ Goto(next)
       /\ temps' = temps \cup (IF stage.ref = "worktree" THEN {"worktree"} ELSE {})
    \/ Fault /\ Goto("fail") /\ UNCHANGED temps

ResolveAlias ==
    /\ pc = "alias"
    /\ OpenRef("build")
    /\ UNCHANGED <<owned, spared>> /\ KeepJob /\ KeepRun /\ KeepFlags

\* buildStageRuntime up to the ref: no image or no Liquibase command is an error
\* that looks at no ref, also when an alias has already opened one.  A raw stage
\* opens its ref now.
BuildRuntime ==
    /\ pc = "build"
    /\ \/ /\ Fault /\ Goto("fail") /\ UNCHANGED temps
          /\ early' = (stage.alias /\ stage.ref # "none")
       \/ /\ stage.alias /\ NoFault /\ Goto("bind") /\ UNCHANGED <<temps, early>>
       \/ /\ ~ stage.alias /\ OpenRef("bind") /\ UNCHANGED early
    /\ UNCHANGED <<owned, spared, unfollowed>> /\ KeepJob /\ KeepRun

\* Removal of the directories in S: each may fail and stay behind.
RefCleanup(S) == IF stage.keep THEN S \ {"worktree"} ELSE S

\* What a failing bind removes: all that was made for the stage so far.
BindCleanup(S) == RefCleanup(S)

\* With git objects, the files a stage names, or for Liquibase the whole tree,
\* are copied into a staging directory, which is removed if the copy fails.
Staging(s) == IF s.ref = "blob" THEN {{}, {"stage"}} ELSE {{}}

\* bindPrepareXInputs and buildRemoteSourceSyncOptions.  The cleanup function of
\* the binding removes the staging directory and the worktree; a failure at any
\* point runs it.
Bind ==
    /\ pc = "bind"
    /\ \E staged \in Staging(stage) :
          \/ /\ NoFault /\ temps' = temps \cup staged
             /\ owned' = RefCleanup(temps \cup staged)
             /\ Goto(IF stage.prov THEN "trace" ELSE "submit")
          \/ /\ Fault /\ Goto("fail") /\ UNCHANGED owned
             /\ temps' = (temps \cup staged) \ BindCleanup(temps \cup staged)
    /\ UNCHANGED spared /\ KeepJob /\ KeepRun /\ KeepFlags

\* With a provenance path the inputs are hashed and the cache is asked first.
Trace ==
    /\ pc = "trace"
    /\ \/ NoFault /\ Goto("submit")
       \/ Fault /\ Goto("cleanup")
    /\ KeepTmp /\ KeepJob /\ KeepRun /\ KeepFlags

\* The job is submitted; without --watch the stage is done with it.
Submit ==
    /\ pc = "submit"
    /\ \/ /\ NoFault /\ job' = "running" /\ reads' = temps /\ UNCHANGED inst
          /\ Goto(CASE stage.watch -> "follow"
                    [] ~ stage.watch /\ stage.prov -> "artifact"
                    [] OTHER -> "cleanup")
       \/ Fault /\ Goto("cleanup") /\ KeepJob
    /\ KeepTmp /\ KeepRun /\ KeepFlags

\* The engine ends the job, with an instance when a prepare succeeded.
JobEnds ==
    /\ job = "running" /\ job' = "ended"
    /\ inst' \in IF stage.cmd = "prepare" THEN {"live", "none"} ELSE {"none"}
    /\ UNCHANGED <<cmds, at, pc, reads>>
    /\ KeepTmp /\ KeepRun /\ KeepFlags /\ NoFault

\* The user may detach from a prepare at the control prompt, which a stage with a
\* ref does not offer.
MayDetach(s) == s.cmd = "prepare" /\ s.ref = "none"

\* The job is followed to its end; the user may detach from it; a lost event
\* stream ends the command while the job runs.
Follow ==
    /\ pc = "follow"
    /\ \/ /\ job = "ended" /\ NoFault
          /\ Goto(IF stage.prov THEN "artifact" ELSE "cleanup")
          /\ prepared' = (inst = "live") /\ UNCHANGED unfollowed
       \/ /\ job = "running" /\ MayDetach(stage) /\ NoFault
          /\ Goto(IF stage.prov THEN "artifact" ELSE "cleanup")
          /\ UNCHANGED <<prepared, unfollowed>>
       \/ /\ Fault /\ unfollowed' = TRUE /\ UNCHANGED prepared
          /\ Goto(IF stage.prov THEN "artifact" ELSE "cleanup")
    /\ UNCHANGED <<deferred, early>> /\ KeepTmp /\ KeepJob

\* The provenance artifact is written, whatever the job's outcome; a failure to
\* write it is the command's error.
WriteArtifact ==
    /\ pc = "artifact"
    /\ \/ NoFault /\ UNCHANGED prepared
       \/ Fault /\ prepared' = FALSE
    /\ Goto("cleanup")
    /\ UNCHANGED deferred /\ KeepTmp /\ KeepJob /\ KeepFlags

\* finishPrepareCleanup: what the stage owns is removed; a removal may fail.
Cleanup ==
    /\ pc = "cleanup"
    /\ \/ NoFault /\ temps' = temps \ owned /\ UNCHANGED <<spared, prepared>>
       \/ \E d \in owned :
             Fault /\ temps' = temps \ (owned \ {d}) /\ spared' = spared \cup {d}
             /\ prepared' = FALSE
    /\ owned' = {} /\ Goto("next")
    /\ UNCHANGED deferred /\ KeepJob /\ KeepFlags

\* A composite goes on with the run stage when its prepare stage has a result.
NextStage ==
    /\ pc = "next"
    /\ IF at < Len(cmds) /\ prepared
       THEN pc' = "defer" /\ at' = at + 1 /\ UNCHANGED cmds
       ELSE Goto("done")
    /\ KeepTmp /\ KeepJob /\ KeepRun /\ KeepFlags /\ NoFault

-----------------------------------------------------------------------------
\* A run stage after a prepare registers the deletion of the instance first.
Registers(s) == prepared

DeferDelete ==
    /\ pc = "defer" /\ stage.known
    /\ deferred' = (deferred \/ Registers(stage))
    /\ Goto(IF stage.alias THEN "runalias" ELSE "runbind")
    /\ UNCHANGED prepared /\ KeepTmp /\ KeepJob /\ KeepFlags /\ NoFault

\* A run stage of an unknown kind ends the command where it stands.
UnknownKind ==
    /\ pc = "defer" /\ ~ stage.known /\ Goto("fail")
    /\ KeepTmp /\ KeepJob /\ KeepRun /\ KeepFlags /\ NoFault

\* The run alias is parsed and looked up, at the ref when there is one.
ResolveRunAlias ==
    /\ pc = "runalias"
    /\ OpenRef("runbind")
    /\ UNCHANGED <<owned, spared>> /\ KeepJob /\ KeepRun /\ KeepFlags

\* runRunParsed: an instance must be chosen exactly once, no connection flags;
\* a raw stage opens its ref; the files are read into the request.
RunBind ==
    /\ pc = "runbind"
    /\ \E opened \in (IF stage.ref = "worktree" THEN {{}, {"worktree"}} ELSE {{}}) :
          /\ temps' = temps \cup opened
          /\ \/ /\ NoFault /\ Goto("exec")
                /\ stage.ref = "worktree" => "worktree" \in temps'
             \/ Fault /\ Goto("cleanup")
    /\ owned' = RefCleanup(temps')
    /\ UNCHANGED spared /\ KeepJob /\ KeepRun /\ KeepFlags

\* The engine runs the command and streams its output; the exit code or a broken
\* stream is the result.  Then the ref is cleaned up.
Exec ==
    /\ pc = "exec" /\ (NoFault \/ Fault)
    /\ Goto("cleanup")
    /\ KeepTmp /\ KeepJob /\ KeepRun /\ KeepFlags

-----------------------------------------------------------------------------
\* A stage failed before it had anything of its own to clean.
Fail ==
    /\ pc = "fail" /\ Goto("done")
    /\ KeepTmp /\ KeepJob /\ KeepRun /\ KeepFlags /\ NoFault

\* run returns: the deferred deletion of the instance happens now.
Return ==
    /\ pc = "done" /\ Goto(IF deferred THEN "delete" ELSE "ended")
    /\ KeepTmp /\ KeepJob /\ KeepRun /\ KeepFlags /\ NoFault

\* cleanupPreparedInstance: an error or a blocked deletion is only reported.
DeleteInstance ==
    /\ pc = "delete" /\ Goto("ended")
    /\ \/ NoFault /\ inst' = "gone" /\ UNCHANGED spared
       \/ Fault /\ UNCHANGED inst /\ spared' = spared \cup {"instance"}
    /\ UNCHANGED <<temps, owned, job, reads>> /\ KeepRun /\ KeepFlags

\* A signal ends the process; nothing is cleaned.
Kill ==
    /\ pc \notin {"ended", "killed"} /\ Fault /\ Goto("killed")
    /\ KeepTmp /\ KeepJob /\ KeepRun /\ KeepFlags

Next ==
    \/ Check \/ ResolveAlias \/ BuildRuntime \/ Bind \/ Trace \/ Submit \/ JobEnds
    \/ Follow \/ WriteArtifact \/ Cleanup \/ NextStage \/ DeferDelete \/ UnknownKind \/ ResolveRunAlias
    \/ RunBind \/ Exec \/ Fail \/ Return \/ DeleteInstance \/ Kill

Spec == Init /\ [][Next]_vars

-----------------------------------------------------------------------------
\* Directories that may outlive the command: those the user wants to keep and
\* those whose removal failed.
Spared == spared \cup (IF stage.keep THEN {"worktree"} ELSE {})

\* A command that ends leaves no temporary worktree or staging directory behind,
\* whichever step failed, unless it was asked to or could not remove it,
\* and unless an alias stage failed before it was bound (early): ref-flow.md promises
\* the removal there too, and stage_pipeline.go:60-70 returns without it.
TempsCleaned == pc = "ended" /\ ~ early => temps \subseteq Spared

\* A job never loses the files it reads while it runs: a stage with a ref waits
\* for its job, and cannot be detached from, unless the link breaks.
JobInputsKept == job = "running" /\ ~ unfollowed => reads \subseteq temps

\* The instance a prepare made for the run stage of a composite is deleted when
\* the command ends, however that stage ended, unless the deletion itself fails,
\* and unless the run stage is of an unknown kind: sqlrs-run.md says the instance is
\* removed, and runner.go:510-516 returns before it registers the removal.
InstanceCleaned ==
    pc = "ended" /\ at = 2 /\ stage.known /\ "instance" \notin spared => inst # "live"

\* Steps of a prepare or plan stage, and steps after a stage.
PrepareSteps == {"alias", "build", "bind", "trace", "submit", "follow", "artifact"}
EndSteps == {"fail", "next", "done", "delete", "ended"}

\* A stage without a ref has no directories, and only such a stage is followed by
\* another.
NoRefNoTemps ==
    /\ at = 2 => cmds[1].ref = "none" /\ cmds[2].ref = "none"
    /\ stage.ref = "none" => temps = {} /\ owned = {} /\ reads = {}
    /\ pc # "check" /\ Composite =>
         (cmds[1].ref = "none" /\ cmds[2].ref = "none") \/ pc \in {"ended", "killed"}

\* What keeps TempsCleaned: from the binding on, the cleanup owns every directory
\* that is not to stay, and before it there is at most the worktree of an alias.
TempsOwned ==
    /\ pc \in {"check", "alias", "defer", "runalias"} => temps = {}
    /\ pc = "alias" => stage.alias
    /\ pc = "build" => stage.alias \/ temps = {}
    /\ pc \in {"trace", "submit", "follow", "artifact", "exec", "cleanup"} =>
         temps \subseteq owned \cup Spared
    /\ pc \in EndSteps /\ ~ early => temps \subseteq Spared

\* What keeps JobInputsKept: a job with a ref that is still followed is not cleaned
\* up after.
JobFollowed ==
    /\ pc \in {"check", "alias", "build", "bind", "trace", "submit"} => job = "none"
    /\ job = "running" => stage.cmd # "run" /\ at = 1
    /\ job = "running" /\ ~ unfollowed =>
         reads \subseteq temps /\ (stage.ref # "none" => pc \in {"follow", "killed"})

\* What keeps InstanceCleaned: a run stage follows an ended job with an instance,
\* whose deletion is due from then on.
DeletionDue ==
    /\ pc \in PrepareSteps => at = 1 /\ stage.cmd # "run"
    /\ pc = "check" => at = 1
    /\ inst = "live" => job = "ended"
    /\ prepared /\ at = 1 => inst = "live"
    /\ at = 2 => job = "ended" /\ stage.cmd = "run"
    /\ at = 2 /\ pc = "defer" => prepared
    /\ pc = "defer" => stage.cmd = "run"
    /\ prepared => cmds[1].cmd # "run"
    /\ (deferred => at = 2) /\ (pc = "delete" => deferred)
    /\ at = 2 /\ stage.known /\ pc \in {"runalias", "runbind", "exec", "cleanup", "next", "fail", "done"}
         => deferred
    /\ at = 2 /\ stage.known /\ pc = "ended" /\ "instance" \notin spared => inst # "live"

IInv ==
    /\ TypeOK /\ cmds \in CommandLines
    /\ NoRefNoTemps /\ TempsOwned /\ JobFollowed /\ DeletionDue
=============================================================================
