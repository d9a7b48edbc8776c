----------------------------- MODULE CommandLine -----------------------------
(***************************************************************************)
(* The parts of the command line next to each other: finding or starting   *)
(* an engine (EngineProcess, extended), the login session (AuthSession),   *)
(* source upload to a remote engine (SourceSync), composite commands and   *)
(* their temporary directories (StagePipeline), and `sqlrs init` on Linux  *)
(* (InitLocal) and on Windows (InitWSL).  They share no state, so a        *)
(* behaviour is one of them; r1, r2, ... hold the variables of the         *)
(* instanced parts, and in MCClient those of two more.                     *)
(***************************************************************************)
EXTENDS EngineProcess, Integers, Sequences

CONSTANTS
  Cmds, MaxCmds, MaxTime, Life, Window,                             \* AuthSession
  SourceFiles, DirFiles, Root, Versions, ContentOf, Includes,       \* SourceSync
  Lists, MaxRounds, MaxEdits, MaxLosses,
  StageFaults,                                                      \* StagePipeline
  InitCmds, MaxReboots, MaxRestarts                                 \* InitLocal, InitWSL

VARIABLES part,
  r1, r2, r3, r4, r5, r6, r7, r8, r9, r10, r11, r12, r13, r14, r15, r16, r17, r18

regs == <<r1, r2, r3, r4, r5, r6, r7, r8, r9, r10, r11, r12, r13, r14, r15, r16, r17, r18>>
all == <<part, vars, regs>>

-----------------------------------------------------------------------------
Auth == INSTANCE AuthSession WITH
  store <- r1, honoured <- r2, issued <- r3, now <- r4, pc <- r5, op <- r6, held <- r7,
  resp <- r8, readAt <- r9, runs <- r10, faults <- r11, intent <- r12, excuse <- r13,
  under <- r14, undone <- r15

Sync == INSTANCE SourceSync WITH
  Files <- SourceFiles,
  ver <- r1, files <- r2, dirs <- r3, uploaded <- r4, changed <- r5, round <- r6, pc <- r7,
  why <- r8, ask <- r9, sent <- r10, blobs <- r11, edits <- r12, losses <- r13, faults <- r14

Stage == INSTANCE StagePipeline WITH
  MaxFaults <- StageFaults,
  cmds <- r1, at <- r2, pc <- r3, temps <- r4, owned <- r5, job <- r6, reads <- r7, inst <- r8,
  prepared <- r9, deferred <- r10, early <- r11, unfollowed <- r12, faults <- r13, spared <- r14

Local == INSTANCE InitLocal WITH
  MaxCmds <- InitCmds,
  goos <- r1, root <- r2, hostfs <- r3, blk <- r4, mnt <- r5, parent <- r6, marker <- r7,
  config <- r8, cmd <- r9, pc <- r10, created <- r11, store <- r12, fault <- r13, result <- r14,
  cmds <- r15, faults <- r16, reboots <- r17

WSL == INSTANCE InitWSL WITH
  MaxCmds <- InitCmds,
  vhdx <- r1, alien <- r2, attached <- r3, mounted <- r4, unit <- r5, enabled <- r6, cfg <- r7,
  reads <- r8, cmd <- r9, pc <- r10, created <- r11, disk <- r12, fault <- r13, result <- r14,
  engine <- r15, cmds <- r16, faults <- r17, restarts <- r18

\* An ID token lives for some time.
ASSUME AuthAssumption ==
  "none" \notin Cmds /\ Life \in Nat \ {0} /\ Window \in Nat /\ MaxTime \in Nat /\ MaxCmds \in Nat

\* Every version of a file has a content, whose hash is not the mark of a missing file,
\* and scripts read files of the workspace.
ASSUME SyncAssumption ==
  /\ Root \in SourceFiles /\ DirFiles \subseteq SourceFiles
  /\ 1 \in Versions /\ Versions \subseteq Nat \ {0}
  /\ Sync!None \notin Sync!Contents
  /\ \A c \in Sync!Contents : Includes[c] \subseteq SourceFiles
  /\ MaxRounds \in Nat /\ MaxEdits \in Nat /\ MaxLosses \in Nat

ASSUME BoundsAssumption ==
  StageFaults \in Nat /\ InitCmds \in Nat /\ MaxReboots \in Nat /\ MaxRestarts \in Nat

InAuth  == part = "auth"
InSync  == part = "sync"
InStage == part = "stage"
InLocal == part = "local"
InWSL   == part = "wsl"

-----------------------------------------------------------------------------
\* A login keeps a usable session through overlapping refreshes and logins, until a request
\* to Google or the store of a replaced token fails, a logout overlaps another command, or
\* commands overlap while one of them has its refresh token replaced or acts on one that is
\* no longer honoured (SessionKept).  After a logout that succeeded there is no session until
\* the next login, unless a refresh under way at that moment stores its session again
\* (LogoutSticks); nothing else is excused for a logout.
SessionSound == InAuth => Auth!SessionKept /\ Auth!LogoutSticks

\* A job the remote engine accepted runs on exactly the files of the manifest, and
\* without edits, losses and faults the sync fails only for its bound on rounds.
SyncFaithful == InSync => Sync!AcceptedFaithful /\ Sync!OnlyRoundsFail

\* Whichever stage fails, a command leaves no temporary directory and no instance behind,
\* and no job loses the files it reads.
EndsClean == InStage => Stage!TempsCleaned /\ Stage!JobInputsKept /\ Stage!InstanceCleaned

\* `sqlrs init` on Linux can be run again after it was killed or failed, and when it
\* reports a btrfs store there is one.
InitRepeatable == InLocal => Local!RerunSucceeds /\ Local!StrictStore

\* `sqlrs init` on Windows reports success only over a mounted btrfs store, and the
\* engine starts only on it, through restarts of WSL.
EngineOnStore == InWSL => WSL!InitReady /\ WSL!EngineOnStore

\* No init gives up a file system that holds data unless it was told --reinit.
DataKept ==
  [][/\ InLocal => Local!DataKept
     /\ InWSL => WSL!VhdxKept]_all
=============================================================================
