------------------------- MODULE CommandLineProofs --------------------------
(***************************************************************************)
(* The theorems of the command line, for any number of commands, engines,  *)
(* ports and files and any bounds.  Commands that start at once share one  *)
(* engine, and a command is connected to the engine it was told of         *)
(* (EngineProcess); a job runs on the files of the manifest (SourceSync);  *)
(* a login keeps its session and a logout ends it (AuthSession); a command *)
(* leaves nothing behind (StagePipeline).  InitProofs has `sqlrs init`.    *)
(***************************************************************************)
EXTENDS CommandLine, FiniteSetTheorems, TLAPS

-----------------------------------------------------------------------------
(* The inductive invariant.  One engine at a time follows from who holds   *)
(* daemon.lock while an engine is on its way to engine.json, and from what *)
(* a command may conclude from engine.json under the lock.                 *)

StepNames == {"idle", "cached", "read", "health", "auth", "lock", "spawn", "wait", "connected",
              "request", "served", "failed", "gone"}
CliRec == [step : StepNames, stage : 0..4, got : Engines \cup {None}, cache : Engines \cup {None},
           child : Engines \cup {None}, must : BOOLEAN]

Live(e) == Up(e) /\ eng[e] # "closing"
Booting(e) == eng[e] \in {"start", "listen", "unlinked", "recover"}
Published(e) == eng[e] \in {"recover", "serve", "deciding"}

\* A command that reads engine.json again, starts an engine or waits for it has the
\* lock.
Inside(c) == cli[c].step = "spawn" \/ cli[c].stage \in {3, 4}
LockHeld == \A c \in Clients : Inside(c) => lock = c

\* Every look-up belongs to a stage of ConnectOrStart.
Staged == \A c \in Clients : cli[c].step \in {"cached", "read", "health", "auth", "wait"}
                              => cli[c].stage # 0

OneLive == \A e, f \in Engines : Live(e) /\ Live(f) => e = f

\* As long as an engine boots, the command that started it waits for it.
WaitsFor(c, e) == /\ cli[c].stage = 4 /\ cli[c].child = e
                  /\ cli[c].step \in {"read", "health", "wait"}
StarterWaits == \A e \in Engines : Booting(e) => \E c \in Clients : WaitsFor(c, e)

\* An engine that has written engine.json is the one it names.
FileNamesIt == \A e \in Engines : Published(e) => json = e

\* Under the lock engine.json names the only engine that can be alive, and a command
\* about to start one knows that there is none, unless an auth probe told it so.
SeenUnderLock ==
    \A c \in Clients : cli[c].stage = 3 /\ cli[c].step = "health"
                        => \A e \in Engines : Live(e) => e = cli[c].got
NoneLeft ==
    \A c \in Clients : cli[c].step = "spawn" /\ ~cli[c].must
                        => \A e \in Engines : ~Live(e)

Shared == OneLive /\ StarterWaits /\ FileNamesIt /\ SeenUnderLock /\ NoneLeft

IInv == TypeOK /\ Staged /\ LockHeld /\ (~excuse => Shared)

-----------------------------------------------------------------------------
(* What a step of a command makes of its record.                           *)

Becomes(c, r) == r \in CliRec /\ cli' = [cli EXCEPT ![c] = r]

\* The other commands keep theirs.
LEMMA BecomesOnly ==
  ASSUME cli \in [Clients -> CliRec], NEW c \in Clients, NEW r, Becomes(c, r)
  PROVE  /\ cli' \in [Clients -> CliRec] /\ cli'[c] = r
         /\ \A k \in Clients : k # c => cli'[k] = cli[k]
  BY DEF Becomes

\* The type of the records, from the type invariant.
LEMMA RecordTypes == TypeOK => cli \in [Clients -> CliRec]
  BY DEF TypeOK, CliRec, StepNames

\* The steps of a command, as a set to look a name up in.
LEMMA StepNamed == StepNames = {"idle", "cached", "read", "health", "auth", "lock", "spawn",
                                "wait", "connected", "request", "served", "failed", "gone"}
  BY DEF StepNames

\* The record of a command that does nothing.
LEMMA IdleRecord == Idle \in CliRec /\ Idle.stage = 0
  BY DEF Idle, CliRec, StepNames

\* A look-up that fails leads to the next stage.
LEMMA NotHealthyMove ==
  ASSUME TypeOK, NEW c \in Clients, NEW a \in BOOLEAN, cli[c].stage # 0, NotHealthy(c, a)
  PROVE  /\ lock' = lock
         /\ \E r \in CliRec :
              /\ Becomes(c, r) /\ r.child = cli[c].child
              /\ \/ cli[c].stage = 1 /\ r.step = "read" /\ r.stage = 2
                 \/ cli[c].stage = 2 /\ r.step = "lock" /\ r.stage = 2
                 \/ cli[c].stage = 3 /\ r.step = "spawn" /\ r.stage = 3 /\ r.must = a
                 \/ cli[c].stage = 4 /\ r.step = "wait" /\ r.stage = 4
<1>1. cli[c] \in CliRec /\ cli[c].stage \in 1..4
  BY RecordTypes DEF CliRec
<1>2. lock' = lock
  BY DEF NotHealthy
<1>3. CASE cli[c].stage = 1
  <2>1. PICK r : r = [cli[c] EXCEPT !.step = "read", !.stage = 2]
    OBVIOUS
  <2>2. cli' = [cli EXCEPT ![c] = r]
    BY <1>3, <2>1 DEF NotHealthy, Set
  <2>3. r \in CliRec /\ r.step = "read" /\ r.stage = 2 /\ r.child = cli[c].child
    <3>1. cli[c] \in CliRec /\ "read" \in StepNames /\ 2 \in 0..4
      BY <1>1, StepNamed
    <3> QED
      BY <2>1, <3>1 DEF CliRec
  <2> QED
    BY <1>2, <1>3, <2>2, <2>3 DEF Becomes
<1>4. CASE cli[c].stage = 2
  <2>1. PICK r : r = [cli[c] EXCEPT !.step = "lock", !.must = a]
    OBVIOUS
  <2>2. cli' = [cli EXCEPT ![c] = r]
    BY <1>4, <2>1 DEF NotHealthy, Set
  <2>3. r \in CliRec /\ r.step = "lock" /\ r.stage = cli[c].stage /\ r.child = cli[c].child
    BY <1>1, <2>1, StepNamed DEF CliRec
  <2> QED
    BY <1>2, <1>4, <2>2, <2>3 DEF Becomes
<1>5. CASE cli[c].stage = 3
  <2>1. PICK r : r = [cli[c] EXCEPT !.step = "spawn", !.must = a]
    OBVIOUS
  <2>2. cli' = [cli EXCEPT ![c] = r]
    BY <1>5, <2>1 DEF NotHealthy, Set
  <2>3. r \in CliRec /\ r.step = "spawn" /\ r.stage = cli[c].stage /\ r.child = cli[c].child /\ r.must = a
    BY <1>1, <2>1, StepNamed DEF CliRec
  <2> QED
    BY <1>2, <1>5, <2>2, <2>3 DEF Becomes
<1>6. CASE cli[c].stage = 4
  <2>1. PICK r : r = [cli[c] EXCEPT !.step = "wait"]
    OBVIOUS
  <2>2. cli' = [cli EXCEPT ![c] = r]
    BY <1>6, <2>1 DEF NotHealthy, Set
  <2>3. r \in CliRec /\ r.step = "wait" /\ r.stage = cli[c].stage /\ r.child = cli[c].child
    BY <1>1, <2>1, StepNamed DEF CliRec
  <2> QED
    BY <1>2, <1>6, <2>2, <2>3 DEF Becomes
<1> QED
  BY <1>1, <1>3, <1>4, <1>5, <1>6

\* A connected command releases the lock if it has it.
LEMMA ConnectedMove ==
  ASSUME TypeOK, NEW c \in Clients, NEW e \in Engines, Connected(c, e)
  PROVE  /\ lock' = IF lock = c THEN None ELSE lock
         /\ \E r \in CliRec : Becomes(c, r) /\ r.step = "connected" /\ r.stage = 0 /\ r.got = e
<1>1. PICK r : r = [Idle EXCEPT !.step = "connected", !.got = e, !.cache = e]
  OBVIOUS
<1>2. cli' = [cli EXCEPT ![c] = r] /\ lock' = IF lock = c THEN None ELSE lock
  BY <1>1 DEF Connected, Release, Set
<1>3. r \in CliRec /\ r.step = "connected" /\ r.stage = 0 /\ r.got = e
  BY <1>1, IdleRecord, StepNamed DEF CliRec
<1> QED
  BY <1>2, <1>3 DEF Becomes

\* The first look-up of a call.
LEMMA CallMove ==
  ASSUME TypeOK, NEW c \in Clients, Call(c)
  PROVE  \E r \in CliRec : Becomes(c, r) /\ r.step \in {"read", "cached"} /\ r.stage = 1
<1>1. PICK s : s = IF cli[c].cache = None THEN "read" ELSE "cached"
  OBVIOUS
<1>2. PICK r : r = [Idle EXCEPT !.step = s, !.stage = 1, !.cache = cli[c].cache]
  OBVIOUS
<1>3. cli' = [cli EXCEPT ![c] = r]
  BY <1>1, <1>2 DEF Call, Set
<1>4. s \in {"read", "cached"} /\ s \in StepNames /\ cli[c] \in CliRec /\ 1 \in 0..4
  BY <1>1, StepNamed, RecordTypes
<1>5. r \in CliRec /\ r.step = s /\ r.stage = 1
  BY <1>2, <1>4, IdleRecord DEF CliRec
<1> QED
  BY <1>3, <1>4, <1>5 DEF Becomes

\* A step that only changes the label.
LEMMA LabelMove ==
  ASSUME TypeOK, NEW c \in Clients, NEW s \in StepNames, Set(c, [cli[c] EXCEPT !.step = s])
  PROVE  \E r \in CliRec : /\ Becomes(c, r) /\ r.step = s /\ r.stage = cli[c].stage
                           /\ r.child = cli[c].child /\ r.must = cli[c].must
<1>1. PICK r : r = [cli[c] EXCEPT !.step = s]
  OBVIOUS
<1>2. cli' = [cli EXCEPT ![c] = r]
  BY <1>1 DEF Set
<1>3. r \in CliRec /\ r.step = s /\ r.stage = cli[c].stage /\ r.child = cli[c].child
      /\ r.must = cli[c].must
  BY <1>1, RecordTypes DEF CliRec
<1> QED
  BY <1>2, <1>3 DEF Becomes

\* A step that ends the call.
LEMMA EndMove ==
  ASSUME TypeOK, NEW c \in Clients, NEW s \in StepNames, Set(c, [Idle EXCEPT !.step = s])
  PROVE  \E r \in CliRec : Becomes(c, r) /\ r.step = s /\ r.stage = 0
<1>1. PICK r : r = [Idle EXCEPT !.step = s]
  OBVIOUS
<1>2. cli' = [cli EXCEPT ![c] = r]
  BY <1>1 DEF Set
<1>3. r \in CliRec /\ r.step = s /\ r.stage = 0
  BY <1>1, IdleRecord DEF CliRec
<1> QED
  BY <1>2, <1>3 DEF Becomes

\* A file that names an engine leads to its health check.
LEMMA ReadMove ==
  ASSUME TypeOK, NEW c \in Clients, json # None, ReadEngineState(c)
  PROVE  /\ lock' = lock
         /\ \E r \in CliRec : /\ Becomes(c, r) /\ r.step = "health" /\ r.got = json
                              /\ r.stage = cli[c].stage /\ r.child = cli[c].child
<1>1. PICK r : r = [cli[c] EXCEPT !.step = "health", !.got = json]
  OBVIOUS
<1>2. cli' = [cli EXCEPT ![c] = r] /\ lock' = lock
  BY <1>1 DEF ReadEngineState, Set
<1>3. cli[c] \in CliRec /\ "health" \in StepNames /\ json \in Engines \cup {None}
  BY RecordTypes, StepNamed DEF TypeOK
<1>4. r \in CliRec /\ r.step = "health" /\ r.got = json /\ r.stage = cli[c].stage
      /\ r.child = cli[c].child
  BY <1>1, <1>3 DEF CliRec
<1> QED
  BY <1>2, <1>4 DEF Becomes

\* The lock is taken to look once more, or to start an engine right away.
LEMMA LockMove ==
  ASSUME TypeOK, NEW c \in Clients, AcquireLock(c)
  PROVE  \E r \in CliRec : /\ Becomes(c, r)
                           /\ \/ r.step = "spawn" /\ r.must
                              \/ r.step = "read" /\ r.stage = 3
<1>1. CASE cli[c].must
  <2>1. Set(c, [cli[c] EXCEPT !.step = "spawn"])
    BY <1>1 DEF AcquireLock
  <2>2. "spawn" \in StepNames
    BY StepNamed
  <2> QED
    BY <1>1, <2>1, <2>2, LabelMove
<1>2. CASE ~cli[c].must
  <2>1. PICK r : r = [cli[c] EXCEPT !.step = "read", !.stage = 3]
    OBVIOUS
  <2>2. cli' = [cli EXCEPT ![c] = r]
    BY <1>2, <2>1 DEF AcquireLock, Set
  <2>3. cli[c] \in CliRec /\ "read" \in StepNames /\ 3 \in 0..4
    BY RecordTypes, StepNamed
  <2>4. r \in CliRec /\ r.step = "read" /\ r.stage = 3
    BY <2>1, <2>3 DEF CliRec
  <2> QED
    BY <2>2, <2>4 DEF Becomes
<1> QED
  BY <1>1, <1>2

\* A command that has started an engine waits for it.
LEMMA SpawnMove ==
  ASSUME TypeOK, NEW c \in Clients, NEW e \in Engines,
         Set(c, [cli[c] EXCEPT !.step = "read", !.stage = 4, !.child = e])
  PROVE  \E r \in CliRec : Becomes(c, r) /\ r.step = "read" /\ r.stage = 4 /\ r.child = e
<1>1. PICK r : r = [cli[c] EXCEPT !.step = "read", !.stage = 4, !.child = e]
  OBVIOUS
<1>2. cli' = [cli EXCEPT ![c] = r]
  BY <1>1 DEF Set
<1>3. cli[c] \in CliRec /\ "read" \in StepNames /\ 4 \in 0..4
  BY RecordTypes, StepNamed
<1>4. r \in CliRec /\ r.step = "read" /\ r.stage = 4 /\ r.child = e
  BY <1>1, <1>3 DEF CliRec
<1> QED
  BY <1>2, <1>4 DEF Becomes

\* The end of a request leaves the engine in the command's cache.
LEMMA FinishMove ==
  ASSUME TypeOK, NEW c \in Clients, FinishRequest(c)
  PROVE  \E r \in CliRec : Becomes(c, r) /\ r.step \in {"served", "failed"} /\ r.stage = 0
<1>1. PICK s : s = IF Answering(cli[c].got) THEN "served" ELSE "failed"
  OBVIOUS
<1>2. PICK r : r = [Idle EXCEPT !.step = s, !.got = cli[c].got, !.cache = cli[c].cache]
  OBVIOUS
<1>3. cli' = [cli EXCEPT ![c] = r]
  BY <1>1, <1>2 DEF FinishRequest, Set
<1>4. s \in {"served", "failed"} /\ s \in StepNames /\ cli[c] \in CliRec
  BY <1>1, StepNamed, RecordTypes
<1>5. r \in CliRec /\ r.step = s /\ r.stage = 0
  BY <1>2, <1>4, IdleRecord DEF CliRec
<1> QED
  BY <1>3, <1>4, <1>5 DEF Becomes

-----------------------------------------------------------------------------
(* Types, stages and the lock.                                             *)

Looking == {"cached", "read", "health", "auth", "wait"}
Frame == cli \in [Clients -> CliRec] /\ Staged /\ LockHeld

\* What a step has to say about the record and the lock of its command.
LEMMA MoveFrame ==
  ASSUME TypeOK, Frame, NEW c \in Clients, NEW r, Becomes(c, r),
         \/ lock' = lock
         \/ lock' = IF lock = c THEN None ELSE lock
         \/ lock = None /\ lock' = c,
         r.step \in Looking => r.stage # 0,
         r.step = "spawn" \/ r.stage \in {3, 4} => lock' = c
  PROVE  Frame'
<1>1. cli' \in [Clients -> CliRec] /\ cli'[c] = r /\ \A k \in Clients : k # c => cli'[k] = cli[k]
  BY BecomesOnly DEF Frame
<1>2. Staged'
  BY <1>1 DEF Frame, Staged, Looking
<1>3. LockHeld'
  BY <1>1, ProcessAssumption DEF Frame, LockHeld, Inside
<1> QED
  BY <1>1, <1>2, <1>3 DEF Frame

\* The lock is taken when nobody has it and released by its holder only.
LEMMA FrameStep == TypeOK /\ Frame /\ [Next]_vars => Frame'
<1> SUFFICES ASSUME TypeOK, Frame, [Next]_vars PROVE Frame'
  OBVIOUS
<1>0. ASSUME UNCHANGED <<cli, lock>> PROVE Frame'
  BY <1>0 DEF Frame, Staged, LockHeld, Inside
<1>1. ASSUME NEW e \in Engines, EngineStep(e) \/ BootFails(e) \/ Kill(e) PROVE Frame'
  BY <1>0, <1>1 DEF EngineStep, Listen, RemoveOldState, WriteEngineState, Serve, TimePasses,
     IdleTick, Shutdown, RemoveEngineState, BootFails, Kill
<1>2. ASSUME NEW c \in Clients, Call(c) PROVE Frame'
  <2>1. lock' = lock
    BY <1>2 DEF Call
  <2> QED
    BY <1>2, <2>1, CallMove, MoveFrame DEF Looking
<1>3. ASSUME NEW c \in Clients, NEW a \in BOOLEAN, NotHealthy(c, a), cli[c].step \in Looking
      PROVE  Frame'
  <2>1. cli[c].stage # 0 /\ (cli[c].stage \in {3, 4} => lock = c)
    BY <1>3 DEF Frame, Staged, Looking, LockHeld, Inside
  <2> QED
    BY <1>3, <2>1, NotHealthyMove, MoveFrame DEF Looking
<1>4. ASSUME NEW c \in Clients, NEW e \in Engines, Connected(c, e) PROVE Frame'
  BY <1>4, ConnectedMove, MoveFrame DEF Looking
<1>5. ASSUME NEW c \in Clients, NEW s \in Looking, Set(c, [cli[c] EXCEPT !.step = s]), lock' = lock,
             cli[c].step \in Looking
      PROVE  Frame'
  <2>1. cli[c].stage # 0 /\ (cli[c].stage \in {3, 4} => lock = c)
    BY <1>5 DEF Frame, Staged, Looking, LockHeld, Inside
  <2>2. s \in StepNames /\ s # "spawn"
    BY <1>5, StepNamed DEF Looking
  <2> QED
    BY <1>5, <2>1, <2>2, LabelMove, MoveFrame
<1>6. ASSUME NEW c \in Clients, NEW s \in StepNames \ (Looking \cup {"spawn"}),
             Set(c, [Idle EXCEPT !.step = s]), lock' \in {lock, IF lock = c THEN None ELSE lock}
      PROVE  Frame'
  BY <1>6, EndMove, MoveFrame
<1>7. ASSUME NEW c \in Clients, TryCached(c) PROVE Frame'
  <2>1. CASE At(cli[c].cache) = {cli[c].cache}
    BY <1>4, <1>7, <2>1 DEF TryCached, At
  <2>2. CASE At(cli[c].cache) # {cli[c].cache}
    <3>1. /\ Set(c, [cli[c] EXCEPT !.step = "read"]) /\ lock' = lock
          /\ cli[c].step \in Looking /\ "read" \in Looking
      BY <1>7, <2>2 DEF TryCached, Looking
    <3> QED
      BY <1>5, <3>1
  <2> QED
    BY <2>1, <2>2
<1>8. ASSUME NEW c \in Clients, ReadEngineState(c) PROVE Frame'
  <2>1. cli[c].step \in Looking /\ cli[c].stage # 0 /\ (cli[c].stage \in {3, 4} => lock = c)
    BY <1>8 DEF ReadEngineState, Frame, Staged, Looking, LockHeld, Inside
  <2>2. CASE json = None
    BY <1>3, <1>8, <2>1, <2>2 DEF ReadEngineState
  <2>3. CASE json # None
    BY <1>8, <2>1, <2>3, ReadMove, MoveFrame
  <2> QED
    BY <2>2, <2>3
<1>9. ASSUME NEW c \in Clients, CheckHealth(c) PROVE Frame'
  <2>1. cli[c].step \in Looking /\ "auth" \in Looking
    BY <1>9 DEF CheckHealth, Looking
  <2>2. CASE NotHealthy(c, FALSE)
    BY <1>3, <2>1, <2>2
  <2>3. CASE SameInstance(cli[c].got) /\ Connected(c, cli[c].got)
    BY <1>4, <2>3 DEF SameInstance, At
  <2>4. CASE Set(c, [cli[c] EXCEPT !.step = "auth"]) /\ lock' = lock
    BY <1>5, <2>1, <2>4
  <2> QED
    BY <1>9, <2>2, <2>3, <2>4 DEF CheckHealth
<1>10. ASSUME NEW c \in Clients, CheckAuth(c) PROVE Frame'
  <2>1. cli[c].step \in Looking
    BY <1>10 DEF CheckAuth, Looking
  <2>2. CASE NotHealthy(c, TRUE)
    BY <1>3, <2>1, <2>2
  <2>3. ASSUME NEW e, At(e) = {e}, Connected(c, e) PROVE Frame'
    BY <1>4, <2>3 DEF At
  <2> QED
    BY <1>10, <2>2, <2>3 DEF CheckAuth
<1>11. ASSUME NEW c \in Clients, AcquireLock(c) PROVE Frame'
  <2>1. lock = None /\ lock' = c
    BY <1>11 DEF AcquireLock
  <2> QED
    BY <1>11, <2>1, LockMove, MoveFrame DEF Looking
<1>12. ASSUME NEW c \in Clients, GiveUp(c) \/ Exit(c) PROVE Frame'
  <2>1. \E s \in {"failed", "gone"} : Set(c, [Idle EXCEPT !.step = s])
    BY <1>12 DEF GiveUp, Exit
  <2>2. lock' = IF lock = c THEN None ELSE lock
    BY <1>12 DEF GiveUp, Exit, Release
  <2>3. {"failed", "gone"} \subseteq StepNames \ (Looking \cup {"spawn"})
    BY StepNamed DEF Looking
  <2> QED
    BY <1>6, <2>1, <2>2, <2>3
<1>13. ASSUME NEW c \in Clients, StartDaemon(c) PROVE Frame'
  <2>1. lock = c
    BY <1>13 DEF StartDaemon, Frame, LockHeld, Inside
  <2>2. ASSUME NEW e \in Engines, lock' = lock,
               Set(c, [cli[c] EXCEPT !.step = "read", !.stage = 4, !.child = e])
        PROVE  Frame'
    <3>1. PICK r \in CliRec : Becomes(c, r) /\ r.step = "read" /\ r.stage = 4
      BY <2>2, SpawnMove
    <3> QED
      BY <2>1, <2>2, <3>1, MoveFrame
  <2>3. CASE Set(c, [Idle EXCEPT !.step = "failed"]) /\ Release(c)
    <3>1. "failed" \in StepNames \ (Looking \cup {"spawn"})
      BY StepNamed DEF Looking
    <3> QED
      BY <1>6, <2>3, <3>1 DEF Release
  <2> QED
    BY <1>13, <2>2, <2>3 DEF StartDaemon
<1>14. ASSUME NEW c \in Clients, PollAgain(c) PROVE Frame'
  <2>1. cli[c].step \in Looking /\ "read" \in Looking
    BY <1>14 DEF PollAgain, Looking
  <2> QED
    BY <1>5, <1>14, <2>1 DEF PollAgain
<1>15. ASSUME NEW c \in Clients, StartRequest(c) PROVE Frame'
  <2>1. lock' = lock /\ cli[c].step = "connected"
    BY <1>15 DEF StartRequest
  <2>2. CASE Set(c, [cli[c] EXCEPT !.step = "request"])
    <3>1. "request" \in StepNames /\ "request" \notin Looking /\ "request" # "spawn"
      BY StepNamed DEF Looking
    <3>2. cli[c].stage \in {3, 4} => lock' = c
      BY <2>1 DEF Frame, LockHeld, Inside
    <3> QED
      BY <2>1, <2>2, <3>1, <3>2, LabelMove, MoveFrame
  <2>3. CASE Set(c, [Idle EXCEPT !.step = "failed"])
    <3>1. "failed" \in StepNames \ (Looking \cup {"spawn"})
      BY StepNamed DEF Looking
    <3> QED
      BY <1>6, <2>1, <2>3, <3>1
  <2> QED
    BY <1>15, <2>2, <2>3 DEF StartRequest
<1>16. ASSUME NEW c \in Clients, FinishRequest(c) PROVE Frame'
  <2>1. lock' = lock
    BY <1>16 DEF FinishRequest
  <2> QED
    BY <1>16, <2>1, FinishMove, MoveFrame DEF Looking
<1>17. CASE UNCHANGED vars
  BY <1>0, <1>17 DEF vars
<1> QED
  BY <1>1, <1>2, <1>7, <1>8, <1>9, <1>10, <1>11, <1>12, <1>13, <1>14, <1>15, <1>16, <1>17
     DEF Next, ClientStep, Finished

\* A fault counts, up to the bound.
LEMMA FaultCounts == faults \in 0..MaxFaults /\ Fault => faults' \in 0..MaxFaults
  BY ProcessAssumption DEF Fault

\* The types of engines, file, lock and counters.
OtherTypes ==
    /\ eng \in [Engines -> {"off", "start", "listen", "unlinked", "recover", "serve", "deciding", "closing", "dead"}]
    /\ port \in [Engines -> Ports] /\ idle \in [Engines -> BOOLEAN]
    /\ json \in Engines \cup {None} /\ lock \in Clients \cup {None}
    /\ calls \in 0..MaxCalls /\ faults \in 0..MaxFaults
    /\ excuse \in BOOLEAN

\* The type invariant without the records of the commands.
LEMMA TypeParts == TypeOK <=> OtherTypes /\ cli \in [Clients -> CliRec]
  BY DEF TypeOK, OtherTypes, CliRec, StepNames

\* Every step keeps them.
LEMMA OtherStep == OtherTypes /\ [Next]_vars => OtherTypes'
<1> SUFFICES ASSUME OtherTypes, [Next]_vars PROVE OtherTypes'
  OBVIOUS
<1> USE ProcessAssumption, FaultCounts DEF OtherTypes, bounds, Touch
<1>1. ASSUME NEW e \in Engines, Listen(e) PROVE OtherTypes'
  BY <1>1 DEF Listen
<1>2. ASSUME NEW e \in Engines, RemoveOldState(e) \/ WriteEngineState(e) PROVE OtherTypes'
  BY <1>2 DEF RemoveOldState, WriteEngineState
<1>3. ASSUME NEW e \in Engines, Serve(e) \/ TimePasses(e) \/ IdleTick(e) \/ Shutdown(e)
      PROVE  OtherTypes'
  BY <1>3 DEF Serve, TimePasses, IdleTick, Shutdown
<1>4. ASSUME NEW e \in Engines, RemoveEngineState(e) PROVE OtherTypes'
  BY <1>4 DEF RemoveEngineState
<1>5. ASSUME NEW e \in Engines, BootFails(e) \/ Kill(e) PROVE OtherTypes'
  BY <1>5 DEF BootFails, Kill
<1>6. ASSUME NEW c \in Clients, Call(c) PROVE OtherTypes'
  BY <1>6 DEF Call
<1>7. ASSUME NEW c \in Clients, TryCached(c) PROVE OtherTypes'
  BY <1>7 DEF TryCached, Connected, Release
<1>8. ASSUME NEW c \in Clients, ReadEngineState(c) PROVE OtherTypes'
  BY <1>8 DEF ReadEngineState, NotHealthy
<1>9. ASSUME NEW c \in Clients, CheckHealth(c) PROVE OtherTypes'
  BY <1>9 DEF CheckHealth, Connected, Release, NotHealthy
<1>10. ASSUME NEW c \in Clients, CheckAuth(c) PROVE OtherTypes'
  BY <1>10 DEF CheckAuth, Connected, Release, NotHealthy
<1>11. ASSUME NEW c \in Clients, AcquireLock(c) PROVE OtherTypes'
  BY <1>11 DEF AcquireLock
<1>12. ASSUME NEW c \in Clients, GiveUp(c) \/ Exit(c) PROVE OtherTypes'
  BY <1>12 DEF GiveUp, Exit, Release
<1>13. ASSUME NEW c \in Clients, StartDaemon(c) PROVE OtherTypes'
  BY <1>13 DEF StartDaemon, Release
<1>14. ASSUME NEW c \in Clients, PollAgain(c) \/ StartRequest(c) PROVE OtherTypes'
  BY <1>14 DEF PollAgain, StartRequest
<1>15. ASSUME NEW c \in Clients, FinishRequest(c) PROVE OtherTypes'
  BY <1>15 DEF FinishRequest
<1>16. CASE UNCHANGED vars
  BY <1>16 DEF vars
<1> QED
  BY <1>1, <1>2, <1>3, <1>4, <1>5, <1>6, <1>7, <1>8, <1>9, <1>10, <1>11, <1>12, <1>13, <1>14,
     <1>15, <1>16 DEF Next, EngineStep, ClientStep, Finished

-----------------------------------------------------------------------------
(* One engine: who is alive, who waits for it and what engine.json names.  *)

\* A step of an engine that starts none leaves the commands' knowledge true.
LEMMA EngineKeeps ==
  ASSUME TypeOK, Shared, UNCHANGED cli, FileNamesIt',
         \A f \in Engines : (Live(f)' => Live(f)) /\ (Booting(f)' => Booting(f))
  PROVE  Shared'
<1>1. OneLive'
  BY DEF Shared, OneLive
<1>2. StarterWaits'
  BY DEF Shared, StarterWaits, WaitsFor
<1>3. SeenUnderLock' /\ NoneLeft'
  BY DEF Shared, SeenUnderLock, NoneLeft
<1> QED
  BY <1>1, <1>2, <1>3 DEF Shared

\* What a command must not forget when the engines and engine.json stay as they are.
LEMMA CommandKeeps ==
  ASSUME TypeOK, Shared, NEW c \in Clients, NEW r, Becomes(c, r), UNCHANGED <<eng, json>>,
         \A e \in Engines : Booting(e) /\ WaitsFor(c, e)
            => r.stage = 4 /\ r.child = e /\ r.step \in {"read", "health", "wait"},
         r.stage = 3 /\ r.step = "health" => \A e \in Engines : Live(e) => e = r.got,
         r.step = "spawn" /\ ~r.must => \A e \in Engines : ~Live(e)
  PROVE  Shared'
<1>1. cli'[c] = r /\ \A k \in Clients : k # c => cli'[k] = cli[k]
  BY BecomesOnly, RecordTypes
<1>2. \A e \in Engines : /\ (Live(e)' <=> Live(e)) /\ (Booting(e)' <=> Booting(e))
                         /\ (Published(e)' <=> Published(e))
  BY DEF Live, Up, Booting, Published
<1>3. OneLive' /\ FileNamesIt'
  BY <1>2 DEF Shared, OneLive, FileNamesIt
<1>4. StarterWaits'
  <2> SUFFICES ASSUME NEW e \in Engines, Booting(e)
               PROVE  \E k \in Clients : WaitsFor(k, e)'
    BY <1>2 DEF StarterWaits
  <2>1. PICK k \in Clients : WaitsFor(k, e)
    BY DEF Shared, StarterWaits
  <2> QED
    BY <1>1, <2>1 DEF WaitsFor
<1>5. SeenUnderLock'
  BY <1>1, <1>2 DEF Shared, SeenUnderLock
<1>6. NoneLeft'
  BY <1>1, <1>2 DEF Shared, NoneLeft
<1> QED
  BY <1>3, <1>4, <1>5, <1>6 DEF Shared

\* A command that looks again under the lock finds no engine on its way: the one alive
\* answers, and engine.json names it.
LEMMA UnderLock ==
  ASSUME TypeOK, LockHeld, Shared, NEW c \in Clients, cli[c].stage = 3,
         NEW e \in Engines, Live(e)
  PROVE  Answering(e) /\ json = e
<1>1. ~Booting(e)
  BY DEF Shared, StarterWaits, WaitsFor, LockHeld, Inside
<1>2. eng[e] \in {"serve", "deciding"}
  BY <1>1 DEF Live, Up, Booting, TypeOK
<1> QED
  BY <1>2 DEF Answering, Shared, FileNamesIt, Published

\* With one engine alive, a file that names it finds it at its address.
LEMMA AloneAtAddress ==
  ASSUME Shared, NEW e \in Engines, Answering(e)
  PROVE  At(e) = {e}
<1>1. \A f \in Engines : Answering(f) => f = e
  BY DEF Shared, OneLive, Live, Up, Answering
<1> QED
  BY <1>1 DEF At

\* Who answers does not boot.
LEMMA AnswersNotBoots ==
  ASSUME Shared, NEW e \in Engines, At(e) = {e}, NEW f \in Engines
  PROVE  ~Booting(f)
<1>1. Answering(e)
  BY DEF At
<1> QED
  BY <1>1 DEF Shared, OneLive, Live, Up, Booting, Answering

\* The steps of an engine.
LEMMA EngineShared ==
  ASSUME TypeOK, ~excuse => Shared, NEW e \in Engines, EngineStep(e) \/ BootFails(e) \/ Kill(e)
  PROVE  ~excuse' => Shared'
<1> SUFFICES ASSUME ~excuse' PROVE Shared'
  OBVIOUS
<1> USE ProcessAssumption DEF TypeOK
<1>0. ~excuse /\ cli' = cli
  BY DEF EngineStep, Listen, RemoveOldState, WriteEngineState, Serve, TimePasses,
     IdleTick, Shutdown, RemoveEngineState, BootFails, Kill
<1>1. Shared
  BY <1>0
<1>2. \A f \in Engines : Published(f) => json = f
  BY <1>1 DEF Shared, FileNamesIt
<1>3. \A f \in Engines : Live(f) /\ Live(e) => f = e
  BY <1>1 DEF Shared, OneLive
<1>4. CASE Listen(e)
  <2>1. FileNamesIt'
    BY <1>2, <1>4 DEF Listen, FileNamesIt, Published
  <2>2. \A f \in Engines : (Live(f)' => Live(f)) /\ (Booting(f)' => Booting(f))
    BY <1>4 DEF Listen, Live, Up, Booting
  <2> QED
    BY <1>0, <1>1, <2>1, <2>2, EngineKeeps
<1>5. CASE RemoveOldState(e)
  <2>1. FileNamesIt'
    BY <1>3, <1>5 DEF RemoveOldState, FileNamesIt, Published, Live, Up
  <2>2. \A f \in Engines : (Live(f)' => Live(f)) /\ (Booting(f)' => Booting(f))
    BY <1>5 DEF RemoveOldState, Live, Up, Booting
  <2> QED
    BY <1>0, <1>1, <2>1, <2>2, EngineKeeps
<1>6. CASE WriteEngineState(e)
  <2>1. FileNamesIt'
    BY <1>3, <1>6 DEF WriteEngineState, FileNamesIt, Published, Live, Up
  <2>2. \A f \in Engines : (Live(f)' => Live(f)) /\ (Booting(f)' => Booting(f))
    BY <1>6 DEF WriteEngineState, Live, Up, Booting
  <2> QED
    BY <1>0, <1>1, <2>1, <2>2, EngineKeeps
<1>7. CASE RemoveEngineState(e)
  <2>1. FileNamesIt'
    <3>1. eng' = [eng EXCEPT ![e] = "dead"] /\ eng[e] = "closing" /\ json \in {e, None}
      BY <1>7 DEF RemoveEngineState
    <3>2. \A f \in Engines : ~Published(f)
      BY <1>2, <3>1 DEF Published
    <3> QED
      BY <3>1, <3>2 DEF FileNamesIt, Published
  <2>2. \A f \in Engines : (Live(f)' => Live(f)) /\ (Booting(f)' => Booting(f))
    BY <1>7 DEF RemoveEngineState, Live, Up, Booting
  <2> QED
    BY <1>0, <1>1, <2>1, <2>2, EngineKeeps
<1>8. CASE Serve(e) \/ TimePasses(e) \/ IdleTick(e) \/ Shutdown(e) \/ BootFails(e) \/ Kill(e)
  <2>1. json' = json
    BY <1>8 DEF Serve, TimePasses, IdleTick, Shutdown, BootFails, Kill
  <2>2. \A f \in Engines : Published(f)' => Published(f)
    BY <1>8 DEF Serve, TimePasses, IdleTick, Shutdown, BootFails, Kill, Published, Listening
  <2>3. FileNamesIt'
    BY <1>2, <2>1, <2>2 DEF FileNamesIt
  <2>4. \A f \in Engines : (Live(f)' => Live(f)) /\ (Booting(f)' => Booting(f))
    BY <1>8 DEF Serve, TimePasses, IdleTick, Shutdown, BootFails, Kill, Live, Up, Booting,
       Listening
  <2> QED
    BY <1>0, <1>1, <2>3, <2>4, EngineKeeps
<1> QED
  BY <1>4, <1>5, <1>6, <1>7, <1>8 DEF EngineStep

\* The steps of a command that starts no engine.
LEMMA CommandShared ==
  ASSUME TypeOK, Frame, ~excuse => Shared, NEW c \in Clients,
         Call(c) \/ (ClientStep(c) /\ ~StartDaemon(c))
  PROVE  ~excuse' => Shared'
<1> SUFFICES ASSUME ~excuse' PROVE Shared'
  OBVIOUS
<1>0. ~excuse /\ eng' = eng /\ json' = json
  BY DEF TypeOK, Call, ClientStep, TryCached, ReadEngineState, CheckHealth, CheckAuth, AcquireLock,
     GiveUp, PollAgain, StartRequest, FinishRequest, Exit, bounds
<1>1. Shared /\ LockHeld /\ Staged
  BY <1>0 DEF Frame
<1>2. \A e \in Engines : WaitsFor(c, e) => cli[c].step \in {"read", "health", "wait"}
                                           /\ cli[c].stage = 4 /\ cli[c].child = e
  BY DEF WaitsFor
<1>3. ASSUME cli[c].step \notin {"read", "health", "wait"}, NEW r \in CliRec, Becomes(c, r),
             ~(r.stage = 3 /\ r.step = "health"), r.step = "spawn" => r.must
      PROVE  Shared'
  BY <1>0, <1>1, <1>2, <1>3, CommandKeeps
<1>4. ASSUME NEW e \in Engines, Connected(c, e), At(e) = {e} PROVE Shared'
  <2>1. PICK r \in CliRec : Becomes(c, r) /\ r.step = "connected" /\ r.stage = 0
    BY <1>4, ConnectedMove
  <2>2. \A f \in Engines : ~Booting(f)
    BY <1>1, <1>4, AnswersNotBoots
  <2> QED
    BY <1>0, <1>1, <2>1, <2>2, CommandKeeps
<1>5. ASSUME NEW a \in BOOLEAN, NotHealthy(c, a), cli[c].step \in Looking,
             cli[c].stage = 3 /\ ~a => \A e \in Engines : ~Live(e)
      PROVE  Shared'
  <2>1. cli[c].stage # 0
    BY <1>1, <1>5 DEF Staged, Looking
  <2>2. PICK r \in CliRec :
              /\ Becomes(c, r) /\ r.child = cli[c].child
              /\ \/ cli[c].stage = 1 /\ r.step = "read" /\ r.stage = 2
                 \/ cli[c].stage = 2 /\ r.step = "lock" /\ r.stage = 2
                 \/ cli[c].stage = 3 /\ r.step = "spawn" /\ r.stage = 3 /\ r.must = a
                 \/ cli[c].stage = 4 /\ r.step = "wait" /\ r.stage = 4
    BY <1>5, <2>1, NotHealthyMove
  <2>3. r.step = "spawn" /\ ~r.must => \A e \in Engines : ~Live(e)
    BY <1>5, <2>2
  <2>4. ~(r.stage = 3 /\ r.step = "health")
    BY <2>2
  <2>5. \A e \in Engines : WaitsFor(c, e)
           => r.stage = 4 /\ r.child = e /\ r.step \in {"read", "health", "wait"}
    BY <1>2, <2>2
  <2> QED
    BY <1>0, <1>1, <2>2, <2>3, <2>4, <2>5, CommandKeeps
<1>6. CASE Call(c)
  <2>1. cli[c].step \notin {"read", "health", "wait"}
    BY <1>6 DEF Call
  <2> QED
    BY <1>3, <1>6, <2>1, CallMove
<1>7. CASE TryCached(c)
  <2>1. cli[c].step = "cached"
    BY <1>7 DEF TryCached
  <2>2. CASE At(cli[c].cache) = {cli[c].cache}
    <3>1. cli[c].cache \in Engines
      BY <2>2 DEF At
    <3> QED
      BY <1>4, <1>7, <2>2, <3>1 DEF TryCached
  <2>3. CASE At(cli[c].cache) # {cli[c].cache}
    <3>1. Set(c, [cli[c] EXCEPT !.step = "read"]) /\ "read" \in StepNames
      BY <1>7, <2>3, StepNamed DEF TryCached
    <3>2. PICK r \in CliRec : Becomes(c, r) /\ r.step = "read"
      BY <3>1, LabelMove
    <3> QED
      BY <1>3, <2>1, <3>2
  <2> QED
    BY <2>2, <2>3
<1>8. CASE ReadEngineState(c)
  <2>1. cli[c].step = "read" /\ cli[c].step \in Looking
    BY <1>8 DEF ReadEngineState, Looking
  <2>2. CASE json = None
    <3>1. NotHealthy(c, FALSE)
      BY <1>8, <2>2 DEF ReadEngineState
    <3>2. cli[c].stage = 3 => \A e \in Engines : ~Live(e)
      BY <1>1, <2>2, UnderLock, ProcessAssumption
    <3> QED
      BY <1>5, <2>1, <3>1, <3>2
  <2>3. CASE json # None
    <3>1. PICK r \in CliRec : /\ Becomes(c, r) /\ r.step = "health" /\ r.got = json
                              /\ r.stage = cli[c].stage /\ r.child = cli[c].child
      BY <1>8, <2>3, ReadMove
    <3>2. cli[c].stage = 3 => \A e \in Engines : Live(e) => e = json
      BY <1>1, UnderLock
    <3>3. \A e \in Engines : WaitsFor(c, e)
             => r.stage = 4 /\ r.child = e /\ r.step \in {"read", "health", "wait"}
      BY <1>2, <3>1
    <3> QED
      BY <1>0, <1>1, <3>1, <3>2, <3>3, CommandKeeps
  <2> QED
    BY <2>2, <2>3
<1>9. CASE CheckHealth(c)
  <2>1. cli[c].step = "health" /\ cli[c].step \in Looking
    BY <1>9 DEF CheckHealth, Looking
  <2>2. CASE SameInstance(cli[c].got) /\ cli[c].stage = 4 /\ Connected(c, cli[c].got)
    <3>1. cli[c].got \in Engines /\ At(cli[c].got) = {cli[c].got}
      BY <2>2 DEF SameInstance, At
    <3> QED
      BY <1>4, <2>2, <3>1
  <2>3. CASE cli[c].stage # 4 /\ Set(c, [cli[c] EXCEPT !.step = "auth"])
    <3>0. "auth" \in StepNames
      BY StepNamed
    <3>1. PICK r \in CliRec : Becomes(c, r) /\ r.step = "auth"
      BY <2>3, <3>0, LabelMove
    <3>2. \A e \in Engines : ~WaitsFor(c, e)
      BY <2>3 DEF WaitsFor
    <3> QED
      BY <1>0, <1>1, <3>1, <3>2, CommandKeeps
  <2>4. CASE ~SameInstance(cli[c].got) /\ NotHealthy(c, FALSE)
    <3>1. ASSUME cli[c].stage = 3, NEW e \in Engines, Live(e) PROVE FALSE
      <4>1. e = cli[c].got
        BY <1>1, <2>1, <3>1 DEF Shared, SeenUnderLock
      <4>2. Answering(e)
        BY <1>1, <3>1, UnderLock
      <4>3. At(e) = {e}
        BY <1>1, <4>2, AloneAtAddress
      <4> QED
        BY <2>4, <4>1, <4>3 DEF SameInstance
    <3> QED
      BY <1>5, <2>1, <2>4, <3>1
  <2> QED
    BY <1>9, <2>2, <2>3, <2>4 DEF CheckHealth
<1>10. CASE CheckAuth(c)
  <2>1. cli[c].step = "auth" /\ cli[c].step \in Looking
    BY <1>10 DEF CheckAuth, Looking
  <2>2. CASE NotHealthy(c, TRUE)
    BY <1>5, <2>1, <2>2
  <2>3. ASSUME NEW e, At(e) = {e}, Connected(c, e) PROVE Shared'
    <3>1. e \in Engines
      BY <2>3 DEF At
    <3> QED
      BY <1>4, <2>3, <3>1
  <2> QED
    BY <1>10, <2>2, <2>3 DEF CheckAuth
<1>11. CASE AcquireLock(c)
  <2>1. cli[c].step \notin {"read", "health", "wait"}
    BY <1>11 DEF AcquireLock
  <2> QED
    BY <1>3, <1>11, <2>1, LockMove
<1>12. CASE GiveUp(c)
  <2>1. PICK r \in CliRec : Becomes(c, r) /\ r.step = "failed"
    BY <1>12, EndMove, StepNamed DEF GiveUp
  <2>2. \A e \in Engines : ~(Booting(e) /\ WaitsFor(c, e))
    BY <1>12 DEF GiveUp, WaitsFor, Booting, Up
  <2> QED
    BY <1>0, <1>1, <2>1, <2>2, CommandKeeps
<1>13. CASE Exit(c)
  <2>1. PICK r \in CliRec : Becomes(c, r) /\ r.step = "gone"
    BY <1>13, EndMove, StepNamed DEF Exit
  <2>2. \A e \in Engines : ~WaitsFor(c, e)
    BY <1>1, <1>13 DEF Exit, WaitsFor, LockHeld, Inside
  <2> QED
    BY <1>0, <1>1, <2>1, <2>2, CommandKeeps
<1>14. CASE PollAgain(c)
  <2>1. PICK r \in CliRec : /\ Becomes(c, r) /\ r.step = "read" /\ r.stage = cli[c].stage
                            /\ r.child = cli[c].child
    <3>1. Set(c, [cli[c] EXCEPT !.step = "read"]) /\ "read" \in StepNames
      BY <1>14, StepNamed DEF PollAgain
    <3> QED
      BY <3>1, LabelMove
  <2>2. \A e \in Engines : WaitsFor(c, e)
           => r.stage = 4 /\ r.child = e /\ r.step \in {"read", "health", "wait"}
    BY <1>2, <2>1
  <2> QED
    BY <1>0, <1>1, <2>1, <2>2, CommandKeeps
<1>15. CASE StartRequest(c)
  <2>1. cli[c].step = "connected"
    BY <1>15 DEF StartRequest
  <2>2. CASE Set(c, [cli[c] EXCEPT !.step = "request"])
    <3>0. "request" \in StepNames
      BY StepNamed
    <3>1. PICK r \in CliRec : Becomes(c, r) /\ r.step = "request"
      BY <2>2, <3>0, LabelMove
    <3> QED
      BY <1>3, <2>1, <3>1
  <2>3. CASE Set(c, [Idle EXCEPT !.step = "failed"])
    <3>1. PICK r \in CliRec : Becomes(c, r) /\ r.step = "failed"
      BY <2>3, EndMove, StepNamed
    <3> QED
      BY <1>3, <2>1, <3>1
  <2> QED
    BY <1>15, <2>2, <2>3 DEF StartRequest
<1>16. CASE FinishRequest(c)
  <2>1. cli[c].step = "request"
    BY <1>16 DEF FinishRequest
  <2> QED
    BY <1>3, <1>16, <2>1, FinishMove
<1> QED
  BY <1>6, <1>7, <1>8, <1>9, <1>10, <1>11, <1>12, <1>13, <1>14, <1>15, <1>16 DEF ClientStep

\* A command starts an engine when there is none, unless an auth probe sent it there.
LEMMA StartShared ==
  ASSUME TypeOK, Frame, ~excuse => Shared, NEW c \in Clients, StartDaemon(c)
  PROVE  ~excuse' => Shared'
<1> SUFFICES ASSUME ~excuse' PROVE Shared'
  OBVIOUS
<1>0. ~excuse /\ cli[c].step = "spawn" /\ json' = json
  <2>1. excuse => excuse'
    BY Zenon DEF StartDaemon
  <2> QED
    BY <2>1 DEF StartDaemon
<1>1. Shared /\ LockHeld /\ lock = c
  BY <1>0 DEF Frame, LockHeld, Inside
<1>2. ASSUME NEW e \in Engines, eng[e] = "off", eng' = [eng EXCEPT ![e] = "start"],
             Set(c, [cli[c] EXCEPT !.step = "read", !.stage = 4, !.child = e]), ~cli[c].must
      PROVE  Shared'
  <2>1. PICK r \in CliRec : Becomes(c, r) /\ r.step = "read" /\ r.stage = 4 /\ r.child = e
    BY <1>2, SpawnMove
  <2>2. cli'[c] = r /\ \A k \in Clients : k # c => cli'[k] = cli[k]
    BY <2>1, BecomesOnly, RecordTypes
  <2>3. \A f \in Engines : ~Live(f)
    BY <1>0, <1>1, <1>2 DEF Shared, NoneLeft
  <2>4. \A f \in Engines : (f # e => ~Live(f)' /\ ~Booting(f)' /\ ~Published(f)') /\ ~Published(e)'
    BY <1>2, <2>3 DEF TypeOK, Live, Up, Booting, Published
  <2>5. \A k \in Clients : k # c => ~Inside(k)
    BY <1>1 DEF LockHeld
  <2>6. OneLive' /\ FileNamesIt'
    BY <2>4 DEF OneLive, FileNamesIt
  <2>7. StarterWaits'
    BY <2>1, <2>2, <2>4 DEF StarterWaits, WaitsFor
  <2>8. SeenUnderLock' /\ NoneLeft'
    BY <2>1, <2>2, <2>5 DEF SeenUnderLock, NoneLeft, Inside
  <2> QED
    BY <2>6, <2>7, <2>8 DEF Shared
<1>3. CASE eng' = eng /\ Set(c, [Idle EXCEPT !.step = "failed"])
  <2>1. PICK r \in CliRec : Becomes(c, r) /\ r.step = "failed"
    BY <1>3, EndMove, StepNamed
  <2>2. \A e \in Engines : ~WaitsFor(c, e)
    BY <1>0 DEF WaitsFor
  <2> QED
    BY <1>0, <1>1, <1>3, <2>1, <2>2, CommandKeeps
<1> QED
  BY <1>2, <1>3 DEF StartDaemon

-----------------------------------------------------------------------------
(* The invariant and the theorems.                                         *)

\* Nothing has been started yet.
LEMMA InvInit == Init => IInv
<1> SUFFICES ASSUME Init PROVE IInv
  OBVIOUS
<1>1. OtherTypes
  <2>1. (CHOOSE p \in Ports : TRUE) \in Ports
    BY ProcessAssumption
  <2>2. port \in [Engines -> Ports]
    BY <2>1 DEF Init
  <2>3. calls \in 0..MaxCalls /\ faults \in 0..MaxFaults
    BY ProcessAssumption DEF Init
  <2> QED
    BY <2>2, <2>3 DEF Init, OtherTypes
<1>2. cli \in [Clients -> CliRec] /\ \A c \in Clients : cli[c] = Idle
  BY IdleRecord DEF Init
<1>3. Staged /\ LockHeld
  BY <1>2 DEF Staged, LockHeld, Inside, Idle
<1>4. \A e \in Engines : ~Live(e) /\ ~Booting(e) /\ ~Published(e)
  BY DEF Init, Live, Up, Booting, Published
<1>5. Shared
  BY <1>4 DEF Shared, OneLive, StarterWaits, FileNamesIt, SeenUnderLock, NoneLeft
<1> QED
  BY <1>1, <1>2, <1>3, <1>5, TypeParts DEF IInv

\* Every step keeps it.
LEMMA Inductive == IInv /\ [Next]_vars => IInv'
<1> SUFFICES ASSUME IInv, [Next]_vars PROVE IInv'
  OBVIOUS
<1>1. TypeOK /\ Frame /\ (~excuse => Shared) /\ OtherTypes
  BY TypeParts DEF IInv, Frame
<1>2. Frame' /\ OtherTypes'
  BY <1>1, FrameStep, OtherStep
<1>3. TypeOK' /\ Staged' /\ LockHeld'
  BY <1>2, TypeParts DEF Frame, TypeOK, OtherTypes, CliRec, StepNames
<1>4. ~excuse' => Shared'
  <2>1. CASE UNCHANGED vars
    <3>1. UNCHANGED <<eng, json, cli, excuse>>
      BY <2>1 DEF vars
    <3> QED
      BY <1>1, <3>1 DEF Shared, OneLive, StarterWaits, FileNamesIt, SeenUnderLock, NoneLeft, Live,
         Up, Booting, Published, WaitsFor
  <2> QED
    BY <1>1, <2>1, EngineShared, CommandShared, StartShared DEF Next, Finished, ClientStep
<1> QED
  BY <1>3, <1>4 DEF IInv

\* Engines, engine.json, the lock and the commands keep their types.
THEOREM EngineTypes == Spec => []TypeOK
<1>1. IInv => TypeOK
  BY DEF IInv
<1> QED
  BY <1>1, InvInit, Inductive, PTL DEF Spec

\* A set without two different elements has at most one.
LEMMA AtMostOne ==
  ASSUME NEW S, \A x, y \in S : x = y
  PROVE  Cardinality(S) <= 1
<1>1. CASE S = {}
  BY <1>1, FS_EmptySet
<1>2. CASE S # {}
  <2>1. PICK x \in S : TRUE
    BY <1>2
  <2>2. S = {x}
    BY <2>1
  <2> QED
    BY <2>2, FS_Singleton
<1> QED
  BY <1>1, <1>2

\* SingleEngine: however many commands look for an engine at once, on whatever ports, at most one is
\* alive, unless one of the events came before that the code does not guard against.
THEOREM OneEngine == Spec => []SingleEngine
<1>1. IInv => SingleEngine
  <2> SUFFICES ASSUME IInv, ~excuse
               PROVE  Cardinality({e \in Engines : Up(e) /\ eng[e] # "closing"}) <= 1
    BY DEF SingleEngine
  <2>1. \A e, f \in {g \in Engines : Up(g) /\ eng[g] # "closing"} : e = f
    BY DEF IInv, Shared, OneLive, Live
  <2> QED
    BY <2>1, AtMostOne
<1> QED
  BY <1>1, InvInit, Inductive, PTL DEF Spec

\* A step that leaves the other commands alone and does not connect this one.
LEMMA NoConnect ==
  ASSUME TypeOK, NEW c \in Clients, NEW r, Becomes(c, r), r.step # "connected"
  PROVE  RightAnswer
<1>1. cli'[c] = r /\ \A k \in Clients : k # c => cli'[k] = cli[k]
  BY BecomesOnly, RecordTypes
<1> QED
  BY <1>1 DEF RightAnswer

\* A step that connects this one to an engine that is alone at its address.
LEMMA ConnectAnswers ==
  ASSUME TypeOK, NEW c \in Clients, NEW e, Connected(c, e), At(e) = {e}
  PROVE  RightAnswer
<1>1. e \in Engines
  BY DEF At
<1>2. PICK r \in CliRec : Becomes(c, r) /\ r.got = e
  BY <1>1, ConnectedMove
<1>3. cli'[c] = r /\ \A k \in Clients : k # c => cli'[k] = cli[k]
  BY <1>2, BecomesOnly, RecordTypes
<1> QED
  BY <1>2, <1>3 DEF RightAnswer

\* Every step that connects a command has just seen its engine at its address.
LEMMA StepAnswers == IInv /\ [Next]_vars => [RightAnswer]_vars
<1> SUFFICES ASSUME IInv, Next PROVE RightAnswer \/ UNCHANGED vars
  OBVIOUS
<1>0. TypeOK /\ Staged
  BY DEF IInv
<1>1. ASSUME UNCHANGED cli PROVE RightAnswer
  BY <1>1 DEF RightAnswer
<1>2. ASSUME NEW e \in Engines, EngineStep(e) \/ BootFails(e) \/ Kill(e) PROVE RightAnswer
  BY <1>1, <1>2 DEF EngineStep, Listen, RemoveOldState, WriteEngineState, Serve, TimePasses,
     IdleTick, Shutdown, RemoveEngineState, BootFails, Kill
<1>3. ASSUME NEW c \in Clients, NEW a \in BOOLEAN, cli[c].step \in Looking, NotHealthy(c, a)
      PROVE  RightAnswer
  <2>1. cli[c].stage # 0
    BY <1>0, <1>3 DEF Staged, Looking
  <2>2. PICK r \in CliRec : Becomes(c, r) /\ r.step \in {"read", "lock", "spawn", "wait"}
    BY <1>0, <1>3, <2>1, NotHealthyMove
  <2> QED
    BY <1>0, <2>2, NoConnect
<1>4. ASSUME NEW c \in Clients, NEW s \in StepNames \ {"connected"}, Set(c, [cli[c] EXCEPT !.step = s])
      PROVE  RightAnswer
  BY <1>0, <1>4, LabelMove, NoConnect
<1>5. ASSUME NEW c \in Clients, NEW s \in StepNames \ {"connected"}, Set(c, [Idle EXCEPT !.step = s])
      PROVE  RightAnswer
  BY <1>0, <1>5, EndMove, NoConnect
<1>6. {"read", "auth", "request", "failed", "gone"} \subseteq StepNames \ {"connected"}
  BY StepNamed
<1>7. ASSUME NEW c \in Clients, Call(c) PROVE RightAnswer
  BY <1>0, <1>7, CallMove, NoConnect
<1>8. ASSUME NEW c \in Clients, TryCached(c) PROVE RightAnswer
  <2>1. CASE At(cli[c].cache) = {cli[c].cache}
    BY <1>0, <1>8, <2>1, ConnectAnswers DEF TryCached
  <2>2. CASE Set(c, [cli[c] EXCEPT !.step = "read"])
    BY <1>4, <1>6, <2>2
  <2> QED
    BY <1>8, <2>1, <2>2 DEF TryCached
<1>9. ASSUME NEW c \in Clients, ReadEngineState(c) PROVE RightAnswer
  <2>1. CASE json = None
    BY <1>3, <1>9, <2>1 DEF ReadEngineState, Looking
  <2>2. CASE json # None
    <3>1. PICK r \in CliRec : Becomes(c, r) /\ r.step = "health"
      BY <1>0, <1>9, <2>2, ReadMove
    <3> QED
      BY <1>0, <3>1, NoConnect
  <2> QED
    BY <2>1, <2>2
<1>10. ASSUME NEW c \in Clients, CheckHealth(c) PROVE RightAnswer
  <2>1. CASE SameInstance(cli[c].got) /\ Connected(c, cli[c].got)
    BY <1>0, <2>1, ConnectAnswers DEF SameInstance
  <2>2. CASE Set(c, [cli[c] EXCEPT !.step = "auth"])
    BY <1>4, <1>6, <2>2
  <2>3. CASE NotHealthy(c, FALSE)
    BY <1>3, <1>10, <2>3 DEF CheckHealth, Looking
  <2> QED
    BY <1>10, <2>1, <2>2, <2>3 DEF CheckHealth
<1>11. ASSUME NEW c \in Clients, CheckAuth(c) PROVE RightAnswer
  <2>1. CASE NotHealthy(c, TRUE)
    BY <1>3, <1>11, <2>1 DEF CheckAuth, Looking
  <2>2. ASSUME NEW e, At(e) = {e}, Connected(c, e) PROVE RightAnswer
    BY <1>0, <2>2, ConnectAnswers
  <2> QED
    BY <1>11, <2>1, <2>2 DEF CheckAuth
<1>12. ASSUME NEW c \in Clients, AcquireLock(c) PROVE RightAnswer
  <2>1. PICK r \in CliRec : Becomes(c, r) /\ r.step \in {"spawn", "read"}
    BY <1>0, <1>12, LockMove
  <2> QED
    BY <1>0, <2>1, NoConnect
<1>13. ASSUME NEW c \in Clients, GiveUp(c) \/ Exit(c) PROVE RightAnswer
  <2>1. \E s \in {"failed", "gone"} : Set(c, [Idle EXCEPT !.step = s])
    BY <1>13 DEF GiveUp, Exit
  <2> QED
    BY <1>5, <1>6, <2>1
<1>14. ASSUME NEW c \in Clients, StartDaemon(c) PROVE RightAnswer
  <2>1. ASSUME NEW e \in Engines,
               Set(c, [cli[c] EXCEPT !.step = "read", !.stage = 4, !.child = e])
        PROVE  RightAnswer
    <3>1. PICK r \in CliRec : Becomes(c, r) /\ r.step = "read"
      BY <1>0, <2>1, SpawnMove
    <3> QED
      BY <1>0, <3>1, NoConnect
  <2>2. CASE Set(c, [Idle EXCEPT !.step = "failed"])
    BY <1>5, <1>6, <2>2
  <2> QED
    BY <1>14, <2>1, <2>2 DEF StartDaemon
<1>15. ASSUME NEW c \in Clients, PollAgain(c) \/ StartRequest(c) PROVE RightAnswer
  <2>1. CASE \E s \in {"read", "request"} : Set(c, [cli[c] EXCEPT !.step = s])
    BY <1>4, <1>6, <2>1
  <2>2. CASE Set(c, [Idle EXCEPT !.step = "failed"])
    BY <1>5, <1>6, <2>2
  <2> QED
    BY <1>15, <2>1, <2>2 DEF PollAgain, StartRequest
<1>16. ASSUME NEW c \in Clients, FinishRequest(c) PROVE RightAnswer
  BY <1>0, <1>16, FinishMove, NoConnect
<1> QED
  BY <1>2, <1>7, <1>8, <1>9, <1>10, <1>11, <1>12, <1>13, <1>14, <1>15, <1>16
     DEF Next, ClientStep, Finished

\* ConnectsToItself: whatever ports are used again and whatever engine.json is stale, ConnectOrStart
\* hands out the engine that answers at its address, and no other.
THEOREM ConnectedRight == Spec => ConnectsToItself
<1> QED
  BY StepAnswers, InvInit, Inductive, PTL DEF Spec, ConnectsToItself

-----------------------------------------------------------------------------
(* SourceSync.                                                             *)

\* No edit, no lost blob and no failure so far.
Quiet == r12 = 0 /\ r13 = 0 /\ r14 = 0

\* Every version of a file has a content.
LEMMA ContentsOfFiles == \A f \in SourceFiles : \A v \in Versions : ContentOf[f][v] \in Sync!Contents
  BY DEF Sync!Contents

\* What the server needs are files of the workspace.
LEMMA ReadsFiles ==
  ASSUME Sync!TypeOK, Sync!BlobsFaithful, NEW S \in SUBSET SourceFiles
  PROVE  Sync!Reads(S) \in SUBSET SourceFiles
<1>1. ASSUME NEW f \in Sync!Readable(S) PROVE Includes[r11[r10.files[f]]] \subseteq SourceFiles
  <2>1. f \in SourceFiles /\ r10.files[f] \in Sync!Contents
    BY DEF Sync!Readable, Sync!TypeOK
  <2>2. r11[r10.files[f]] \in Sync!Contents
    BY <2>1 DEF Sync!Readable, Sync!BlobsFaithful
  <2> QED
    BY <2>2, SyncAssumption
<1>2. UNION r10.dirs \subseteq SourceFiles
  BY SyncAssumption DEF Sync!TypeOK
<1>3. UNION {Includes[r11[r10.files[f]]] : f \in Sync!Readable(S)} \subseteq SourceFiles
  BY <1>1
<1>4. CASE Sync!ListsDir(S)
  BY <1>2, <1>3, <1>4 DEF Sync!Reads
<1>5. CASE ~Sync!ListsDir(S)
  BY <1>3, <1>5 DEF Sync!Reads
<1> QED
  BY <1>4, <1>5

\* What a job needs are files of the workspace.
LEMMA NeededFiles ==
  ASSUME Sync!TypeOK, Sync!BlobsFaithful
  PROVE  Sync!Needed \in SUBSET SourceFiles
<1>1. {Root} \in SUBSET SourceFiles
  BY SyncAssumption
<1>2. Sync!Reads({Root}) \in SUBSET SourceFiles
  BY <1>1, ReadsFiles
<1>3. Sync!Reads(Sync!Reads({Root})) \in SUBSET SourceFiles
  BY <1>2, ReadsFiles
<1> QED
  BY <1>3, ReadsFiles DEF Sync!Needed

\* What a refusal asks for.
LEMMA LacksTyped ==
  ASSUME Sync!TypeOK, Sync!BlobsFaithful
  PROVE  /\ Sync!Lacks \in [entries : SUBSET SourceFiles, dir : BOOLEAN, blobs : SUBSET (SourceFiles \X Sync!Contents)]
         /\ \A f \in Sync!Lacks.entries : r10.files[f] = Sync!None
         /\ Sync!Lacks.dir => r10.dirs = {}
         /\ \A b \in Sync!Lacks.blobs : /\ b[1] \in SourceFiles /\ b[2] = r10.files[b[1]] /\ b[2] \in Sync!Contents
                                        /\ b[2] # Sync!None /\ r11[b[2]] = Sync!None
<1>1. Sync!Needed \in SUBSET SourceFiles
  BY NeededFiles
<1>2. \A f \in SourceFiles : r10.files[f] \in Sync!Contents \cup {Sync!None}
  BY DEF Sync!TypeOK
<1>3. Sync!ListsDir(Sync!Needed) \in BOOLEAN
  BY DEF Sync!ListsDir
<1>4. /\ Sync!Lacks.entries = {f \in Sync!Needed : r10.files[f] = Sync!None}
      /\ Sync!Lacks.dir = (Sync!ListsDir(Sync!Needed) /\ r10.dirs = {})
      /\ Sync!Lacks.blobs = {<<f, r10.files[f]>> : f \in {g \in Sync!Needed :
                                r10.files[g] # Sync!None /\ r11[r10.files[g]] = Sync!None}}
      /\ Sync!Lacks = [entries |-> Sync!Lacks.entries, dir |-> Sync!Lacks.dir, blobs |-> Sync!Lacks.blobs]
  BY DEF Sync!Lacks
<1>5. Sync!Lacks.entries \in SUBSET SourceFiles /\ \A f \in Sync!Lacks.entries : r10.files[f] = Sync!None
  BY <1>1, <1>4
<1>6. Sync!Lacks.dir \in BOOLEAN /\ (Sync!Lacks.dir => r10.dirs = {})
  BY <1>3, <1>4
<1>7. ASSUME NEW b \in Sync!Lacks.blobs
      PROVE  /\ b \in SourceFiles \X Sync!Contents
             /\ b[1] \in SourceFiles /\ b[2] = r10.files[b[1]] /\ b[2] \in Sync!Contents
             /\ b[2] # Sync!None /\ r11[b[2]] = Sync!None
  <2>1. PICK f \in Sync!Needed : b = <<f, r10.files[f]>> /\ r10.files[f] # Sync!None /\ r11[r10.files[f]] = Sync!None
    BY <1>4
  <2>2. f \in SourceFiles /\ r10.files[f] \in Sync!Contents
    BY <1>1, <1>2, <2>1
  <2> QED
    BY <2>1, <2>2
<1> QED
  BY <1>4, <1>5, <1>6, <1>7

\* The answer depends on the request and the blobs of the server only.
LEMMA LacksFrame == ASSUME r10' = r10, r11' = r11 PROVE Sync!Lacks' = Sync!Lacks
  BY DEF Sync!Lacks, Sync!Needed, Sync!Reads, Sync!ListsDir, Sync!Readable

\* Every step of a sync keeps the types.
LEMMA SyncTypeStep == Sync!IInv /\ [Sync!Next]_(Sync!vars) => Sync!TypeOK'
<1> SUFFICES ASSUME Sync!IInv, [Sync!Next]_(Sync!vars) PROVE Sync!TypeOK'
  OBVIOUS
<1> DEFINE Asks == [entries : SUBSET SourceFiles, dir : BOOLEAN, blobs : SUBSET (SourceFiles \X Sync!Contents)]
           Manifests == [files : [SourceFiles -> Sync!Contents \cup {Sync!None}], dirs : SUBSET SUBSET DirFiles]
<1>a. /\ r1 \in [SourceFiles -> Versions \cup {0}] /\ r2 \in [SourceFiles -> Sync!Contents \cup {Sync!None}]
      /\ r3 \in SUBSET SUBSET DirFiles /\ r4 \in SUBSET Sync!Contents
      /\ r5 \in BOOLEAN /\ r6 \in 1..(MaxRounds + 2)
      /\ r7 \in {"send", "answer", "apply", "done", "failed"}
      /\ r8 \in {Sync!None, "request", "rounds", "progress", "read", "changed", "upload"}
      /\ r9 \in Asks /\ r10 \in Manifests /\ r11 \in [Sync!Contents -> Sync!Contents \cup {Sync!None}]
      /\ r12 \in 0..MaxEdits /\ r13 \in 0..MaxLosses /\ r14 \in 0..MaxFaults
      /\ MaxEdits \in Nat /\ MaxLosses \in Nat /\ MaxFaults \in Nat /\ MaxRounds \in Nat
  BY SyncAssumption, ProcessAssumption DEF Sync!IInv, Sync!TypeOK
<1>b. \A f \in SourceFiles : r1[f] # 0 => Sync!Content(f) \in Sync!Contents
  BY <1>a, ContentsOfFiles DEF Sync!Content
<1>c. Sync!Lacks \in Asks
  BY LacksTyped DEF Sync!IInv
<1>1. CASE Sync!Send
  <2>1. Sync!Manifest \in Manifests
    BY <1>a DEF Sync!Manifest
  <2> HIDE DEF Asks, Manifests
  <2>2. /\ UNCHANGED <<r1, r2, r3, r4, r5, r6, r8, r9, r11, r12, r13, r14>>
        /\ r7' = "answer" /\ r10' \in Manifests
    BY <1>1, <2>1 DEF Sync!Send
  <2> QED
    BY <1>a, <2>2 DEF Sync!TypeOK, Asks, Manifests
<1>2. CASE Sync!Answer
  <2> HIDE DEF Asks, Manifests
  <2>2. /\ UNCHANGED <<r1, r2, r3, r4, r6, r10, r11, r12, r13>> /\ r14' \in 0..MaxFaults
        /\ r7' \in {"done", "failed", "apply"}
        /\ r8' \in {r8, "rounds", "request"} /\ r9' \in Asks /\ r5' \in BOOLEAN
    <3>1. CASE r14 < MaxFaults /\ r14' = r14 + 1 /\ r7' = "failed" /\ r8' = "request" /\ UNCHANGED <<r9, r5>>
      BY <1>2, <3>1, <1>a DEF Sync!Answer
    <3>2. CASE UNCHANGED r14 /\ Sync!Answered
      BY <1>2, <3>2, <1>a, <1>c DEF Sync!Answer, Sync!Answered
    <3> QED
      BY <1>2, <3>1, <3>2 DEF Sync!Answer
  <2> QED
    BY <1>a, <2>2 DEF Sync!TypeOK, Asks, Manifests
<1>3. CASE Sync!AddDirectoryListing
  <2>1. Sync!Listing \in SUBSET DirFiles
    BY DEF Sync!Listing
  <2>2. [r9 EXCEPT !.dir = FALSE] \in Asks
    BY <1>a
  <2> HIDE DEF Asks, Manifests
  <2>3. /\ UNCHANGED <<r1, r2, r4, r6, r10, r11, r12, r13, r14>> /\ r7' \in {r7, "failed"}
        /\ r8' \in {r8, "changed"} /\ r9' \in Asks /\ r5' \in BOOLEAN /\ r3' \in SUBSET SUBSET DirFiles
    BY <1>3, <1>a, <2>1, <2>2 DEF Sync!AddDirectoryListing, Sync!Stop
  <2> QED
    BY <1>a, <2>3 DEF Sync!TypeOK, Asks, Manifests
<1>4. CASE Sync!NextRound
  <2>1. r6 <= MaxRounds
    BY <1>4 DEF Sync!IInv, Sync!NextRound
  <2> HIDE DEF Asks, Manifests
  <2>2. /\ UNCHANGED <<r1, r2, r3, r4, r5, r9, r10, r11, r12, r13, r14>>
        /\ r7' \in {"send", "failed"} /\ r8' \in {r8, "progress"} /\ r6' \in 1..(MaxRounds + 2)
    BY <1>4, <1>a, <2>1 DEF Sync!NextRound
  <2> QED
    BY <1>a, <2>2 DEF Sync!TypeOK, Asks, Manifests
<1>5. ASSUME NEW f \in SourceFiles, Sync!AddFileHash(f) PROVE Sync!TypeOK'
  <2>1. [r9 EXCEPT !.entries = r9.entries \ {f}] \in Asks
    BY <1>a
  <2>2. Sync!Content(f) # Sync!None => Sync!Content(f) \in Sync!Contents
    BY <1>b DEF Sync!Content
  <2> HIDE DEF Asks, Manifests
  <2>3. /\ UNCHANGED <<r1, r3, r4, r6, r10, r11, r12, r13, r14>> /\ r7' \in {r7, "failed"}
        /\ r8' \in {r8, "read", "changed"} /\ r9' \in Asks /\ r5' \in BOOLEAN
        /\ r2' \in [SourceFiles -> Sync!Contents \cup {Sync!None}]
    BY <1>5, <1>a, <2>1, <2>2 DEF Sync!AddFileHash, Sync!Stop
  <2> QED
    BY <1>a, <2>3 DEF Sync!TypeOK, Asks, Manifests
<1>6. ASSUME NEW f \in SourceFiles, NEW h \in Sync!Contents, Sync!UploadBlob(f, h) PROVE Sync!TypeOK'
  <2>1. [r9 EXCEPT !.blobs = r9.blobs \ {<<f, h>>}] \in Asks
    BY <1>a
  <2> HIDE DEF Asks, Manifests
  <2>3. /\ UNCHANGED <<r1, r3, r6, r10, r12, r13>> /\ r7' \in {r7, "failed"}
        /\ r8' \in {r8, "read", "changed", "upload"} /\ r9' \in Asks /\ r5' \in BOOLEAN
        /\ r2' \in [SourceFiles -> Sync!Contents \cup {Sync!None}] /\ r4' \in SUBSET Sync!Contents
        /\ r11' \in [Sync!Contents -> Sync!Contents \cup {Sync!None}] /\ r14' \in 0..MaxFaults
    <3>1. CASE UNCHANGED r14 /\ (Sync!Stop("read") \/ Sync!Stop("changed"))
      BY <1>6, <3>1, <1>a DEF Sync!UploadBlob, Sync!Stop
    <3>2. CASE r14 < MaxFaults /\ r14' = r14 + 1 /\ Sync!Stop("upload")
      BY <1>6, <3>2, <1>a DEF Sync!UploadBlob, Sync!Stop
    <3>3. CASE /\ Sync!Content(f) = h /\ UNCHANGED <<r7, r8, r3, r14>>
               /\ r2' = [r2 EXCEPT ![f] = Sync!Content(f)]
               /\ r5' = (r5 \/ Sync!Progress(f, h))
               /\ r11' = (IF h \in r4 THEN r11 ELSE [r11 EXCEPT ![h] = Sync!Content(f)])
               /\ r4' = r4 \cup {h} /\ r9' = [r9 EXCEPT !.blobs = r9.blobs \ {<<f, h>>}]
      <4>1. r11' \in [Sync!Contents -> Sync!Contents \cup {Sync!None}]
        BY <3>3, <1>a
      <4>2. r2' \in [SourceFiles -> Sync!Contents \cup {Sync!None}]
        BY <3>3, <1>a
      <4> QED
        BY <1>6, <3>3, <4>1, <4>2, <1>a, <2>1 DEF Sync!UploadBlob
    <3> QED
      BY <1>6, <3>1, <3>2, <3>3 DEF Sync!UploadBlob, Sync!StillAsked
  <2> QED
    BY <1>a, <2>3 DEF Sync!TypeOK, Asks, Manifests
<1>7. ASSUME NEW f \in SourceFiles, NEW v \in Versions \cup {0}, Sync!Edit(f, v) PROVE Sync!TypeOK'
  <2> HIDE DEF Asks, Manifests
  <2>1. /\ UNCHANGED <<r2, r3, r4, r5, r6, r7, r8, r9, r10, r11, r13, r14>>
        /\ r1' \in [SourceFiles -> Versions \cup {0}] /\ r12' \in 0..MaxEdits
    BY <1>7, <1>a DEF Sync!Edit
  <2> QED
    BY <1>a, <2>1 DEF Sync!TypeOK, Asks, Manifests
<1>8. ASSUME NEW h \in Sync!Contents, Sync!Lose(h) PROVE Sync!TypeOK'
  <2> HIDE DEF Asks, Manifests
  <2>1. /\ UNCHANGED <<r1, r2, r3, r4, r5, r6, r7, r8, r9, r10, r12, r14>>
        /\ r11' \in [Sync!Contents -> Sync!Contents \cup {Sync!None}] /\ r13' \in 0..MaxLosses
    BY <1>8, <1>a DEF Sync!Lose
  <2> QED
    BY <1>a, <2>1 DEF Sync!TypeOK, Asks, Manifests
<1>9. CASE UNCHANGED Sync!vars
  BY <1>9 DEF Sync!vars, Sync!IInv, Sync!TypeOK
<1> QED
  BY <1>1, <1>2, <1>3, <1>4, <1>5, <1>6, <1>7, <1>8, <1>9 DEF Sync!Next

\* The server's blobs stay the contents of their hashes, and rounds are bounded.
LEMMA SyncBlobStep == Sync!IInv /\ [Sync!Next]_(Sync!vars) => Sync!BlobsFaithful' /\ (r7' = "apply" => r6' <= MaxRounds)
<1> SUFFICES ASSUME Sync!IInv, [Sync!Next]_(Sync!vars) PROVE Sync!BlobsFaithful' /\ (r7' = "apply" => r6' <= MaxRounds)
  OBVIOUS
<1> USE DEF Sync!IInv, Sync!BlobsFaithful
<1>1. CASE Sync!Send
  BY <1>1 DEF Sync!Send
<1>2. CASE Sync!Answer
  BY <1>2, LacksFrame DEF Sync!Answer, Sync!Answered
<1>3. CASE Sync!AddDirectoryListing
  BY <1>3 DEF Sync!AddDirectoryListing, Sync!Stop
<1>4. CASE Sync!NextRound
  BY <1>4 DEF Sync!NextRound
<1>5. ASSUME NEW f \in SourceFiles, Sync!AddFileHash(f) PROVE Sync!BlobsFaithful' /\ (r7' = "apply" => r6' <= MaxRounds)
  BY <1>5 DEF Sync!AddFileHash, Sync!Stop
<1>6. ASSUME NEW f \in SourceFiles, NEW h \in Sync!Contents, Sync!UploadBlob(f, h) PROVE Sync!BlobsFaithful' /\ (r7' = "apply" => r6' <= MaxRounds)
  BY <1>6 DEF Sync!UploadBlob, Sync!Stop, Sync!StillAsked, Sync!TypeOK
<1>7. ASSUME NEW f \in SourceFiles, NEW v \in Versions \cup {0}, Sync!Edit(f, v) PROVE Sync!BlobsFaithful' /\ (r7' = "apply" => r6' <= MaxRounds)
  BY <1>7 DEF Sync!Edit
<1>8. ASSUME NEW h \in Sync!Contents, Sync!Lose(h) PROVE Sync!BlobsFaithful' /\ (r7' = "apply" => r6' <= MaxRounds)
  BY <1>8 DEF Sync!Lose, Sync!TypeOK
<1>9. CASE UNCHANGED Sync!vars
  BY <1>9, LacksFrame DEF Sync!vars
<1> QED
  BY <1>1, <1>2, <1>3, <1>4, <1>5, <1>6, <1>7, <1>8, <1>9 DEF Sync!Next

\* As long as nothing goes wrong, every step of a sync keeps it undisturbed.
LEMMA SyncQuietStep ==
  Sync!IInv /\ [Sync!Next]_(Sync!vars) /\ Quiet' => Sync!Undisturbed' /\ Sync!OnlyRoundsFail'
<1> SUFFICES ASSUME Sync!IInv, [Sync!Next]_(Sync!vars), Quiet'
             PROVE  Sync!Undisturbed' /\ Sync!OnlyRoundsFail'
  OBVIOUS
<1>a. /\ r2 \in [SourceFiles -> Sync!Contents \cup {Sync!None}] /\ r4 \in SUBSET Sync!Contents /\ r5 \in BOOLEAN
      /\ r9 \in [entries : SUBSET SourceFiles, dir : BOOLEAN, blobs : SUBSET (SourceFiles \X Sync!Contents)]
      /\ r11 \in [Sync!Contents -> Sync!Contents \cup {Sync!None}]
      /\ r12 \in Nat /\ r13 \in Nat /\ r14 \in Nat
  BY SyncAssumption, ProcessAssumption DEF Sync!IInv, Sync!TypeOK
<1>b. Quiet => Sync!Undisturbed /\ Sync!OnlyRoundsFail
  BY DEF Sync!IInv, Quiet
<1>c. r1' = r1 => Sync!Listing' = Sync!Listing /\ \A f : Sync!Content(f)' = Sync!Content(f)
  BY DEF Sync!Listing, Sync!Content
<1>d. r1 = [f \in SourceFiles |-> 1] => \A f \in SourceFiles : Sync!Content(f) \in Sync!Contents /\ Sync!Content(f) # Sync!None
  BY ContentsOfFiles, SyncAssumption DEF Sync!Content
<1>1. CASE Sync!Send
  <2>1. Quiet /\ UNCHANGED <<r1, r2, r3, r4, r5, r8, r9, r11>> /\ r7' = "answer" /\ r10' = Sync!Manifest
    BY <1>1 DEF Sync!Send, Quiet
  <2>2. Sync!Manifest' = Sync!Manifest /\ Sync!Manifest.files = r2
    BY <2>1 DEF Sync!Manifest
  <2> QED
    BY <1>b, <1>c, <2>1, <2>2 DEF Sync!Undisturbed, Sync!OnlyRoundsFail
<1>2. CASE Sync!Answer
  <2>1. Quiet /\ UNCHANGED <<r1, r2, r3, r4, r10, r11>> /\ Sync!Answered /\ r7 = "answer" /\ Sync!Manifest' = Sync!Manifest
    BY <1>2, <1>a DEF Sync!Answer, Quiet, Sync!Manifest
  <2>2. Sync!Lacks' = Sync!Lacks
    BY <2>1, LacksFrame
  <2>3. r10 = Sync!Manifest /\ \A f \in SourceFiles : r10.files[f] = r2[f]
    BY <1>b, <2>1 DEF Sync!Undisturbed, Sync!Manifest
  <2>4. \A b \in Sync!Lacks.blobs : r2[b[1]] = b[2] /\ b[2] # Sync!None
    BY <2>3, LacksTyped DEF Sync!IInv
  <2>5. Sync!OnlyRoundsFail'
    BY <2>1 DEF Sync!Answered, Sync!OnlyRoundsFail
  <2>6. /\ r7' \in {"done", "failed", "apply"}
        /\ r7' = "apply" => r9' = Sync!Lacks /\ Sync!Lacks # Sync!NoAsk
    BY <2>1 DEF Sync!Answered
  <2>7. Sync!NoAsk' = Sync!NoAsk
    BY DEF Sync!NoAsk
  <2> QED
    BY <1>b, <1>c, <2>1, <2>2, <2>3, <2>4, <2>5, <2>6, <2>7 DEF Sync!Undisturbed
<1>3. CASE Sync!AddDirectoryListing
  <2>1. Quiet /\ UNCHANGED <<r1, r2, r4, r10, r11>> /\ r7 = "apply" /\ r9.dir
    BY <1>3 DEF Sync!AddDirectoryListing, Sync!Stop, Quiet
  <2>2. r3 \in {{}, {Sync!Listing}}
    BY <1>b, <2>1 DEF Sync!Undisturbed
  <2>3. /\ r5' = (r5 \/ r3 = {}) /\ r3' = {Sync!Listing} /\ r9' = [r9 EXCEPT !.dir = FALSE]
        /\ UNCHANGED <<r7, r8>>
    BY <1>3, <2>2 DEF Sync!AddDirectoryListing
  <2>4. ~r5 => r3 = {}
    <3>1. SUFFICES ASSUME ~r5 PROVE r3 = {}
      OBVIOUS
    <3>2. r10 = Sync!Manifest /\ Sync!Lacks.dir
      BY <1>b, <2>1, <3>1 DEF Sync!Undisturbed
    <3>3. r10.dirs = {}
      BY <3>2, LacksTyped DEF Sync!IInv
    <3> QED
      BY <3>2, <3>3 DEF Sync!Manifest
  <2>5. r9'.blobs = r9.blobs /\ r5'
    BY <2>3, <2>4, <1>a
  <2> QED
    BY <1>b, <1>c, <2>1, <2>3, <2>5 DEF Sync!Undisturbed, Sync!OnlyRoundsFail
<1>4. CASE Sync!NextRound
  <2>1. Quiet /\ UNCHANGED <<r1, r2, r3, r4, r10, r11>> /\ r7 = "apply" /\ r9 = Sync!NoAsk
    BY <1>4 DEF Sync!NextRound, Quiet
  <2>2. r5
    BY <1>b, <2>1, <1>a DEF Sync!Undisturbed
  <2>3. r7' = "send" /\ UNCHANGED r8
    BY <1>4, <2>2 DEF Sync!NextRound
  <2> QED
    BY <1>b, <1>c, <2>1, <2>3 DEF Sync!Undisturbed, Sync!OnlyRoundsFail
<1>5. ASSUME NEW f \in SourceFiles, Sync!AddFileHash(f) PROVE Sync!Undisturbed' /\ Sync!OnlyRoundsFail'
  <2>1. Quiet /\ UNCHANGED <<r1, r3, r4, r10, r11>> /\ r7 = "apply" /\ f \in r9.entries
    BY <1>5 DEF Sync!AddFileHash, Sync!Stop, Quiet
  <2>2. Sync!Content(f) \in Sync!Contents /\ Sync!Content(f) # Sync!None /\ r2[f] \in {Sync!None, Sync!Content(f)}
    BY <1>b, <1>d, <2>1 DEF Sync!Undisturbed
  <2>3. /\ r5' = (r5 \/ r2[f] = Sync!None) /\ r2' = [r2 EXCEPT ![f] = Sync!Content(f)]
        /\ r9' = [r9 EXCEPT !.entries = r9.entries \ {f}] /\ UNCHANGED <<r7, r8>>
    BY <1>5, <2>2 DEF Sync!AddFileHash
  <2>4. ~r5 => r2[f] = Sync!None
    <3>1. SUFFICES ASSUME ~r5 PROVE r2[f] = Sync!None
      OBVIOUS
    <3>2. r10 = Sync!Manifest /\ f \in Sync!Lacks.entries
      BY <1>b, <2>1, <3>1 DEF Sync!Undisturbed
    <3>3. r10.files[f] = Sync!None
      BY <3>2, LacksTyped DEF Sync!IInv
    <3> QED
      BY <3>2, <3>3 DEF Sync!Manifest
  <2>5. r9'.blobs = r9.blobs /\ r5'
    BY <2>3, <2>4, <1>a
  <2>6. \A g \in SourceFiles : r2'[g] = (IF g = f THEN Sync!Content(f) ELSE r2[g])
    BY <2>3, <1>a
  <2>7. \A g \in SourceFiles : r2'[g] \in {Sync!None, Sync!Content(g)} /\ r10.files[g] \in {Sync!None, r2'[g]}
    BY <1>b, <2>1, <2>2, <2>6 DEF Sync!Undisturbed
  <2>8. \A b \in r9.blobs : b[1] \in SourceFiles /\ r2'[b[1]] = b[2] /\ b[2] # Sync!None
    BY <1>b, <1>a, <2>1, <2>2, <2>6 DEF Sync!Undisturbed
  <2> QED
    BY <1>b, <1>c, <2>1, <2>3, <2>5, <2>7, <2>8 DEF Sync!Undisturbed, Sync!OnlyRoundsFail
<1>6. ASSUME NEW f \in SourceFiles, NEW h \in Sync!Contents, Sync!UploadBlob(f, h)
      PROVE  Sync!Undisturbed' /\ Sync!OnlyRoundsFail'
  <2>1. Quiet /\ UNCHANGED <<r1, r3, r10>> /\ r7 = "apply" /\ <<f, h>> \in r9.blobs
    BY <1>6, <1>a DEF Sync!UploadBlob, Sync!Stop, Quiet
  <2>2. Sync!Content(f) # Sync!None /\ r2[f] \in {Sync!None, Sync!Content(f)} /\ r2[f] = h /\ h # Sync!None
    BY <1>b, <1>d, <2>1 DEF Sync!Undisturbed
  <2>3. Sync!StillAsked(f, h) /\ Sync!Content(f) = h
    BY <2>2 DEF Sync!StillAsked
  <2>4. r14' = 0 /\ r14 = 0
    BY <2>1 DEF Quiet
  <2>5. /\ r2' = [r2 EXCEPT ![f] = Sync!Content(f)] /\ r5' = (r5 \/ Sync!Progress(f, h))
        /\ r11' = (IF h \in r4 THEN r11 ELSE [r11 EXCEPT ![h] = Sync!Content(f)])
        /\ r4' = r4 \cup {h} /\ r9' = [r9 EXCEPT !.blobs = r9.blobs \ {<<f, h>>}] /\ UNCHANGED <<r7, r8>>
    BY <1>6, <2>2, <2>3, <2>4 DEF Sync!UploadBlob
  <2>6. r2' = r2
    BY <1>a, <2>2, <2>3, <2>5
  <2>7. ~r5 => h \notin r4
    <3>1. SUFFICES ASSUME ~r5 PROVE h \notin r4
      OBVIOUS
    <3>2. <<f, h>> \in Sync!Lacks.blobs
      BY <1>b, <2>1, <3>1 DEF Sync!Undisturbed
    <3>3. r11[h] = Sync!None
      BY <3>2, LacksTyped DEF Sync!IInv
    <3> QED
      BY <1>b, <2>1, <3>3 DEF Sync!Undisturbed
  <2>8. r9'.blobs \subseteq r9.blobs /\ r5'
    BY <2>5, <2>7, <1>a DEF Sync!Progress
  <2>9. \A g \in r4' : r11'[g] # Sync!None
    BY <1>b, <1>a, <2>1, <2>2, <2>3, <2>5 DEF Sync!Undisturbed
  <2> QED
    BY <1>b, <1>c, <2>1, <2>5, <2>6, <2>8, <2>9 DEF Sync!Undisturbed, Sync!OnlyRoundsFail
<1>7. ASSUME NEW f \in SourceFiles, NEW v \in Versions \cup {0}, Sync!Edit(f, v) PROVE FALSE
  BY <1>7, <1>a DEF Sync!Edit, Quiet
<1>8. ASSUME NEW h \in Sync!Contents, Sync!Lose(h) PROVE FALSE
  BY <1>8, <1>a DEF Sync!Lose, Quiet
<1>9. CASE UNCHANGED Sync!vars
  <2>0. Quiet /\ UNCHANGED <<r1, r2, r3, r4, r5, r7, r8, r9, r10, r11>>
    BY <1>9 DEF Sync!vars, Quiet
  <2>1. Sync!Manifest' = Sync!Manifest /\ Sync!Lacks' = Sync!Lacks /\ Sync!NoAsk' = Sync!NoAsk
    BY <2>0, LacksFrame DEF Sync!Manifest, Sync!NoAsk
  <2>2. Sync!OnlyRoundsFail'
    BY <1>b, <2>0 DEF Sync!OnlyRoundsFail, Quiet
  <2>3. \A f \in SourceFiles : r2[f] \in {Sync!None, Sync!Content(f)} /\ r10.files[f] \in {Sync!None, r2[f]}
    BY <1>b, <2>0 DEF Sync!Undisturbed
  <2>4. (\A f \in SourceFiles : r2[f] \in {Sync!None, Sync!Content(f)} /\ r10.files[f] \in {Sync!None, r2[f]})'
    BY <1>c, <2>0, <2>3
  <2>5. r3' \in {{}, {Sync!Listing'}} /\ r1' = [f \in SourceFiles |-> 1]
    BY <1>b, <1>c, <2>0 DEF Sync!Undisturbed
  <2> QED
    BY <1>b, <2>0, <2>1, <2>2, <2>4, <2>5 DEF Sync!Undisturbed
<1> QED
  BY <1>1, <1>2, <1>3, <1>4, <1>5, <1>6, <1>7, <1>8, <1>9 DEF Sync!Next

\* The invariant of a sync holds in every execution.
LEMMA SyncInductive == Sync!Spec => []Sync!IInv
<1>1. Sync!Init => Sync!IInv
  <2> SUFFICES ASSUME Sync!Init PROVE Sync!IInv
    OBVIOUS
  <2>1. Sync!TypeOK
    <3>1. r1 = [f \in SourceFiles |-> 1] /\ r1 \in [SourceFiles -> Versions \cup {0}]
      BY SyncAssumption DEF Sync!Init
    <3>2. [f \in SourceFiles |-> Sync!None] \in [SourceFiles -> Sync!Contents \cup {Sync!None}]
      OBVIOUS
    <3>3. /\ r9 \in [entries : SUBSET SourceFiles, dir : BOOLEAN, blobs : SUBSET (SourceFiles \X Sync!Contents)]
          /\ r10 \in [files : [SourceFiles -> Sync!Contents \cup {Sync!None}], dirs : SUBSET SUBSET DirFiles]
      BY <3>2 DEF Sync!Init, Sync!NoAsk
    <3>4. r2 \in [SourceFiles -> Sync!Contents \cup {Sync!None}] /\ r11 \in [Sync!Contents -> Sync!Contents \cup {Sync!None}]
      BY DEF Sync!Init
    <3>5. r3 = {} /\ r4 = {} /\ r5 = FALSE /\ r8 = Sync!None
      BY DEF Sync!Init
    <3>6. /\ r6 \in 1..(MaxRounds + 2) /\ r7 \in {"send", "answer", "apply", "done", "failed"}
          /\ r12 \in 0..MaxEdits /\ r13 \in 0..MaxLosses /\ r14 \in 0..MaxFaults
      BY SyncAssumption, ProcessAssumption DEF Sync!Init
    <3> QED
      BY <3>1, <3>3, <3>4, <3>5, <3>6 DEF Sync!TypeOK
  <2>2. Sync!BlobsFaithful
    BY DEF Sync!Init, Sync!BlobsFaithful
  <2>3. Sync!Undisturbed /\ Sync!OnlyRoundsFail
    BY DEF Sync!Init, Sync!Undisturbed, Sync!OnlyRoundsFail
  <2> QED
    BY <2>1, <2>2, <2>3 DEF Sync!IInv, Sync!Init
<1>2. Sync!IInv /\ [Sync!Next]_(Sync!vars) => Sync!IInv'
  BY SyncTypeStep, SyncBlobStep, SyncQuietStep DEF Sync!IInv, Quiet
<1> QED
  BY <1>1, <1>2, PTL DEF Sync!Spec

\* For any workspace, includes and number of rounds: a job the remote engine accepted
\* reads the files of the manifest and nothing else, and while nobody edits a file and
\* neither the server nor the link fails, every refusal leads to progress, so that only
\* the bound on the rounds of sourceSync ends it.
THEOREM SyncsFaithfully == Sync!Spec => []SyncFaithful
<1>1. Sync!IInv => SyncFaithful
  <2> SUFFICES ASSUME Sync!IInv PROVE Sync!AcceptedFaithful /\ Sync!OnlyRoundsFail
    BY DEF SyncFaithful
  <2>1. Sync!OnlyRoundsFail
    BY DEF Sync!IInv, Sync!OnlyRoundsFail
  <2>2. ASSUME r7 = "done", NEW f \in Sync!Needed
        PROVE  r10.files[f] # Sync!None /\ r11[r10.files[f]] = r10.files[f]
    <3>1. f \in SourceFiles /\ r10.files[f] \in Sync!Contents \cup {Sync!None}
      BY <2>2, NeededFiles DEF Sync!IInv, Sync!TypeOK
    <3>2. Sync!Lacks = Sync!NoAsk
      BY <2>2 DEF Sync!IInv, Sync!BlobsFaithful
    <3>3. r10.files[f] # Sync!None
      BY <2>2, <3>2 DEF Sync!Lacks, Sync!NoAsk
    <3>4. r11[r10.files[f]] # Sync!None
      <4>1. {<<g, r10.files[g]>> : g \in {k \in Sync!Needed : r10.files[k] # Sync!None
                                               /\ r11[r10.files[k]] = Sync!None}} = {}
        BY <3>2 DEF Sync!Lacks, Sync!NoAsk
      <4> QED
        BY <2>2, <3>3, <4>1
    <3> QED
      BY <3>1, <3>3, <3>4 DEF Sync!IInv, Sync!BlobsFaithful
  <2> QED
    BY <2>1, <2>2 DEF Sync!AcceptedFaithful
<1> QED
  BY <1>1, SyncInductive, PTL

-----------------------------------------------------------------------------
(* AuthSession.                                                            *)

\* Sessions and responses are records of the given shape.
LEMMA AuthSessions ==
  /\ Auth!NoSession \in Auth!Sessions /\ Auth!NoSession.rt = 0
  /\ \A s \in Auth!Sessions : s.rt \in Nat /\ s.exp \in Nat
  /\ \A t, e \in Nat : [rt |-> t, exp |-> e] \in Auth!Sessions
  BY DEF Auth!NoSession, Auth!Sessions

\* Responses of the token endpoint.
LEMMA AuthResponses ==
  /\ Auth!NoResp \in Auth!Responses /\ Auth!NoResp.rt = 0
  /\ \A r \in Auth!Responses : r.rt \in Nat /\ r.exp \in Nat
  /\ \A id \in {"none", "bad", "ok"} : [Auth!NoResp EXCEPT !.id = id] \in Auth!Responses
  BY DEF Auth!NoResp, Auth!TokenResponse, Auth!Responses

\* A token response is a response.
LEMMA TokenResponseTyped ==
  ASSUME NEW id \in {"none", "bad", "ok"}, NEW t \in Nat, NEW e \in Nat, NEW q \in Cmds \cup {"none"}
  PROVE  Auth!TokenResponse(id, t, e, q) \in Auth!Responses
  BY DEF Auth!TokenResponse, Auth!Responses

\* Every step of a command keeps the types.
LEMMA AuthTypeStep ==
  Auth!IInv /\ [Auth!Next]_(Auth!vars)
  => Auth!TypeOK'
<1> SUFFICES ASSUME Auth!IInv, [Auth!Next]_(Auth!vars)
             PROVE  Auth!TypeOK'
  OBVIOUS
<1>a. Auth!TypeOK /\ MaxTime \in Nat /\ MaxCmds \in Nat /\ MaxFaults \in Nat /\ Life \in Nat
  BY AuthAssumption, ProcessAssumption DEF Auth!IInv
<1>b. {"idle", "wait", "exchange", "check", "refresh", "revalidate", "put", "drop", "revoke", "delete"} \subseteq Auth!Labels
  BY DEF Auth!Labels
<1>1. ASSUME NEW p \in Cmds, Auth!LoginStart(p) PROVE Auth!TypeOK'
  <2>0. UNCHANGED <<r1, r2, r3, r4, r7, r8, r9, r11>>
    BY <1>1 DEF Auth!LoginStart, Auth!Begin
  <2>5. r5' \in [Cmds -> Auth!Labels]
    BY <1>a, <1>b, <1>1 DEF Auth!TypeOK, Auth!LoginStart, Auth!Begin
  <2>6. r6' \in [Cmds -> {"none", "login", "resolve", "logout"}]
    BY <1>a, <1>1 DEF Auth!TypeOK, Auth!LoginStart, Auth!Begin
  <2>10. r10' \in 0..MaxCmds
    BY <1>a, <1>1 DEF Auth!TypeOK, Auth!LoginStart, Auth!Begin
  <2>12. r12' \in {"none", "in", "out"}
    BY <1>a, <1>1 DEF Auth!TypeOK, Auth!LoginStart, Auth!Begin
  <2>13. r13' \in BOOLEAN
    BY <1>a, <1>1 DEF Auth!TypeOK, Auth!LoginStart, Auth!Begin
  <2>14. r14' \in SUBSET Cmds /\ r15' \in BOOLEAN
    BY <1>a, <1>1 DEF Auth!TypeOK, Auth!LoginStart, Auth!Begin
  <2> QED
    BY <1>a, <2>0, <2>5, <2>6, <2>10, <2>12, <2>13, <2>14 DEF Auth!TypeOK
<1>2. ASSUME NEW p \in Cmds, Auth!Callback(p) PROVE Auth!TypeOK'
  <2>0. UNCHANGED <<r1, r2, r3, r4, r10, r12, r13, r14, r15>>
    BY <1>2 DEF Auth!Callback, Auth!End, Auth!Step, Auth!Fault, Auth!NoFault
  <2>5. r5' \in [Cmds -> Auth!Labels]
    BY <1>a, <1>b, <1>2 DEF Auth!TypeOK, Auth!Callback, Auth!End, Auth!Step, Auth!Fault, Auth!NoFault
  <2>6. r6' \in [Cmds -> {"none", "login", "resolve", "logout"}]
    BY <1>a, <1>2 DEF Auth!TypeOK, Auth!Callback, Auth!End, Auth!Step, Auth!Fault, Auth!NoFault
  <2>7. r7' \in [Cmds -> Auth!Sessions]
    BY <1>a, AuthSessions, AuthResponses, <1>2 DEF Auth!TypeOK, Auth!Callback, Auth!End, Auth!Step, Auth!Fault, Auth!NoFault
  <2>8. r8' \in [Cmds -> Auth!Responses]
    BY <1>a, AuthResponses, <1>2 DEF Auth!TypeOK, Auth!Callback, Auth!End, Auth!Step, Auth!Fault, Auth!NoFault
  <2>9. r9' \in [Cmds -> 0..MaxTime]
    BY <1>a, <1>2 DEF Auth!TypeOK, Auth!Callback, Auth!End, Auth!Step, Auth!Fault, Auth!NoFault
  <2>11. r11' \in 0..MaxFaults
    BY <1>a, <1>2 DEF Auth!TypeOK, Auth!Callback, Auth!End, Auth!Step, Auth!Fault, Auth!NoFault
  <2> QED
    BY <1>a, <2>0, <2>5, <2>6, <2>7, <2>8, <2>9, <2>11 DEF Auth!TypeOK
<1>3. ASSUME NEW p \in Cmds, Auth!ExchangeCode(p) PROVE Auth!TypeOK'
  <2>0. UNCHANGED <<r1, r4, r10, r12, r13, r14, r15>>
    BY <1>3 DEF Auth!ExchangeCode, Auth!End, Auth!Step, Auth!Fault, Auth!NoFault
  <2>2. r2' \in SUBSET (1..r3') /\ r3' \in Nat
    <3>1. (r3' = r3 + 1 /\ r2' = r2 \cup {r3 + 1}) \/ UNCHANGED <<r2, r3>>
      BY <1>3 DEF Auth!ExchangeCode
    <3>2. CASE r3' = r3 + 1 /\ r2' = r2 \cup {r3 + 1}
      BY <1>a, <3>2 DEF Auth!TypeOK
    <3> QED
      BY <1>a, <3>1, <3>2 DEF Auth!TypeOK
  <2>5. r5' \in [Cmds -> Auth!Labels]
    BY <1>a, <1>b, <1>3 DEF Auth!TypeOK, Auth!ExchangeCode, Auth!End, Auth!Step, Auth!Fault, Auth!NoFault
  <2>6. r6' \in [Cmds -> {"none", "login", "resolve", "logout"}]
    BY <1>a, <1>3 DEF Auth!TypeOK, Auth!ExchangeCode, Auth!End, Auth!Step, Auth!Fault, Auth!NoFault
  <2>7. r7' \in [Cmds -> Auth!Sessions]
    BY <1>a, AuthSessions, AuthResponses, <1>3 DEF Auth!TypeOK, Auth!ExchangeCode, Auth!End, Auth!Step, Auth!Fault, Auth!NoFault
  <2>8. r8' \in [Cmds -> Auth!Responses]
    <3>1. PICK x \in Auth!Responses : r8' = [r8 EXCEPT ![p] = x]
      <4>1. /\ r4 + Life \in Nat /\ r3 + 1 \in Nat
            /\ Auth!TokenResponse("ok", r3 + 1, r4 + Life, p) \in Auth!Responses
            /\ \A id \in {"ok", "bad"} : Auth!TokenResponse(id, 0, r4 + Life, p) \in Auth!Responses
        <5>1. r4 + Life \in Nat /\ r3 + 1 \in Nat /\ p \in Cmds \cup {"none"} /\ 0 \in Nat
          BY <1>a DEF Auth!TypeOK
        <5> QED
          BY <5>1, TokenResponseTyped
      <4>2. \/ r8' = [r8 EXCEPT ![p] = Auth!TokenResponse("ok", r3 + 1, r4 + Life, p)]
            \/ \E id \in {"ok", "bad"} : r8' = [r8 EXCEPT ![p] = Auth!TokenResponse(id, 0, r4 + Life, p)]
            \/ r8' = [r8 EXCEPT ![p] = Auth!NoResp]
        BY <1>3 DEF Auth!ExchangeCode, Auth!End
      <4>3. Auth!NoResp \in Auth!Responses
        BY AuthResponses
      <4> QED
        BY <4>1, <4>2, <4>3
    <3> QED
      BY <1>a, <3>1 DEF Auth!TypeOK
  <2>9. r9' \in [Cmds -> 0..MaxTime]
    BY <1>a, <1>3 DEF Auth!TypeOK, Auth!ExchangeCode, Auth!End, Auth!Step, Auth!Fault, Auth!NoFault
  <2>11. r11' \in 0..MaxFaults
    BY <1>a, <1>3 DEF Auth!TypeOK, Auth!ExchangeCode, Auth!End, Auth!Step, Auth!Fault, Auth!NoFault
  <2> QED
    BY <1>a, <2>0, <2>2, <2>5, <2>6, <2>7, <2>8, <2>9, <2>11 DEF Auth!TypeOK
<1>4. ASSUME NEW p \in Cmds, Auth!CheckLogin(p) PROVE Auth!TypeOK'
  <2>0. UNCHANGED <<r1, r2, r3, r4, r10, r11, r12, r13, r14, r15>>
    BY <1>4 DEF Auth!CheckLogin, Auth!End, Auth!Step
  <2>5. r5' \in [Cmds -> Auth!Labels]
    BY <1>a, <1>b, <1>4 DEF Auth!TypeOK, Auth!CheckLogin, Auth!End, Auth!Step
  <2>6. r6' \in [Cmds -> {"none", "login", "resolve", "logout"}]
    BY <1>a, <1>4 DEF Auth!TypeOK, Auth!CheckLogin, Auth!End, Auth!Step
  <2>7. r7' \in [Cmds -> Auth!Sessions]
    <3>1. PICK x \in Auth!Sessions : r7' = [r7 EXCEPT ![p] = x]
      <4>1. [rt |-> r8[p].rt, exp |-> r8[p].exp] \in Auth!Sessions
        <5>1. r8[p] \in Auth!Responses
          BY <1>a DEF Auth!TypeOK
        <5> QED
          BY <5>1, AuthSessions, AuthResponses
      <4> QED
        BY <1>4, <4>1, AuthSessions DEF Auth!CheckLogin, Auth!End
    <3> QED
      BY <1>a, <3>1 DEF Auth!TypeOK
  <2>8. r8' \in [Cmds -> Auth!Responses]
    BY <1>a, AuthResponses, <1>4 DEF Auth!TypeOK, Auth!CheckLogin, Auth!End, Auth!Step
  <2>9. r9' \in [Cmds -> 0..MaxTime]
    BY <1>a, <1>4 DEF Auth!TypeOK, Auth!CheckLogin, Auth!End, Auth!Step
  <2> QED
    BY <1>a, <2>0, <2>5, <2>6, <2>7, <2>8, <2>9 DEF Auth!TypeOK
<1>5. ASSUME NEW p \in Cmds, Auth!ResolveStart(p) PROVE Auth!TypeOK'
  <2>0. UNCHANGED <<r1, r2, r3, r4, r8, r11, r12>>
    BY <1>5 DEF Auth!ResolveStart, Auth!Begin
  <2>5. r5' \in [Cmds -> Auth!Labels]
    BY <1>a, <1>b, <1>5 DEF Auth!TypeOK, Auth!ResolveStart, Auth!Begin
  <2>6. r6' \in [Cmds -> {"none", "login", "resolve", "logout"}]
    BY <1>a, <1>5 DEF Auth!TypeOK, Auth!ResolveStart, Auth!Begin
  <2>7. r7' \in [Cmds -> Auth!Sessions]
    BY <1>a, AuthSessions, AuthResponses, <1>5 DEF Auth!TypeOK, Auth!ResolveStart, Auth!Begin
  <2>9. r9' \in [Cmds -> 0..MaxTime]
    BY <1>a, <1>5 DEF Auth!TypeOK, Auth!ResolveStart, Auth!Begin
  <2>10. r10' \in 0..MaxCmds
    BY <1>a, <1>5 DEF Auth!TypeOK, Auth!ResolveStart, Auth!Begin
  <2>13. r13' \in BOOLEAN
    BY <1>a, <1>5 DEF Auth!TypeOK, Auth!ResolveStart, Auth!Begin
  <2>14. r14' \in SUBSET Cmds /\ r15' \in BOOLEAN
    BY <1>a, <1>5 DEF Auth!TypeOK, Auth!ResolveStart, Auth!Begin
  <2> QED
    BY <1>a, <2>0, <2>5, <2>6, <2>7, <2>9, <2>10, <2>13, <2>14 DEF Auth!TypeOK
<1>6. ASSUME NEW p \in Cmds, Auth!Refresh(p) PROVE Auth!TypeOK'
  <2>0. UNCHANGED <<r1, r4, r6, r7, r9, r10, r12, r14, r15>>
    BY <1>6 DEF Auth!Refresh, Auth!Step, Auth!Fault, Auth!NoFault
  <2>2. r2' \in SUBSET (1..r3') /\ r3' \in Nat
    BY <1>a, <1>6 DEF Auth!TypeOK, Auth!Refresh, Auth!Step, Auth!Fault, Auth!NoFault
  <2>5. r5' \in [Cmds -> Auth!Labels]
    BY <1>a, <1>b, <1>6 DEF Auth!TypeOK, Auth!Refresh, Auth!Step, Auth!Fault, Auth!NoFault
  <2>8. r8' \in [Cmds -> Auth!Responses]
    <3>1. PICK x \in Auth!Responses : r8' = [r8 EXCEPT ![p] = x] \/ UNCHANGED r8
      <4>1. /\ r4 + Life \in Nat /\ r3 + 1 \in Nat
            /\ Auth!TokenResponse("ok", 0, r4 + Life, "none") \in Auth!Responses
            /\ Auth!TokenResponse("ok", r3 + 1, r4 + Life, "none") \in Auth!Responses
        <5>1. r4 + Life \in Nat /\ r3 + 1 \in Nat /\ "none" \in Cmds \cup {"none"} /\ 0 \in Nat
          BY <1>a DEF Auth!TypeOK
        <5> QED
          BY <5>1, TokenResponseTyped
      <4>2. \A id \in {"none", "bad"} : [Auth!NoResp EXCEPT !.id = id] \in Auth!Responses
        BY AuthResponses
      <4>3. \/ UNCHANGED r8
            \/ r8' = [r8 EXCEPT ![p] = Auth!TokenResponse("ok", 0, r4 + Life, "none")]
            \/ r8' = [r8 EXCEPT ![p] = Auth!TokenResponse("ok", r3 + 1, r4 + Life, "none")]
            \/ \E id \in {"none", "bad"} : r8' = [r8 EXCEPT ![p] = [Auth!NoResp EXCEPT !.id = id]]
        BY <1>6 DEF Auth!Refresh
      <4> QED
        BY <4>1, <4>2, <4>3, AuthResponses
    <3> QED
      BY <1>a, <3>1 DEF Auth!TypeOK
  <2>11. r11' \in 0..MaxFaults
    BY <1>a, <1>6 DEF Auth!TypeOK, Auth!Refresh, Auth!Step, Auth!Fault, Auth!NoFault
  <2>13. r13' \in BOOLEAN
    BY <1>a, <1>6 DEF Auth!TypeOK, Auth!Refresh, Auth!Step, Auth!Fault, Auth!NoFault
  <2> QED
    BY <1>a, <2>0, <2>2, <2>5, <2>8, <2>11, <2>13 DEF Auth!TypeOK
<1>7. ASSUME NEW p \in Cmds, Auth!CheckRefresh(p) PROVE Auth!TypeOK'
  <2>0. UNCHANGED <<r1, r2, r3, r4, r6, r8, r9, r10, r11, r12, r13, r14, r15>>
    BY <1>7 DEF Auth!CheckRefresh, Auth!Step, Auth!RefreshedSession
  <2>5. r5' \in [Cmds -> Auth!Labels]
    BY <1>a, <1>b, <1>7 DEF Auth!TypeOK, Auth!CheckRefresh, Auth!Step, Auth!RefreshedSession
  <2>7. r7' \in [Cmds -> Auth!Sessions]
    <3>1. PICK x \in Auth!Sessions : r7' = [r7 EXCEPT ![p] = x] \/ UNCHANGED r7
      <4>1. Auth!RefreshedSession(r7[p], r8[p]) \in Auth!Sessions
        <5>1. r7[p] \in Auth!Sessions /\ r8[p] \in Auth!Responses
          BY <1>a DEF Auth!TypeOK
        <5> QED
          BY <5>1, AuthSessions, AuthResponses DEF Auth!RefreshedSession
      <4> QED
        BY <1>7, <4>1, AuthSessions DEF Auth!CheckRefresh
    <3> QED
      BY <1>a, <3>1 DEF Auth!TypeOK
  <2> QED
    BY <1>a, <2>0, <2>5, <2>7 DEF Auth!TypeOK
<1>8. ASSUME NEW p \in Cmds, Auth!DeleteInvalid(p) PROVE Auth!TypeOK'
  <2>0. UNCHANGED <<r2, r3, r4, r10, r12, r13, r14, r15>>
    BY <1>8 DEF Auth!DeleteInvalid, Auth!End, Auth!Fault, Auth!NoFault
  <2>1. r1' \in Auth!Sessions
    BY <1>a, AuthSessions, <1>8 DEF Auth!TypeOK, Auth!DeleteInvalid, Auth!End, Auth!Fault, Auth!NoFault
  <2>5. r5' \in [Cmds -> Auth!Labels]
    BY <1>a, <1>b, <1>8 DEF Auth!TypeOK, Auth!DeleteInvalid, Auth!End, Auth!Fault, Auth!NoFault
  <2>6. r6' \in [Cmds -> {"none", "login", "resolve", "logout"}]
    BY <1>a, <1>8 DEF Auth!TypeOK, Auth!DeleteInvalid, Auth!End, Auth!Fault, Auth!NoFault
  <2>7. r7' \in [Cmds -> Auth!Sessions]
    BY <1>a, AuthSessions, AuthResponses, <1>8 DEF Auth!TypeOK, Auth!DeleteInvalid, Auth!End, Auth!Fault, Auth!NoFault
  <2>8. r8' \in [Cmds -> Auth!Responses]
    BY <1>a, AuthResponses, <1>8 DEF Auth!TypeOK, Auth!DeleteInvalid, Auth!End, Auth!Fault, Auth!NoFault
  <2>9. r9' \in [Cmds -> 0..MaxTime]
    BY <1>a, <1>8 DEF Auth!TypeOK, Auth!DeleteInvalid, Auth!End, Auth!Fault, Auth!NoFault
  <2>11. r11' \in 0..MaxFaults
    BY <1>a, <1>8 DEF Auth!TypeOK, Auth!DeleteInvalid, Auth!End, Auth!Fault, Auth!NoFault
  <2> QED
    BY <1>a, <2>0, <2>1, <2>5, <2>6, <2>7, <2>8, <2>9, <2>11 DEF Auth!TypeOK
<1>9. ASSUME NEW p \in Cmds, Auth!PutSession(p) PROVE Auth!TypeOK'
  <2>0. UNCHANGED <<r2, r3, r4, r10, r14>>
    BY <1>9 DEF Auth!PutSession, Auth!End, Auth!Fault, Auth!NoFault
  <2>1. r1' \in Auth!Sessions
    BY <1>a, AuthSessions, <1>9 DEF Auth!TypeOK, Auth!PutSession, Auth!End, Auth!Fault, Auth!NoFault
  <2>5. r5' \in [Cmds -> Auth!Labels]
    BY <1>a, <1>b, <1>9 DEF Auth!TypeOK, Auth!PutSession, Auth!End, Auth!Fault, Auth!NoFault
  <2>6. r6' \in [Cmds -> {"none", "login", "resolve", "logout"}]
    BY <1>a, <1>9 DEF Auth!TypeOK, Auth!PutSession, Auth!End, Auth!Fault, Auth!NoFault
  <2>7. r7' \in [Cmds -> Auth!Sessions]
    BY <1>a, AuthSessions, AuthResponses, <1>9 DEF Auth!TypeOK, Auth!PutSession, Auth!End, Auth!Fault, Auth!NoFault
  <2>8. r8' \in [Cmds -> Auth!Responses]
    BY <1>a, AuthResponses, <1>9 DEF Auth!TypeOK, Auth!PutSession, Auth!End, Auth!Fault, Auth!NoFault
  <2>9. r9' \in [Cmds -> 0..MaxTime]
    BY <1>a, <1>9 DEF Auth!TypeOK, Auth!PutSession, Auth!End, Auth!Fault, Auth!NoFault
  <2>11. r11' \in 0..MaxFaults
    BY <1>a, <1>9 DEF Auth!TypeOK, Auth!PutSession, Auth!End, Auth!Fault, Auth!NoFault
  <2>12. r12' \in {"none", "in", "out"}
    BY <1>a, <1>9 DEF Auth!TypeOK, Auth!PutSession, Auth!End, Auth!Fault, Auth!NoFault
  <2>13. r13' \in BOOLEAN
    BY <1>a, <1>9 DEF Auth!TypeOK, Auth!PutSession, Auth!End, Auth!Fault, Auth!NoFault
  <2>14. r15' \in BOOLEAN
    BY <1>a, <1>9 DEF Auth!TypeOK, Auth!PutSession
  <2> QED
    BY <1>a, <2>0, <2>1, <2>5, <2>6, <2>7, <2>8, <2>9, <2>11, <2>12, <2>13, <2>14 DEF Auth!TypeOK
<1>10. ASSUME NEW p \in Cmds, Auth!LogoutStart(p) PROVE Auth!TypeOK'
  <2>0. UNCHANGED <<r1, r2, r3, r4, r8, r9, r11>>
    BY <1>10 DEF Auth!LogoutStart, Auth!Begin, Auth!LoggedOut
  <2>5. r5' \in [Cmds -> Auth!Labels]
    BY <1>a, <1>b, <1>10 DEF Auth!TypeOK, Auth!LogoutStart, Auth!Begin, Auth!LoggedOut
  <2>6. r6' \in [Cmds -> {"none", "login", "resolve", "logout"}]
    BY <1>a, <1>10 DEF Auth!TypeOK, Auth!LogoutStart, Auth!Begin, Auth!LoggedOut
  <2>7. r7' \in [Cmds -> Auth!Sessions]
    BY <1>a, AuthSessions, AuthResponses, <1>10 DEF Auth!TypeOK, Auth!LogoutStart, Auth!Begin, Auth!LoggedOut
  <2>10. r10' \in 0..MaxCmds
    BY <1>a, <1>10 DEF Auth!TypeOK, Auth!LogoutStart, Auth!Begin, Auth!LoggedOut
  <2>12. r12' \in {"none", "in", "out"}
    BY <1>a, <1>10 DEF Auth!TypeOK, Auth!LogoutStart, Auth!Begin, Auth!LoggedOut
  <2>13. r13' \in BOOLEAN
    BY <1>a, <1>10 DEF Auth!TypeOK, Auth!LogoutStart, Auth!Begin, Auth!LoggedOut
  <2>14. r14' \in SUBSET Cmds /\ r15' \in BOOLEAN
    BY <1>a, <1>10 DEF Auth!TypeOK, Auth!LogoutStart, Auth!Begin, Auth!LoggedOut, Auth!Others
  <2> QED
    BY <1>a, <2>0, <2>5, <2>6, <2>7, <2>10, <2>12, <2>13, <2>14 DEF Auth!TypeOK
<1>11. ASSUME NEW p \in Cmds, Auth!Revoke(p) PROVE Auth!TypeOK'
  <2>0. UNCHANGED <<r1, r4, r6, r7, r8, r9, r10, r12, r13, r14, r15>>
    BY <1>11 DEF Auth!Revoke, Auth!RevokeDone, Auth!Step, Auth!Fault, Auth!NoFault
  <2>2. r2' \in SUBSET (1..r3') /\ r3' \in Nat
    BY <1>a, <1>11 DEF Auth!TypeOK, Auth!Revoke, Auth!RevokeDone, Auth!Step, Auth!Fault, Auth!NoFault
  <2>5. r5' \in [Cmds -> Auth!Labels]
    BY <1>a, <1>b, <1>11 DEF Auth!TypeOK, Auth!Revoke, Auth!RevokeDone, Auth!Step, Auth!Fault, Auth!NoFault
  <2>11. r11' \in 0..MaxFaults
    BY <1>a, <1>11 DEF Auth!TypeOK, Auth!Revoke, Auth!RevokeDone, Auth!Step, Auth!Fault, Auth!NoFault
  <2> QED
    BY <1>a, <2>0, <2>2, <2>5, <2>11 DEF Auth!TypeOK
<1>12. ASSUME NEW p \in Cmds, Auth!DeleteSession(p) PROVE Auth!TypeOK'
  <2>0. UNCHANGED <<r2, r3, r4, r10, r13>>
    BY <1>12 DEF Auth!DeleteSession, Auth!LoggedOut, Auth!End, Auth!Fault, Auth!NoFault
  <2>1. r1' \in Auth!Sessions
    BY <1>a, AuthSessions, <1>12 DEF Auth!TypeOK, Auth!DeleteSession, Auth!LoggedOut, Auth!End, Auth!Fault, Auth!NoFault
  <2>5. r5' \in [Cmds -> Auth!Labels]
    BY <1>a, <1>b, <1>12 DEF Auth!TypeOK, Auth!DeleteSession, Auth!LoggedOut, Auth!End, Auth!Fault, Auth!NoFault
  <2>6. r6' \in [Cmds -> {"none", "login", "resolve", "logout"}]
    BY <1>a, <1>12 DEF Auth!TypeOK, Auth!DeleteSession, Auth!LoggedOut, Auth!End, Auth!Fault, Auth!NoFault
  <2>7. r7' \in [Cmds -> Auth!Sessions]
    BY <1>a, AuthSessions, AuthResponses, <1>12 DEF Auth!TypeOK, Auth!DeleteSession, Auth!LoggedOut, Auth!End, Auth!Fault, Auth!NoFault
  <2>8. r8' \in [Cmds -> Auth!Responses]
    BY <1>a, AuthResponses, <1>12 DEF Auth!TypeOK, Auth!DeleteSession, Auth!LoggedOut, Auth!End, Auth!Fault, Auth!NoFault
  <2>9. r9' \in [Cmds -> 0..MaxTime]
    BY <1>a, <1>12 DEF Auth!TypeOK, Auth!DeleteSession, Auth!LoggedOut, Auth!End, Auth!Fault, Auth!NoFault
  <2>11. r11' \in 0..MaxFaults
    BY <1>a, <1>12 DEF Auth!TypeOK, Auth!DeleteSession, Auth!LoggedOut, Auth!End, Auth!Fault, Auth!NoFault
  <2>12. r12' \in {"none", "in", "out"}
    BY <1>a, <1>12 DEF Auth!TypeOK, Auth!DeleteSession, Auth!LoggedOut, Auth!End, Auth!Fault, Auth!NoFault
  <2>14. r14' \in SUBSET Cmds /\ r15' \in BOOLEAN
    BY <1>a, <1>12 DEF Auth!TypeOK, Auth!DeleteSession, Auth!LoggedOut, Auth!Others
  <2> QED
    BY <1>a, <2>0, <2>1, <2>5, <2>6, <2>7, <2>8, <2>9, <2>11, <2>12, <2>14 DEF Auth!TypeOK
<1>13. ASSUME NEW p \in Cmds, Auth!Interrupt(p) PROVE Auth!TypeOK'
  <2>0. UNCHANGED <<r1, r2, r3, r4, r10, r12, r14, r15>>
    BY <1>13 DEF Auth!Interrupt, Auth!End, Auth!Fault
  <2>5. r5' \in [Cmds -> Auth!Labels]
    BY <1>a, <1>b, <1>13 DEF Auth!TypeOK, Auth!Interrupt, Auth!End, Auth!Fault
  <2>6. r6' \in [Cmds -> {"none", "login", "resolve", "logout"}]
    BY <1>a, <1>13 DEF Auth!TypeOK, Auth!Interrupt, Auth!End, Auth!Fault
  <2>7. r7' \in [Cmds -> Auth!Sessions]
    BY <1>a, AuthSessions, AuthResponses, <1>13 DEF Auth!TypeOK, Auth!Interrupt, Auth!End, Auth!Fault
  <2>8. r8' \in [Cmds -> Auth!Responses]
    BY <1>a, AuthResponses, <1>13 DEF Auth!TypeOK, Auth!Interrupt, Auth!End, Auth!Fault
  <2>9. r9' \in [Cmds -> 0..MaxTime]
    BY <1>a, <1>13 DEF Auth!TypeOK, Auth!Interrupt, Auth!End, Auth!Fault
  <2>11. r11' \in 0..MaxFaults
    BY <1>a, <1>13 DEF Auth!TypeOK, Auth!Interrupt, Auth!End, Auth!Fault
  <2>13. r13' \in BOOLEAN
    BY <1>a, <1>13 DEF Auth!TypeOK, Auth!Interrupt, Auth!End, Auth!Fault
  <2> QED
    BY <1>a, <2>0, <2>5, <2>6, <2>7, <2>8, <2>9, <2>11, <2>13 DEF Auth!TypeOK
<1>14. CASE Auth!Tick
  <2>0. UNCHANGED <<r1, r2, r3, r5, r6, r7, r8, r9, r10, r11, r12, r13, r14, r15>>
    BY <1>14 DEF Auth!Tick
  <2>4. r4' \in 0..MaxTime
    BY <1>a, <1>14 DEF Auth!TypeOK, Auth!Tick
  <2> QED
    BY <1>a, <2>0, <2>4 DEF Auth!TypeOK
<1>15. CASE UNCHANGED Auth!vars
  BY <1>a, <1>15 DEF Auth!vars, Auth!TypeOK
<1> QED
  BY <1>1, <1>2, <1>3, <1>4, <1>5, <1>6, <1>7, <1>8, <1>9, <1>10, <1>11, <1>12, <1>13, <1>14, <1>15
     DEF Auth!Next

\* The state of command q is left alone.
Same(q) == r5'[q] = r5[q] /\ r6'[q] = r6[q] /\ r7'[q] = r7[q] /\ r8'[q] = r8[q] /\ r9'[q] = r9[q]

\* A command that takes no step keeps its shape.
LEMMA ShapedFrame ==
  ASSUME NEW q \in Cmds, Auth!TypeOK, Auth!TypeOK', Auth!Shaped(q), Same(q), r4 <= r4'
  PROVE  Auth!Shaped(q)'
<1>1. r9[q] \in Nat /\ r4 \in Nat /\ r4' \in Nat
  BY AuthAssumption DEF Auth!TypeOK
<1>2. r9[q] <= r4' /\ Auth!NoSession' = Auth!NoSession /\ Auth!NoResp' = Auth!NoResp
  BY <1>1 DEF Auth!Shaped, Auth!NoSession, Auth!NoResp, Auth!TokenResponse
<1> QED
  BY <1>2 DEF Auth!Shaped, Same

\* A command that ends leaves nothing of its own, and the others alone.
LEMMA EndShaped ==
  ASSUME NEW p \in Cmds, Auth!TypeOK, Auth!TypeOK', Auth!End(p)
  PROVE  /\ Auth!Shaped(p)' /\ r5'[p] = "idle" /\ r6'[p] = "none" /\ r7'[p] = Auth!NoSession
         /\ \A q \in Cmds : q # p => Same(q)
<1>1. r5'[p] = "idle" /\ r6'[p] = "none" /\ r7'[p] = Auth!NoSession /\ r8'[p] = Auth!NoResp /\ r9'[p] = 0
  BY DEF Auth!End, Auth!TypeOK
<1>2. \A q \in Cmds : q # p => Same(q)
  BY DEF Auth!End, Auth!TypeOK, Same
<1>3. r4' \in Nat /\ Auth!NoSession' = Auth!NoSession /\ Auth!NoResp' = Auth!NoResp
  BY AuthAssumption DEF Auth!TypeOK, Auth!NoSession, Auth!NoResp, Auth!TokenResponse
<1> QED
  BY <1>1, <1>2, <1>3 DEF Auth!Shaped

\* Every step leaves a command with what belongs to where it is.
LEMMA AuthShapeStep ==
  Auth!IInv /\ [Auth!Next]_(Auth!vars) /\ Auth!TypeOK'
  => ((r1 = Auth!NoSession \/ r1.rt # 0) /\ \A q \in Cmds : Auth!Shaped(q))'
<1> SUFFICES ASSUME Auth!IInv, [Auth!Next]_(Auth!vars), Auth!TypeOK'
             PROVE  ((r1 = Auth!NoSession \/ r1.rt # 0) /\ \A q \in Cmds : Auth!Shaped(q))'
  OBVIOUS
<1>a. Auth!TypeOK /\ (r1 = Auth!NoSession \/ r1.rt # 0) /\ \A q \in Cmds : Auth!Shaped(q)
  BY DEF Auth!IInv
<1>b. MaxTime \in Nat /\ r4 \in Nat
  BY <1>a, AuthAssumption DEF Auth!TypeOK
<1>c. Auth!NoSession' = Auth!NoSession /\ Auth!NoResp' = Auth!NoResp
  BY DEF Auth!NoSession, Auth!NoResp, Auth!TokenResponse
<1>1. ASSUME NEW p \in Cmds, Auth!LoginStart(p) PROVE ((r1 = Auth!NoSession \/ r1.rt # 0) /\ \A q \in Cmds : Auth!Shaped(q))'
  <2>1. r4' = r4 /\ (UNCHANGED r1)
    BY <1>1 DEF Auth!LoginStart, Auth!Begin
  <2>2. \A q \in Cmds : q # p => Same(q)
    BY <1>1, <1>a DEF Same, Auth!TypeOK, Auth!LoginStart, Auth!Begin
  <2>3. Auth!Shaped(p)'
    BY <1>1, <1>a, <1>b, <1>c DEF Auth!Shaped, Auth!TypeOK, Auth!LoginStart, Auth!Begin
  <2>4. \A q \in Cmds : Auth!Shaped(q)'
    BY <1>a, <1>b, <2>1, <2>2, <2>3, ShapedFrame
  <2> QED
    BY <1>a, <1>c, <2>1, <2>4
<1>2. ASSUME NEW p \in Cmds, Auth!Callback(p) PROVE ((r1 = Auth!NoSession \/ r1.rt # 0) /\ \A q \in Cmds : Auth!Shaped(q))'
  <2>1. UNCHANGED <<r1, r4>>
    BY <1>2 DEF Auth!Callback
  <2>2. CASE Auth!End(p)
    BY <1>a, <1>b, <1>c, <2>1, <2>2, EndShaped, ShapedFrame
  <2>3. CASE r5[p] = "wait" /\ Auth!Step(p, "exchange") /\ UNCHANGED <<r7, r8, r9>>
    <3>1. \A q \in Cmds : q # p => Same(q)
      BY <2>3, <1>a DEF Same, Auth!TypeOK, Auth!Step
    <3>2. Auth!Shaped(p)'
      BY <1>2, <1>a, <1>b, <1>c, <2>1, <2>3 DEF Auth!Shaped, Auth!TypeOK, Auth!Step
    <3> QED
      BY <1>a, <1>b, <1>c, <2>1, <3>1, <3>2, ShapedFrame
  <2> QED
    BY <1>2, <2>2, <2>3 DEF Auth!Callback
<1>3. ASSUME NEW p \in Cmds, Auth!ExchangeCode(p) PROVE ((r1 = Auth!NoSession \/ r1.rt # 0) /\ \A q \in Cmds : Auth!Shaped(q))'
  <2>1. UNCHANGED <<r1, r4>>
    BY <1>3 DEF Auth!ExchangeCode
  <2>2. CASE Auth!End(p)
    BY <1>a, <1>b, <1>c, <2>1, <2>2, EndShaped, ShapedFrame
  <2>3. CASE r5[p] = "exchange" /\ Auth!Step(p, "check") /\ UNCHANGED <<r7, r9>> /\ \E x : r8' = [r8 EXCEPT ![p] = x]
    <3>1. \A q \in Cmds : q # p => Same(q)
      BY <2>3, <1>a DEF Same, Auth!TypeOK, Auth!Step
    <3>2. Auth!Shaped(p)'
      BY <1>3, <1>a, <1>b, <1>c, <2>1, <2>3 DEF Auth!Shaped, Auth!TypeOK, Auth!Step
    <3> QED
      BY <1>a, <1>b, <1>c, <2>1, <3>1, <3>2, ShapedFrame
  <2> QED
    BY <1>3, <2>2, <2>3 DEF Auth!ExchangeCode
<1>4. ASSUME NEW p \in Cmds, Auth!CheckLogin(p) PROVE ((r1 = Auth!NoSession \/ r1.rt # 0) /\ \A q \in Cmds : Auth!Shaped(q))'
  <2>1. UNCHANGED <<r1, r4>>
    BY <1>4 DEF Auth!CheckLogin
  <2>2. CASE Auth!End(p)
    BY <1>a, <1>b, <1>c, <2>1, <2>2, EndShaped, ShapedFrame
  <2>3. CASE r5[p] = "check" /\ r8[p].rt # 0 /\ r7' = [r7 EXCEPT ![p] = [rt |-> r8[p].rt, exp |-> r8[p].exp]] /\ Auth!Step(p, "put") /\ UNCHANGED <<r8, r9>>
    <3>1. \A q \in Cmds : q # p => Same(q)
      BY <2>3, <1>a DEF Same, Auth!TypeOK, Auth!Step
    <3>2. Auth!Shaped(p)'
      BY <1>4, <1>a, <1>b, <1>c, <2>1, <2>3 DEF Auth!Shaped, Auth!TypeOK, Auth!Step
    <3> QED
      BY <1>a, <1>b, <1>c, <2>1, <3>1, <3>2, ShapedFrame
  <2> QED
    BY <1>4, <2>2, <2>3 DEF Auth!CheckLogin
<1>5. ASSUME NEW p \in Cmds, Auth!ResolveStart(p) PROVE ((r1 = Auth!NoSession \/ r1.rt # 0) /\ \A q \in Cmds : Auth!Shaped(q))'
  <2>1. r4' = r4 /\ (UNCHANGED r1)
    BY <1>5 DEF Auth!ResolveStart, Auth!Begin
  <2>2. \A q \in Cmds : q # p => Same(q)
    BY <1>5, <1>a DEF Same, Auth!TypeOK, Auth!ResolveStart, Auth!Begin
  <2>3. Auth!Shaped(p)'
    BY <1>5, <1>a, <1>b, <1>c DEF Auth!Shaped, Auth!TypeOK, Auth!ResolveStart, Auth!Begin
  <2>4. \A q \in Cmds : Auth!Shaped(q)'
    BY <1>a, <1>b, <2>1, <2>2, <2>3, ShapedFrame
  <2> QED
    BY <1>a, <1>c, <2>1, <2>4
<1>6. ASSUME NEW p \in Cmds, Auth!Refresh(p) PROVE ((r1 = Auth!NoSession \/ r1.rt # 0) /\ \A q \in Cmds : Auth!Shaped(q))'
  <2>1. UNCHANGED <<r1, r4, r6, r7, r9>> /\ r5[p] = "refresh" /\ (Auth!Step(p, "revalidate") \/ Auth!Step(p, "drop"))
    BY <1>6 DEF Auth!Refresh, Auth!Step
  <2>2. r5'[p] \in {"revalidate", "drop"} /\ \A q \in Cmds : q # p => r5'[q] = r5[q]
    BY <1>a, <2>1 DEF Auth!TypeOK, Auth!Step
  <2>3. \A q \in Cmds : q # p => r8'[q] = r8[q]
    <3>1. UNCHANGED r8 \/ \E x : r8' = [r8 EXCEPT ![p] = x]
      BY <1>6 DEF Auth!Refresh
    <3> QED
      BY <1>a, <3>1 DEF Auth!TypeOK
  <2>4. \A q \in Cmds : q # p => Same(q)
    BY <2>1, <2>2, <2>3 DEF Same
  <2>5. Auth!Shaped(p)'
    BY <1>a, <1>b, <1>c, <2>1, <2>2 DEF Auth!Shaped
  <2> QED
    BY <1>a, <1>b, <1>c, <2>1, <2>4, <2>5, ShapedFrame
<1>7. ASSUME NEW p \in Cmds, Auth!CheckRefresh(p) PROVE ((r1 = Auth!NoSession \/ r1.rt # 0) /\ \A q \in Cmds : Auth!Shaped(q))'
  <2>1. UNCHANGED <<r1, r4, r6, r8, r9>> /\ r5[p] = "revalidate"
    BY <1>7 DEF Auth!CheckRefresh, Auth!Step
  <2>2. \/ Auth!Step(p, "put") /\ r7' = [r7 EXCEPT ![p] = Auth!RefreshedSession(r7[p], r8[p])]
        \/ Auth!Step(p, "drop") /\ UNCHANGED r7
    BY <1>7 DEF Auth!CheckRefresh
  <2>3. Auth!RefreshedSession(r7[p], r8[p]).rt # 0
    BY <1>a, <2>1 DEF Auth!Shaped, Auth!RefreshedSession
  <2>4. r5'[p] \in {"put", "drop"} /\ r7'[p].rt # 0 /\ \A q \in Cmds : q # p => Same(q)
    BY <1>a, <2>1, <2>2, <2>3 DEF Auth!TypeOK, Auth!Step, Same, Auth!Shaped
  <2>5. Auth!Shaped(p)'
    BY <1>a, <1>b, <1>c, <2>1, <2>4 DEF Auth!Shaped
  <2> QED
    BY <1>a, <1>b, <1>c, <2>1, <2>4, <2>5, ShapedFrame
<1>8. ASSUME NEW p \in Cmds, Auth!DeleteInvalid(p) PROVE ((r1 = Auth!NoSession \/ r1.rt # 0) /\ \A q \in Cmds : Auth!Shaped(q))'
  <2>1. r4' = r4 /\ Auth!End(p) /\ (r1' = r1 \/ r1' = Auth!NoSession)
    BY <1>8 DEF Auth!DeleteInvalid, Auth!Fault, Auth!NoFault
  <2>2. \A q \in Cmds : Auth!Shaped(q)'
    BY <1>a, <1>b, <2>1, EndShaped, ShapedFrame
  <2> QED
    BY <1>a, <1>c, <2>1, <2>2 DEF Auth!Shaped
<1>9. ASSUME NEW p \in Cmds, Auth!PutSession(p) PROVE ((r1 = Auth!NoSession \/ r1.rt # 0) /\ \A q \in Cmds : Auth!Shaped(q))'
  <2>1. r4' = r4 /\ Auth!End(p) /\ (r5[p] = "put" /\ (r1' = r1 \/ r1' = r7[p]))
    BY <1>9 DEF Auth!PutSession, Auth!Fault, Auth!NoFault
  <2>2. \A q \in Cmds : Auth!Shaped(q)'
    BY <1>a, <1>b, <2>1, EndShaped, ShapedFrame
  <2> QED
    BY <1>a, <1>c, <2>1, <2>2 DEF Auth!Shaped
<1>10. ASSUME NEW p \in Cmds, Auth!LogoutStart(p) PROVE ((r1 = Auth!NoSession \/ r1.rt # 0) /\ \A q \in Cmds : Auth!Shaped(q))'
  <2>1. CASE /\ UNCHANGED <<r1, r4, r8, r9>> /\ r1 # Auth!NoSession /\ r5[p] = "idle"
             /\ r6' = [r6 EXCEPT ![p] = "logout"] /\ r7' = [r7 EXCEPT ![p] = r1]
             /\ \E l \in {"revoke", "delete"} : r5' = [r5 EXCEPT ![p] = l]
    <3>1. r5'[p] \in {"revoke", "delete"} /\ r6'[p] = "logout" /\ r7'[p] = r1
          /\ \A q \in Cmds : q # p => Same(q)
      BY <1>a, <2>1 DEF Auth!TypeOK, Same
    <3>2. Auth!Shaped(p)'
      BY <1>a, <1>b, <1>c, <2>1, <3>1 DEF Auth!Shaped
    <3> QED
      BY <1>a, <1>b, <1>c, <2>1, <3>1, <3>2, ShapedFrame
  <2>2. CASE UNCHANGED <<r1, r4, r5, r6, r7, r8, r9>>
    <3>1. \A q \in Cmds : Same(q)
      BY <2>2 DEF Same
    <3> QED
      BY <1>a, <1>b, <1>c, <2>2, <3>1, ShapedFrame
  <2> QED
    BY <1>10, <2>1, <2>2 DEF Auth!LogoutStart, Auth!Begin
<1>11. ASSUME NEW p \in Cmds, Auth!Revoke(p) PROVE ((r1 = Auth!NoSession \/ r1.rt # 0) /\ \A q \in Cmds : Auth!Shaped(q))'
  <2>1. r4' = r4 /\ (UNCHANGED r1)
    BY <1>11 DEF Auth!Revoke, Auth!RevokeDone, Auth!Step, Auth!Fault, Auth!NoFault
  <2>2. \A q \in Cmds : q # p => Same(q)
    BY <1>11, <1>a DEF Same, Auth!TypeOK, Auth!Revoke, Auth!RevokeDone, Auth!Step, Auth!Fault, Auth!NoFault
  <2>3. Auth!Shaped(p)'
    BY <1>11, <1>a, <1>b, <1>c DEF Auth!Shaped, Auth!TypeOK, Auth!Revoke, Auth!RevokeDone, Auth!Step, Auth!Fault, Auth!NoFault
  <2>4. \A q \in Cmds : Auth!Shaped(q)'
    BY <1>a, <1>b, <2>1, <2>2, <2>3, ShapedFrame
  <2> QED
    BY <1>a, <1>c, <2>1, <2>4
<1>12. ASSUME NEW p \in Cmds, Auth!DeleteSession(p) PROVE ((r1 = Auth!NoSession \/ r1.rt # 0) /\ \A q \in Cmds : Auth!Shaped(q))'
  <2>1. r4' = r4 /\ Auth!End(p) /\ (r1' = r1 \/ r1' = Auth!NoSession)
    BY <1>12 DEF Auth!DeleteSession, Auth!Fault, Auth!NoFault
  <2>2. \A q \in Cmds : Auth!Shaped(q)'
    BY <1>a, <1>b, <2>1, EndShaped, ShapedFrame
  <2> QED
    BY <1>a, <1>c, <2>1, <2>2 DEF Auth!Shaped
<1>13. ASSUME NEW p \in Cmds, Auth!Interrupt(p) PROVE ((r1 = Auth!NoSession \/ r1.rt # 0) /\ \A q \in Cmds : Auth!Shaped(q))'
  <2>1. r4' = r4 /\ Auth!End(p) /\ (r1' = r1)
    BY <1>13 DEF Auth!Interrupt, Auth!Fault
  <2>2. \A q \in Cmds : Auth!Shaped(q)'
    BY <1>a, <1>b, <2>1, EndShaped, ShapedFrame
  <2> QED
    BY <1>a, <1>c, <2>1, <2>2 DEF Auth!Shaped
<1>14. CASE Auth!Tick
  <2>1. UNCHANGED r1 /\ r4 <= r4' /\ \A q \in Cmds : Same(q)
    BY <1>14, <1>b DEF Auth!Tick, Same
  <2> QED
    BY <1>a, <1>c, <2>1, ShapedFrame
<1>15. CASE UNCHANGED Auth!vars
  <2>1. UNCHANGED r1 /\ r4 <= r4' /\ \A q \in Cmds : Same(q)
    BY <1>15, <1>b DEF Auth!vars, Same
  <2> QED
    BY <1>a, <1>c, <2>1, ShapedFrame
<1> QED
  BY <1>1, <1>2, <1>3, <1>4, <1>5, <1>6, <1>7, <1>8, <1>9, <1>10, <1>11, <1>12, <1>13, <1>14, <1>15
     DEF Auth!Next

\* A command that begins without an excuse does not meet a logout, nor a refresh token
\* that Google no longer honours.
LEMMA BeginQuiet ==
  ASSUME NEW p \in Cmds, NEW o, NEW l, Auth!Begin(p, o, l), ~r13', Auth!TypeOK
  PROVE  /\ ~r13 /\ r5[p] = "idle" /\ UNCHANGED <<r1, r2>>
         /\ r5' = [r5 EXCEPT ![p] = l] /\ r6' = [r6 EXCEPT ![p] = o]
         /\ \A q \in Cmds : q # p /\ r5[q] # "idle" =>
              o # "logout" /\ r6[q] # "logout" /\ Auth!Usable(r1) /\ Auth!Usable(r7[q])
<1>1. /\ r13' = (r13 \/ \E q \in Auth!Others(p) :
                          \/ "logout" \in {o, r6[q]}
                          \/ \E s \in {r1, r7[q]} : s # Auth!NoSession /\ s.rt \notin r2)
      /\ r5[p] = "idle" /\ UNCHANGED <<r1, r2>>
      /\ r5' = [r5 EXCEPT ![p] = l] /\ r6' = [r6 EXCEPT ![p] = o]
  BY DEF Auth!Begin
<1>2. ~r13 /\ \A q \in Auth!Others(p) : ~("logout" \in {o, r6[q]})
                                        /\ \A s \in {r1, r7[q]} : ~(s # Auth!NoSession /\ s.rt \notin r2)
  BY <1>1
<1>3. \A q \in Cmds : q # p /\ r5[q] # "idle" => q \in Auth!Others(p)
  BY DEF Auth!Others
<1> QED
  BY <1>1, <1>2, <1>3 DEF Auth!Usable


\* The empty session and the empty response are constants, and 0 is not a token.
LEMMA AuthConstants ==
  /\ Auth!NoSession' = Auth!NoSession /\ Auth!NoSession.rt = 0 /\ Auth!NoResp.rt = 0
  /\ Auth!TypeOK => 0 \notin r2
<1>1. Auth!NoSession' = Auth!NoSession /\ Auth!NoSession.rt = 0
  BY DEF Auth!NoSession
<1>2. Auth!NoResp.rt = 0
  BY DEF Auth!NoResp, Auth!TokenResponse
<1>3. Auth!TypeOK => 0 \notin r2
  BY DEF Auth!TypeOK
<1> QED
  BY <1>1, <1>2, <1>3

\* No command next to p logs out, and the sessions of those under way are usable.
Met(p) ==
  \A q \in Cmds : q # p =>
    /\ r6[q] # "logout"
    /\ r5[q] # "idle" => Auth!Usable(r1) /\ Auth!Usable(r7[q])

\* Without an excuse, a command under way that does not log out meets only such commands.
LEMMA ActiveMet ==
  ASSUME NEW p \in Cmds, Auth!Guarded, \A q \in Cmds : Auth!Shaped(q), r5[p] # "idle"
  PROVE  /\ Met(p)
         /\ \A q \in Cmds : q # p /\ r5[q] # "idle" => Auth!Usable(r7[p])
<1>1. ASSUME NEW q \in Cmds, q # p PROVE r6[q] # "logout"
  <2>1. Auth!LogoutAlone(q)
    BY DEF Auth!Guarded
  <2> QED
    BY <1>1, <2>1 DEF Auth!LogoutAlone
<1>2. ASSUME NEW q \in Cmds, q # p, r5[q] # "idle"
      PROVE  Auth!Usable(r1) /\ Auth!Usable(r7[q]) /\ Auth!Usable(r7[p])
  <2>1. Auth!OverlapUsable(p, q) /\ Auth!OverlapUsable(q, p)
    BY DEF Auth!Guarded
  <2> QED
    BY <1>2, <2>1 DEF Auth!OverlapUsable
<1> QED
  BY <1>1, <1>2 DEF Met

\* The tokens of a command that is left alone stay honoured, when none is withdrawn
\* and the session it holds is usable.
LEMMA TokensFrame ==
  ASSUME NEW q \in Cmds, Auth!TypeOK, Auth!TokensHonoured(q), Auth!Shaped(q), Same(q),
         r5[q] # "idle" => r2 \subseteq r2' /\ Auth!Usable(r7[q])
  PROVE  Auth!TokensHonoured(q)'
<1>1. r5'[q] = r5[q] /\ r7'[q] = r7[q] /\ r8'[q] = r8[q] /\ r9'[q] = r9[q]
  BY DEF Same
<1>2. CASE r5[q] = "idle"
  BY <1>1, <1>2 DEF Auth!TokensHonoured
<1>3. CASE r5[q] # "idle"
  <2>0. r2 \subseteq r2' /\ (r7[q].rt # 0 => r7[q].rt \in r2)
    BY <1>3, AuthConstants DEF Auth!Usable
  <2>1. (r5[q] = "check" => r8[q].rt \in r2' \cup {0}) /\ (r5[q] = "put" => r7[q].rt \in r2')
    BY <2>0 DEF Auth!TokensHonoured
  <2>2. r5[q] = "revalidate" => /\ r8[q].id = "ok" /\ r8[q].exp > r9[q]
                                /\ IF r8[q].rt = 0 THEN r7[q].rt \in r2 ELSE r8[q].rt \in r2
    BY DEF Auth!TokensHonoured
  <2>3. r5[q] = "revalidate" => IF r8[q].rt = 0 THEN r7[q].rt \in r2' ELSE r8[q].rt \in r2'
    BY <2>0, <2>2
  <2>4. r5[q] # "drop"
    <3>1. r5[q] = "drop" => r6[q] = "resolve" /\ r7[q].rt \notin r2
      BY DEF Auth!TokensHonoured, Auth!Shaped
    <3>2. r6[q] = "resolve" => r7[q].rt # 0
      BY DEF Auth!Shaped
    <3> QED
      BY <2>0, <3>1, <3>2
  <2>5. r5[q] = "refresh" => r7[q].rt \in r2'
    BY <2>0 DEF Auth!Shaped
  <2> QED
    BY <1>1, <1>3, <2>1, <2>2, <2>3, <2>4, <2>5 DEF Auth!TokensHonoured
<1> QED
  BY <1>2, <1>3

\* What command p has to show so that its step keeps the guard: the other commands
\* are left alone, and so is what they rely on.
LEMMA GuardedFrame ==
  ASSUME NEW p \in Cmds, Auth!TypeOK, Auth!Guarded, \A q \in Cmds : Auth!Shaped(q), Met(p),
         \A q \in Cmds : q # p => Same(q),
         Auth!LogoutAlone(p)', Auth!TokensHonoured(p)',
         \A q \in Cmds : q # p /\ r5[q] # "idle" =>
           r2 \subseteq r2' /\ Auth!Usable(r1)' /\ (r5'[p] # "idle" => Auth!Usable(r7[p])'),
         Auth!SessionKept'
  PROVE  Auth!Guarded'
<1>1. ASSUME NEW q \in Cmds, q # p PROVE Auth!LogoutAlone(q)' /\ Auth!TokensHonoured(q)'
  <2>1. Auth!TokensHonoured(q) /\ Auth!Shaped(q) /\ Same(q) /\ r6[q] # "logout"
    BY <1>1 DEF Auth!Guarded, Met
  <2>2. r5[q] # "idle" => r2 \subseteq r2' /\ Auth!Usable(r7[q])
    BY <1>1 DEF Met
  <2>3. Auth!TokensHonoured(q)'
    BY <2>1, <2>2, TokensFrame
  <2>4. Auth!LogoutAlone(q)'
    BY <2>1 DEF Auth!LogoutAlone, Same
  <2> QED
    BY <2>3, <2>4
<1>2. ASSUME NEW q \in Cmds, q # p, r5[q] # "idle" PROVE Auth!Usable(r7[q])'
  <2>1. Auth!Usable(r7[q]) /\ r2 \subseteq r2' /\ r7'[q] = r7[q]
    BY <1>2 DEF Met, Same
  <2> QED
    BY <2>1, AuthConstants DEF Auth!Usable
<1>3. ASSUME NEW q \in Cmds, NEW k \in Cmds PROVE Auth!OverlapUsable(q, k)'
  <2> SUFFICES ASSUME q # k, r5'[q] # "idle", r5'[k] # "idle"
               PROVE  Auth!Usable(r1)' /\ Auth!Usable(r7[q])'
    BY DEF Auth!OverlapUsable
  <2>1. CASE q = p
    <3>1. r5[k] # "idle"
      BY <2>1 DEF Same
    <3> QED
      BY <2>1, <3>1
  <2>2. CASE q # p
    <3>1. r5[q] # "idle"
      BY <2>2 DEF Same
    <3> QED
      BY <2>2, <3>1, <1>2
  <2> QED
    BY <2>1, <2>2
<1>4. \A q \in Cmds : Auth!LogoutAlone(q)' /\ Auth!TokensHonoured(q)'
  BY <1>1
<1> QED
  BY <1>3, <1>4 DEF Auth!Guarded

\* The session stays while the store does, no token is withdrawn, and p gives up no
\* replaced token.
LEMMA KeptFrame ==
  ASSUME NEW p \in Cmds, Auth!SessionKept, ~r13, r1' = r1, r2 \subseteq r2', r12' = "in" => r12 = "in",
         \A q \in Cmds : q # p => Same(q),
         r12 = "in" /\ r6[p] = "resolve" /\ r8[p].rt \in r2 => r6'[p] = r6[p] /\ r8'[p] = r8[p]
  PROVE  Auth!SessionKept'
<1> SUFFICES ASSUME r12' = "in"
             PROVE  r1' # Auth!NoSession'
                    /\ (r1'.rt \in r2' \/ \E q \in Cmds : r6'[q] = "resolve" /\ r8'[q].rt \in r2')
  BY DEF Auth!SessionKept
<1>1. r1 # Auth!NoSession /\ (r1.rt \in r2 \/ \E q \in Cmds : r6[q] = "resolve" /\ r8[q].rt \in r2)
  BY DEF Auth!SessionKept
<1>2. CASE r1.rt \in r2
  BY <1>1, <1>2, AuthConstants
<1>3. CASE \E q \in Cmds : r6[q] = "resolve" /\ r8[q].rt \in r2
  <2>1. PICK q \in Cmds : r6[q] = "resolve" /\ r8[q].rt \in r2
    BY <1>3
  <2>2. r6'[q] = r6[q] /\ r8'[q] = r8[q]
    BY <2>1 DEF Same
  <2> QED
    BY <1>1, <2>1, <2>2, AuthConstants
<1> QED
  BY <1>1, <1>2, <1>3

\* A command that ends without having changed the store.
LEMMA EndGuarded ==
  ASSUME NEW p \in Cmds, Auth!TypeOK, Auth!TypeOK', Auth!Guarded, ~r13, \A q \in Cmds : Auth!Shaped(q),
         r5[p] # "idle", Auth!End(p), UNCHANGED <<r1, r2, r12>>,
         ~(r12 = "in" /\ r6[p] = "resolve" /\ r8[p].rt \in r2)
  PROVE  Auth!Guarded'
<1>1. r5'[p] = "idle" /\ r6'[p] = "none" /\ \A q \in Cmds : q # p => Same(q)
  BY EndShaped
<1>2. Met(p)
  BY ActiveMet
<1>3. Auth!LogoutAlone(p)' /\ Auth!TokensHonoured(p)'
  BY <1>1 DEF Auth!LogoutAlone, Auth!TokensHonoured
<1>4. ASSUME NEW q \in Cmds, q # p, r5[q] # "idle" PROVE Auth!Usable(r1)'
  BY <1>2, <1>4, AuthConstants DEF Met, Auth!Usable
<1>5. Auth!SessionKept'
  <2>1. Auth!SessionKept
    BY DEF Auth!Guarded
  <2> QED
    BY <1>1, <2>1, KeptFrame
<1> QED
  BY <1>1, <1>2, <1>3, <1>4, <1>5, GuardedFrame

\* A command begins: what the other commands rely on is kept, and so is the session.
LEMMA BeginMet ==
  ASSUME NEW p \in Cmds, NEW o, NEW l, Auth!Begin(p, o, l), ~r13', Auth!TypeOK, Auth!TypeOK',
         Auth!Guarded, \A q \in Cmds : Auth!Shaped(q),
         \A q \in Cmds : q # p => r7'[q] = r7[q] /\ r8'[q] = r8[q] /\ r9'[q] = r9[q],
         r12' = "in" => r12 = "in"
  PROVE  /\ Met(p) /\ (\A q \in Cmds : q # p => Same(q)) /\ Auth!SessionKept'
         /\ \A q \in Cmds : q # p /\ r5[q] # "idle" => Auth!Usable(r1)'
<1>1. /\ ~r13 /\ r5[p] = "idle" /\ UNCHANGED <<r1, r2>>
      /\ r5' = [r5 EXCEPT ![p] = l] /\ r6' = [r6 EXCEPT ![p] = o]
      /\ \A q \in Cmds : q # p /\ r5[q] # "idle" =>
           o # "logout" /\ r6[q] # "logout" /\ Auth!Usable(r1) /\ Auth!Usable(r7[q])
  BY BeginQuiet
<1>2. \A q \in Cmds : q # p => r5'[q] = r5[q] /\ r6'[q] = r6[q]
  BY <1>1 DEF Auth!TypeOK
<1>3. \A q \in Cmds : q # p => Same(q)
  BY <1>2 DEF Same
<1>4. Met(p)
  BY <1>1 DEF Met, Auth!Shaped
<1>5. Auth!SessionKept'
  <2>1. Auth!SessionKept /\ r6[p] = "none"
    BY <1>1 DEF Auth!Guarded, Auth!Shaped
  <2> QED
    BY <1>1, <1>3, <2>1, KeptFrame
<1>6. ASSUME NEW q \in Cmds, q # p, r5[q] # "idle" PROVE Auth!Usable(r1)'
  BY <1>1, <1>6, AuthConstants DEF Auth!Usable
<1> QED
  BY <1>3, <1>4, <1>5, <1>6

\* A command that goes on to label l, leaving the store and the user's achievement alone.
LEMMA StepGuarded ==
  ASSUME NEW p \in Cmds, NEW l, Auth!TypeOK, Auth!TypeOK', Auth!Guarded, ~r13,
         \A q \in Cmds : Auth!Shaped(q), r5[p] # "idle", r6[p] # "logout", Auth!Step(p, l), l # "idle",
         UNCHANGED <<r1, r12>>, r2 \subseteq r2',
         \A q \in Cmds : q # p => r7'[q] = r7[q] /\ r8'[q] = r8[q] /\ r9'[q] = r9[q],
         r12 = "in" /\ r6[p] = "resolve" /\ r8[p].rt \in r2 => r8'[p] = r8[p],
         Auth!TokensHonoured(p)',
         (\A q \in Cmds : q # p /\ r5[q] # "idle" => Auth!Usable(r7[p])) => Auth!Usable(r7[p])' \/ UNCHANGED r7
  PROVE  Auth!Guarded'
<1>1. r5' = [r5 EXCEPT ![p] = l] /\ r6' = r6
  BY DEF Auth!Step
<1>2. \A q \in Cmds : q # p => Same(q)
  BY <1>1 DEF Auth!TypeOK, Same
<1>3. /\ Met(p)
      /\ \A q \in Cmds : q # p /\ r5[q] # "idle" => Auth!Usable(r7[p])
  BY ActiveMet
<1>4. Auth!LogoutAlone(p)'
  BY <1>1 DEF Auth!LogoutAlone
<1>5. ASSUME NEW q \in Cmds, q # p, r5[q] # "idle" PROVE Auth!Usable(r1)' /\ Auth!Usable(r7[p])'
  <2>1. Auth!Usable(r1) /\ Auth!Usable(r7[p])
    BY <1>3, <1>5 DEF Met
  <2> QED
    BY <1>3, <2>1, AuthConstants DEF Auth!Usable
<1>6. Auth!SessionKept'
  <2>1. Auth!SessionKept
    BY DEF Auth!Guarded
  <2> QED
    BY <1>1, <1>2, <2>1, KeptFrame
<1> QED
  BY <1>2, <1>3, <1>4, <1>5, <1>6, GuardedFrame

\* Every step of a command keeps what SessionKept rests on.
LEMMA AuthGuardStep ==
  Auth!IInv /\ [Auth!Next]_(Auth!vars) /\ Auth!TypeOK' /\ ~r13'
  => Auth!Guarded'
<1> SUFFICES ASSUME Auth!IInv, [Auth!Next]_(Auth!vars), Auth!TypeOK', ~r13'
             PROVE  Auth!Guarded'
  OBVIOUS
<1>a. Auth!TypeOK /\ (\A q \in Cmds : Auth!Shaped(q)) /\ Life \in Nat \ {0}
  BY AuthAssumption DEF Auth!IInv
<1>b. ~r13 => Auth!Guarded
  BY DEF Auth!IInv
<1>c. r3 \in Nat /\ r4 \in Nat /\ \A q \in Cmds : r9[q] \in Nat
  BY <1>a, AuthAssumption DEF Auth!TypeOK
<1>1. ASSUME NEW p \in Cmds, Auth!LoginStart(p) PROVE Auth!Guarded'
  <2>1. Auth!Begin(p, "login", "wait") /\ UNCHANGED <<r7, r8, r9>> /\ (r12' = "in" => r12 = "in")
    BY <1>1 DEF Auth!LoginStart
  <2>2. ~r13 /\ r5[p] = "idle" /\ r5' = [r5 EXCEPT ![p] = "wait"] /\ r6' = [r6 EXCEPT ![p] = "login"]
        /\ UNCHANGED <<r1, r2>>
    BY <1>a, <2>1, BeginQuiet
  <2>3. Auth!Guarded
    BY <1>b, <2>2
  <2>4. /\ Met(p) /\ (\A q \in Cmds : q # p => Same(q)) /\ Auth!SessionKept'
        /\ \A q \in Cmds : q # p /\ r5[q] # "idle" => Auth!Usable(r1)'
    BY <1>a, <2>1, <2>3, BeginMet
  <2>5. r5'[p] = "wait" /\ r6'[p] = "login" /\ r7'[p] = Auth!NoSession
    BY <1>a, <2>1, <2>2 DEF Auth!TypeOK, Auth!Shaped
  <2>6. Auth!LogoutAlone(p)' /\ Auth!TokensHonoured(p)' /\ Auth!Usable(r7[p])'
    BY <2>1, <2>5, AuthConstants DEF Auth!LogoutAlone, Auth!TokensHonoured, Auth!Usable
  <2> QED
    BY <1>a, <2>1, <2>2, <2>3, <2>4, <2>6, GuardedFrame
<1>2. ASSUME NEW p \in Cmds, Auth!Callback(p) PROVE Auth!Guarded'
  <2>1. r5[p] = "wait" /\ UNCHANGED <<r1, r2, r12, r13>>
        /\ ((Auth!Step(p, "exchange") /\ UNCHANGED <<r7, r8, r9>>) \/ Auth!End(p))
    BY <1>2 DEF Auth!Callback
  <2>2. ~r13 /\ Auth!Guarded /\ r6[p] = "login"
    BY <1>a, <1>b, <2>1 DEF Auth!Shaped
  <2>3. CASE Auth!End(p)
    BY <1>a, <2>1, <2>2, <2>3, EndGuarded
  <2>4. CASE Auth!Step(p, "exchange") /\ UNCHANGED <<r7, r8, r9>>
    <3>1. r5'[p] = "exchange"
      BY <1>a, <2>4 DEF Auth!Step, Auth!TypeOK
    <3>2. Auth!TokensHonoured(p)'
      BY <3>1 DEF Auth!TokensHonoured
    <3> QED
      BY <1>a, <2>1, <2>2, <2>4, <3>2, StepGuarded
  <2> QED
    BY <2>1, <2>3, <2>4
<1>3. ASSUME NEW p \in Cmds, Auth!ExchangeCode(p) PROVE Auth!Guarded'
  <2>1. r5[p] = "exchange" /\ UNCHANGED <<r1, r12, r13>>
    BY <1>3 DEF Auth!ExchangeCode
  <2>2. ~r13 /\ Auth!Guarded /\ r6[p] = "login"
    BY <1>a, <1>b, <2>1 DEF Auth!Shaped
  <2>3. CASE UNCHANGED r2 /\ Auth!End(p)
    BY <1>a, <2>1, <2>2, <2>3, EndGuarded
  <2>4. ASSUME NEW x, r8' = [r8 EXCEPT ![p] = x], r2 \subseteq r2', x.rt \in r2' \cup {0},
               Auth!Step(p, "check"), UNCHANGED <<r7, r9>>
        PROVE  Auth!Guarded'
    <3>1. r5'[p] = "check" /\ r8'[p] = x /\ \A q \in Cmds : q # p => r8'[q] = r8[q]
      BY <1>a, <2>4 DEF Auth!Step, Auth!TypeOK
    <3>2. Auth!TokensHonoured(p)'
      BY <2>4, <3>1 DEF Auth!TokensHonoured
    <3> QED
      BY <1>a, <2>1, <2>2, <2>4, <3>1, <3>2, StepGuarded
  <2>5. CASE /\ r2' = r2 \cup {r3 + 1} /\ r8' = [r8 EXCEPT ![p] = Auth!TokenResponse("ok", r3 + 1, r4 + Life, p)]
             /\ Auth!Step(p, "check") /\ UNCHANGED <<r7, r9>>
    <3>1. Auth!TokenResponse("ok", r3 + 1, r4 + Life, p).rt = r3 + 1
      BY DEF Auth!TokenResponse
    <3> QED
      BY <2>4, <2>5, <3>1
  <2>6. ASSUME NEW id, UNCHANGED r2, r8' = [r8 EXCEPT ![p] = Auth!TokenResponse(id, 0, r4 + Life, p)],
               Auth!Step(p, "check"), UNCHANGED <<r7, r9>>
        PROVE  Auth!Guarded'
    <3>1. Auth!TokenResponse(id, 0, r4 + Life, p).rt = 0
      BY DEF Auth!TokenResponse
    <3> QED
      BY <2>4, <2>6, <3>1
  <2> QED
    BY <1>3, <2>3, <2>5, <2>6 DEF Auth!ExchangeCode
<1>4. ASSUME NEW p \in Cmds, Auth!CheckLogin(p) PROVE Auth!Guarded'
  <2>1. /\ r5[p] = "check" /\ UNCHANGED <<r1, r2, r12, r13>>
        /\ \/ /\ r8[p].rt # 0 /\ Auth!Step(p, "put") /\ UNCHANGED <<r8, r9>>
              /\ r7' = [r7 EXCEPT ![p] = [rt |-> r8[p].rt, exp |-> r8[p].exp]]
           \/ Auth!End(p)
    BY <1>4 DEF Auth!CheckLogin
  <2>2. ~r13 /\ Auth!Guarded /\ r6[p] = "login"
    BY <1>a, <1>b, <2>1 DEF Auth!Shaped
  <2>3. CASE Auth!End(p)
    BY <1>a, <2>1, <2>2, <2>3, EndGuarded
  <2>4. CASE /\ r8[p].rt # 0 /\ Auth!Step(p, "put") /\ UNCHANGED <<r8, r9>>
             /\ r7' = [r7 EXCEPT ![p] = [rt |-> r8[p].rt, exp |-> r8[p].exp]]
    <3>1. r5'[p] = "put" /\ r7'[p].rt = r8[p].rt /\ \A q \in Cmds : q # p => r7'[q] = r7[q]
      BY <1>a, <2>4 DEF Auth!Step, Auth!TypeOK
    <3>2. r8[p].rt \in r2
      BY <2>1, <2>2, <2>4 DEF Auth!Guarded, Auth!TokensHonoured
    <3>3. Auth!TokensHonoured(p)' /\ Auth!Usable(r7[p])'
      BY <2>1, <3>1, <3>2 DEF Auth!TokensHonoured, Auth!Usable
    <3> QED
      BY <1>a, <2>1, <2>2, <2>4, <3>1, <3>3, StepGuarded
  <2> QED
    BY <2>1, <2>3, <2>4
<1>5. ASSUME NEW p \in Cmds, Auth!ResolveStart(p) PROVE Auth!Guarded'
  <2>1. Auth!Begin(p, "resolve", "refresh") /\ r7' = [r7 EXCEPT ![p] = r1] /\ r9' = [r9 EXCEPT ![p] = r4]
        /\ UNCHANGED <<r8, r12>> /\ r1 # Auth!NoSession
    BY <1>5 DEF Auth!ResolveStart
  <2>2. ~r13 /\ r5[p] = "idle" /\ r5' = [r5 EXCEPT ![p] = "refresh"] /\ r6' = [r6 EXCEPT ![p] = "resolve"]
        /\ UNCHANGED <<r1, r2>>
    BY <1>a, <2>1, BeginQuiet
  <2>3. Auth!Guarded
    BY <1>b, <2>2
  <2>4. r5'[p] = "refresh" /\ r6'[p] = "resolve" /\ r7'[p] = r1
        /\ \A q \in Cmds : q # p => r7'[q] = r7[q] /\ r8'[q] = r8[q] /\ r9'[q] = r9[q]
    BY <1>a, <2>1, <2>2 DEF Auth!TypeOK
  <2>5. /\ Met(p) /\ (\A q \in Cmds : q # p => Same(q)) /\ Auth!SessionKept'
        /\ \A q \in Cmds : q # p /\ r5[q] # "idle" => Auth!Usable(r1)'
    BY <1>a, <2>1, <2>3, <2>4, BeginMet
  <2>6. r12 = "in" => r1.rt \in r2
    <3>1. r12 = "in" => r1.rt \in r2 \/ \E q \in Cmds : r6[q] = "resolve" /\ r8[q].rt \in r2
      BY <2>2, <2>3 DEF Auth!Guarded, Auth!SessionKept
    <3>2. \A q \in Cmds : r6[q] = "resolve" => q # p /\ r5[q] # "idle"
      BY <1>a, <2>2 DEF Auth!Shaped
    <3> QED
      BY <2>1, <2>5, <3>1, <3>2 DEF Met, Auth!Usable
  <2>8. Auth!LogoutAlone(p)' /\ Auth!TokensHonoured(p)'
    BY <2>1, <2>2, <2>4, <2>6 DEF Auth!LogoutAlone, Auth!TokensHonoured
  <2>9. ASSUME NEW q \in Cmds, q # p, r5[q] # "idle" PROVE Auth!Usable(r7[p])'
    BY <2>2, <2>4, <2>5, <2>9, AuthConstants DEF Auth!Usable
  <2> QED
    BY <1>a, <2>1, <2>2, <2>3, <2>5, <2>8, <2>9, GuardedFrame
<1>6. ASSUME NEW p \in Cmds, Auth!Refresh(p) PROVE Auth!Guarded'
  <2>1. r5[p] = "refresh" /\ UNCHANGED <<r1, r4, r7, r9, r12>>
    BY <1>6 DEF Auth!Refresh
  <2>2. r6[p] = "resolve" /\ r8[p].rt = 0 /\ r7[p].rt # 0 /\ r9[p] <= r4
    BY <1>a, <2>1, AuthConstants DEF Auth!Shaped
  <2>3. 0 \notin r2
    BY <1>a, AuthConstants
  <2>4. CASE /\ r7[p].rt \in r2 /\ UNCHANGED <<r2, r13>> /\ Auth!Step(p, "revalidate")
             /\ r8' = [r8 EXCEPT ![p] = Auth!TokenResponse("ok", 0, r4 + Life, "none")]
    <3>1. r5'[p] = "revalidate" /\ r8'[p] = Auth!TokenResponse("ok", 0, r4 + Life, "none")
          /\ \A q \in Cmds : q # p => r8'[q] = r8[q]
      BY <1>a, <2>4 DEF Auth!Step, Auth!TypeOK
    <3>2. r8'[p].id = "ok" /\ r8'[p].rt = 0 /\ r8'[p].exp = r4 + Life
      BY <3>1 DEF Auth!TokenResponse
    <3>3. r8'[p].exp > r9'[p]
      BY <1>a, <1>c, <2>1, <2>2, <3>2
    <3>4. Auth!TokensHonoured(p)'
      BY <2>1, <2>4, <3>1, <3>2, <3>3 DEF Auth!TokensHonoured
    <3> QED
      BY <1>a, <1>b, <2>1, <2>2, <2>3, <2>4, <3>1, <3>4, StepGuarded
  <2>5. CASE /\ r2' = (r2 \ {r7[p].rt}) \cup {r3 + 1} /\ Auth!Step(p, "revalidate")
             /\ r8' = [r8 EXCEPT ![p] = Auth!TokenResponse("ok", r3 + 1, r4 + Life, "none")]
             /\ r13' = (r13 \/ Auth!Others(p) # {})
    <3>1. r5'[p] = "revalidate" /\ r6'[p] = "resolve" /\ (\A q \in Cmds : q # p => Same(q))
          /\ r8'[p] = Auth!TokenResponse("ok", r3 + 1, r4 + Life, "none")
      BY <1>a, <2>1, <2>2, <2>5 DEF Auth!Step, Auth!TypeOK, Same
    <3>2. r8'[p].id = "ok" /\ r8'[p].rt = r3 + 1 /\ r8'[p].exp = r4 + Life
      BY <3>1 DEF Auth!TokenResponse
    <3>3. r8'[p].exp > r9'[p] /\ r8'[p].rt # 0 /\ r8'[p].rt \in r2'
      BY <1>a, <1>c, <2>1, <2>2, <2>5, <3>2
    <3>4. Auth!TokensHonoured(p)' /\ Auth!LogoutAlone(p)'
      BY <3>1, <3>2, <3>3 DEF Auth!TokensHonoured, Auth!LogoutAlone
    <3>5. ~r13 /\ Auth!Others(p) = {}
      BY <2>5
    <3>6. Auth!Guarded /\ \A q \in Cmds : q # p => r5[q] = "idle"
      BY <1>b, <3>5 DEF Auth!Others
    <3>7. Met(p)
      BY <1>a, <2>1, <3>6, ActiveMet
    <3>8. r12 = "in" => r1 # Auth!NoSession
      BY <3>5, <3>6 DEF Auth!Guarded, Auth!SessionKept
    <3>9. Auth!SessionKept'
      BY <2>1, <3>1, <3>3, <3>7, <3>8, AuthConstants DEF Auth!SessionKept
    <3> QED
      BY <1>a, <2>1, <3>1, <3>4, <3>6, <3>7, <3>9, GuardedFrame
  <2>6. CASE r7[p].rt \notin r2 /\ Auth!Step(p, "drop") /\ UNCHANGED <<r2, r8, r13>>
    <3>1. Auth!Guarded /\ ~r13
      BY <1>b, <2>6
    <3>2. r12 # "in"
      BY <2>1, <2>6, <3>1 DEF Auth!Guarded, Auth!TokensHonoured
    <3>3. r5'[p] = "drop"
      BY <1>a, <2>6 DEF Auth!Step, Auth!TypeOK
    <3>4. Auth!TokensHonoured(p)'
      BY <2>1, <2>6, <3>2, <3>3 DEF Auth!TokensHonoured
    <3> QED
      BY <1>a, <2>1, <2>2, <2>6, <3>1, <3>4, StepGuarded
  <2> QED
    BY <1>6, <2>4, <2>5, <2>6 DEF Auth!Refresh
<1>7. ASSUME NEW p \in Cmds, Auth!CheckRefresh(p) PROVE Auth!Guarded'
  <2>1. r5[p] = "revalidate" /\ UNCHANGED <<r1, r2, r8, r9, r12, r13>>
    BY <1>7 DEF Auth!CheckRefresh
  <2>2. Auth!Guarded /\ ~r13 /\ r6[p] = "resolve"
    BY <1>a, <1>b, <2>1 DEF Auth!Shaped
  <2>3. /\ r8[p].id = "ok" /\ r8[p].exp > r9[p]
        /\ IF r8[p].rt = 0 THEN r7[p].rt \in r2 ELSE r8[p].rt \in r2
    BY <2>1, <2>2 DEF Auth!Guarded, Auth!TokensHonoured
  <2>4. Auth!Step(p, "put") /\ r7' = [r7 EXCEPT ![p] = Auth!RefreshedSession(r7[p], r8[p])]
    BY <1>7, <2>3 DEF Auth!CheckRefresh, Auth!ValidateIDTokenClaims
  <2>5. r5'[p] = "put" /\ r7'[p] = Auth!RefreshedSession(r7[p], r8[p]) /\ \A q \in Cmds : q # p => r7'[q] = r7[q]
    BY <1>a, <2>4 DEF Auth!Step, Auth!TypeOK
  <2>6. r7'[p].rt \in r2
    BY <2>3, <2>5 DEF Auth!RefreshedSession
  <2>7. Auth!TokensHonoured(p)' /\ Auth!Usable(r7[p])'
    BY <2>1, <2>5, <2>6 DEF Auth!TokensHonoured, Auth!Usable
  <2> QED
    BY <1>a, <2>1, <2>2, <2>4, <2>5, <2>7, StepGuarded
<1>8. ASSUME NEW p \in Cmds, Auth!DeleteInvalid(p) PROVE Auth!Guarded'
  <2>1. r5[p] = "drop" /\ UNCHANGED <<r2, r12, r13>> /\ Auth!End(p) /\ (r1' = Auth!NoSession \/ UNCHANGED r1)
    BY <1>8 DEF Auth!DeleteInvalid
  <2>2. Auth!Guarded /\ ~r13 /\ r12 # "in"
    BY <1>b, <2>1 DEF Auth!Guarded, Auth!TokensHonoured
  <2>3. CASE UNCHANGED r1
    BY <1>a, <2>1, <2>2, <2>3, EndGuarded
  <2>4. CASE r1' = Auth!NoSession
    <3>1. r5'[p] = "idle" /\ r6'[p] = "none" /\ \A q \in Cmds : q # p => Same(q)
      BY <1>a, <2>1, EndShaped
    <3>2. Met(p)
      BY <1>a, <2>1, <2>2, ActiveMet
    <3>3. Auth!LogoutAlone(p)' /\ Auth!TokensHonoured(p)' /\ Auth!SessionKept'
      BY <2>1, <2>2, <3>1, <3>2
         DEF Auth!LogoutAlone, Auth!TokensHonoured, Auth!SessionKept
    <3>4. Auth!Usable(r1)'
      BY <2>4, AuthConstants DEF Auth!Usable
    <3> QED
      BY <1>a, <2>1, <2>2, <3>1, <3>2, <3>3, <3>4, GuardedFrame
  <2> QED
    BY <2>1, <2>3, <2>4
<1>9. ASSUME NEW p \in Cmds, Auth!PutSession(p) PROVE Auth!Guarded'
  <2>1. r5[p] = "put" /\ UNCHANGED r2 /\ Auth!End(p)
    BY <1>9 DEF Auth!PutSession
  <2>2. CASE UNCHANGED <<r1, r12>> /\ r13' = (r13 \/ (r6[p] = "resolve" /\ r8[p].rt # 0))
    <3>1. ~r13 /\ Auth!Guarded /\ ~(r6[p] = "resolve" /\ r8[p].rt \in r2)
      BY <1>a, <1>b, <2>2, AuthConstants
    <3> QED
      BY <1>a, <2>1, <2>2, <3>1, EndGuarded
  <2>3. CASE r1' = r7[p] /\ UNCHANGED r13 /\ r12' = IF r6[p] = "login" THEN "in" ELSE r12
    <3>1. ~r13 /\ Auth!Guarded
      BY <1>b, <2>3
    <3>2. r7[p].rt \in r2 /\ r7[p] # Auth!NoSession
      BY <1>a, <2>1, <3>1, AuthConstants DEF Auth!Guarded, Auth!TokensHonoured
    <3>3. r5'[p] = "idle" /\ r6'[p] = "none" /\ \A q \in Cmds : q # p => Same(q)
      BY <1>a, <2>1, EndShaped
    <3>4. Met(p)
      BY <1>a, <2>1, <3>1, ActiveMet
    <3>5. Auth!LogoutAlone(p)' /\ Auth!TokensHonoured(p)' /\ Auth!Usable(r1)'
      BY <2>1, <2>3, <3>2, <3>3 DEF Auth!LogoutAlone, Auth!TokensHonoured, Auth!Usable
    <3>6. Auth!SessionKept'
      BY <2>1, <2>3, <3>2, <3>4, AuthConstants DEF Auth!SessionKept
    <3> QED
      BY <1>a, <2>1, <3>1, <3>3, <3>4, <3>5, <3>6, GuardedFrame
  <2> QED
    BY <1>9, <2>2, <2>3 DEF Auth!PutSession
<1>10. ASSUME NEW p \in Cmds, Auth!LogoutStart(p) PROVE Auth!Guarded'
  <2>1. CASE /\ \E l \in {"revoke", "delete"} : Auth!Begin(p, "logout", l)
             /\ UNCHANGED <<r8, r9>> /\ r7' = [r7 EXCEPT ![p] = r1] /\ r12' = "none"
    <3>2. PICK l \in {"revoke", "delete"} : Auth!Begin(p, "logout", l)
      BY <2>1
    <3>3. /\ ~r13 /\ r5[p] = "idle" /\ r5' = [r5 EXCEPT ![p] = l] /\ r6' = [r6 EXCEPT ![p] = "logout"]
          /\ UNCHANGED <<r1, r2>> /\ \A q \in Cmds : q # p => r5[q] = "idle"
      BY <1>a, <3>2, BeginQuiet
    <3>4. Auth!Guarded
      BY <1>b, <3>3
    <3>5. r5'[p] = l /\ r6'[p] = "logout" /\ r7'[p] = r1
          /\ \A q \in Cmds : q # p => r7'[q] = r7[q] /\ r8'[q] = r8[q] /\ r9'[q] = r9[q]
      BY <1>a, <2>1, <3>3 DEF Auth!TypeOK
    <3>6. Met(p) /\ (\A q \in Cmds : q # p => Same(q)) /\ Auth!SessionKept'
      BY <1>a, <2>1, <3>2, <3>4, <3>5, BeginMet
    <3>7. Auth!LogoutAlone(p)'
      BY <2>1, <3>3, <3>5, <3>6 DEF Auth!LogoutAlone, Same
    <3>8. Auth!TokensHonoured(p)'
      BY <2>1, <3>5 DEF Auth!TokensHonoured
    <3> QED
      BY <1>a, <2>1, <3>3, <3>4, <3>6, <3>7, <3>8, GuardedFrame
  <2>2. CASE r1 = Auth!NoSession /\ r12' = "out" /\ UNCHANGED <<r1, r2, r5, r6, r7, r8, r9, r13>>
    <3>1. Auth!Guarded
      BY <1>b, <2>2
    <3>2. \A q \in Cmds : r6[q] # "logout"
      BY <1>a, <2>2, <3>1, AuthConstants DEF Auth!Guarded, Auth!LogoutAlone, Auth!Shaped
    <3> QED
      BY <2>2, <3>1, <3>2, AuthConstants
         DEF Auth!Guarded, Auth!LogoutAlone, Auth!TokensHonoured, Auth!OverlapUsable, Auth!Usable,
             Auth!SessionKept
  <2> QED
    BY <1>10, <2>1, <2>2 DEF Auth!LogoutStart, Auth!LoggedOut
<1>11. ASSUME NEW p \in Cmds, Auth!Revoke(p) PROVE Auth!Guarded'
  <2>1. r5[p] = "revoke" /\ UNCHANGED <<r1, r7, r8, r9, r12, r13>> /\ Auth!Step(p, "delete")
    BY <1>11 DEF Auth!Revoke, Auth!RevokeDone
  <2>2. ~r13 /\ Auth!Guarded /\ r6[p] = "logout"
    BY <1>a, <1>b, <2>1 DEF Auth!Shaped
  <2>3. r12 = "none" /\ r7[p] = r1 /\ \A q \in Cmds : q # p => r5[q] = "idle"
    BY <2>2 DEF Auth!Guarded, Auth!LogoutAlone
  <2>4. r5'[p] = "delete" /\ r6'[p] = "logout" /\ \A q \in Cmds : q # p => Same(q)
    BY <1>a, <2>1, <2>2 DEF Auth!TypeOK, Auth!Step, Same
  <2>5. Met(p)
    BY <1>a, <2>1, <2>2, ActiveMet
  <2>6. Auth!LogoutAlone(p)'
    BY <2>1, <2>3, <2>4 DEF Auth!LogoutAlone, Same
  <2>7. Auth!TokensHonoured(p)' /\ Auth!SessionKept'
    BY <2>1, <2>3, <2>4 DEF Auth!TokensHonoured, Auth!SessionKept
  <2> QED
    BY <1>a, <2>2, <2>3, <2>4, <2>5, <2>6, <2>7, GuardedFrame
<1>12. ASSUME NEW p \in Cmds, Auth!DeleteSession(p) PROVE Auth!Guarded'
  <2>1. r5[p] = "delete" /\ UNCHANGED <<r2, r13>> /\ Auth!End(p)
        /\ \/ r12' = "out" /\ r1' = Auth!NoSession
           \/ UNCHANGED <<r1, r12>>
    BY <1>12 DEF Auth!DeleteSession, Auth!LoggedOut
  <2>2. ~r13 /\ Auth!Guarded /\ r6[p] = "logout"
    BY <1>a, <1>b, <2>1 DEF Auth!Shaped
  <2>3. r12 = "none" /\ r7[p] = r1 /\ \A q \in Cmds : q # p => r5[q] = "idle"
    BY <2>2 DEF Auth!Guarded, Auth!LogoutAlone
  <2>4. CASE UNCHANGED <<r1, r12>>
    BY <1>a, <2>1, <2>2, <2>3, <2>4, EndGuarded
  <2>5. CASE r12' = "out" /\ r1' = Auth!NoSession
    <3>1. r5'[p] = "idle" /\ r6'[p] = "none" /\ \A q \in Cmds : q # p => Same(q)
      BY <1>a, <2>1, EndShaped
    <3>2. Met(p)
      BY <1>a, <2>1, <2>2, ActiveMet
    <3>3. \A q \in Cmds : r5'[q] = "idle"
      BY <2>3, <2>5, <3>1 DEF Same
    <3>4. Auth!LogoutAlone(p)' /\ Auth!TokensHonoured(p)' /\ Auth!SessionKept'
      BY <2>5, <3>1, <3>3, AuthConstants
         DEF Auth!LogoutAlone, Auth!TokensHonoured, Auth!SessionKept
    <3> QED
      BY <1>a, <2>2, <2>3, <3>1, <3>2, <3>3, <3>4, GuardedFrame
  <2> QED
    BY <2>1, <2>4, <2>5
<1>13. ASSUME NEW p \in Cmds, Auth!Interrupt(p) PROVE Auth!Guarded'
  <2>1. r5[p] # "idle" /\ UNCHANGED <<r1, r2, r12>> /\ Auth!End(p)
        /\ r13' = (r13 \/ (r6[p] = "resolve" /\ r8[p].rt # 0))
    BY <1>13 DEF Auth!Interrupt
  <2>2. ~r13 /\ Auth!Guarded /\ ~(r6[p] = "resolve" /\ r8[p].rt \in r2)
    BY <1>a, <1>b, <2>1, AuthConstants
  <2> QED
    BY <1>a, <2>1, <2>2, EndGuarded
<1>14. CASE Auth!Tick \/ UNCHANGED Auth!vars
  <2>1. UNCHANGED <<r1, r2, r5, r6, r7, r8, r9, r12, r13>>
    BY <1>14 DEF Auth!Tick, Auth!vars
  <2> QED
    BY <1>b, <2>1, AuthConstants
       DEF Auth!Guarded, Auth!LogoutAlone, Auth!TokensHonoured, Auth!OverlapUsable, Auth!Usable,
           Auth!SessionKept
<1> QED
  BY <1>1, <1>2, <1>3, <1>4, <1>5, <1>6, <1>7, <1>8, <1>9, <1>10, <1>11, <1>12, <1>13, <1>14
     DEF Auth!Next

\* A step that stores no session, begins no refresh and logs nobody out keeps what holds
\* after a logout.
LEMMA LoggedOutFrame ==
  ASSUME Auth!LoggedOutInv, r12' = "out" => r12 = "out", r15' = r15, r1' \in {r1, Auth!NoSession},
         \A q \in Cmds : r6'[q] = "resolve" => r6[q] = "resolve" /\ (q \in r14 => q \in r14')
  PROVE  Auth!LoggedOutInv'
  BY AuthConstants DEF Auth!LoggedOutInv

\* A logout that succeeds while the store has no session.
LEMMA LoggedOutNow ==
  ASSUME NEW p \in Cmds, r1' = Auth!NoSession, r14' = Auth!Others(p), r6'[p] # "resolve",
         \A q \in Cmds : Auth!Shaped(q), \A q \in Cmds : q # p => r6'[q] = r6[q]
  PROVE  Auth!LoggedOutInv'
<1>1. \A q \in Cmds : q # p /\ r6[q] = "resolve" => q \in Auth!Others(p)
  BY DEF Auth!Others, Auth!Shaped
<1> QED
  BY <1>1, AuthConstants DEF Auth!LoggedOutInv

\* Every step keeps that after a logout the store is empty and only refreshes that were
\* under way then are under way.
LEMMA LoggedOutStep ==
  Auth!IInv /\ [Auth!Next]_(Auth!vars) /\ Auth!TypeOK'
  => Auth!LoggedOutInv'
<1> SUFFICES ASSUME Auth!IInv, [Auth!Next]_(Auth!vars), Auth!TypeOK'
             PROVE  Auth!LoggedOutInv'
  OBVIOUS
<1>a. Auth!TypeOK /\ (\A q \in Cmds : Auth!Shaped(q)) /\ Auth!LoggedOutInv
  BY DEF Auth!IInv
<1>1. ASSUME NEW p \in Cmds, Auth!LoginStart(p) PROVE Auth!LoggedOutInv'
  <2>1. r12' # "out"
    BY <1>1 DEF Auth!LoginStart
  <2> QED
    BY <2>1 DEF Auth!LoggedOutInv
<1>2. ASSUME NEW p \in Cmds, Auth!End(p), UNCHANGED <<r12, r14, r15>>, r1' \in {r1, Auth!NoSession}
      PROVE  Auth!LoggedOutInv'
  <2>1. \A q \in Cmds : r6'[q] = "resolve" => r6[q] = "resolve"
    BY <1>a, <1>2 DEF Auth!End, Auth!TypeOK
  <2> QED
    BY <1>a, <1>2, <2>1, LoggedOutFrame
<1>3. ASSUME NEW p \in Cmds, UNCHANGED <<r1, r6, r12, r14, r15>> PROVE Auth!LoggedOutInv'
  BY <1>a, <1>3, LoggedOutFrame
<1>4. ASSUME NEW p \in Cmds, Auth!ResolveStart(p) PROVE Auth!LoggedOutInv'
  <2>1. r1 # Auth!NoSession /\ UNCHANGED <<r1, r12, r15>>
    BY <1>4 DEF Auth!ResolveStart, Auth!Begin
  <2> QED
    BY <1>a, <2>1, AuthConstants DEF Auth!LoggedOutInv
<1>5. ASSUME NEW p \in Cmds, Auth!PutSession(p) PROVE Auth!LoggedOutInv'
  <2>1. r5[p] = "put" /\ Auth!End(p) /\ r14' = r14
    BY <1>5 DEF Auth!PutSession
  <2>2. CASE UNCHANGED <<r1, r12, r15>>
    BY <1>2, <2>1, <2>2
  <2>3. CASE /\ r12' = IF r6[p] = "login" THEN "in" ELSE r12
             /\ r15' = (r15 \/ (r6[p] = "resolve" /\ r12 = "out" /\ p \in r14))
    <3>1. r6[p] \in {"login", "resolve"}
      BY <1>a, <2>1 DEF Auth!Shaped
    <3>2. r12' = "out" => r15'
      BY <1>a, <2>3, <3>1 DEF Auth!LoggedOutInv
    <3> QED
      BY <3>2 DEF Auth!LoggedOutInv
  <2> QED
    BY <1>5, <2>2, <2>3 DEF Auth!PutSession
<1>6. ASSUME NEW p \in Cmds, Auth!LogoutStart(p) PROVE Auth!LoggedOutInv'
  <2>1. CASE r12' = "none"
    BY <2>1 DEF Auth!LoggedOutInv
  <2>2. CASE r1 = Auth!NoSession /\ r5[p] = "idle" /\ Auth!LoggedOut(p) /\ UNCHANGED <<r1, r6>>
    <3>1. r6'[p] # "resolve"
      BY <1>a, <2>2 DEF Auth!Shaped
    <3> QED
      BY <1>a, <2>2, <3>1, LoggedOutNow DEF Auth!LoggedOut
  <2> QED
    BY <1>6, <2>1, <2>2 DEF Auth!LogoutStart
<1>7. ASSUME NEW p \in Cmds, Auth!DeleteSession(p) PROVE Auth!LoggedOutInv'
  <2>1. Auth!End(p)
    BY <1>7 DEF Auth!DeleteSession
  <2>2. CASE UNCHANGED <<r1, r12, r14, r15>>
    BY <1>2, <2>1, <2>2
  <2>3. CASE r1' = Auth!NoSession /\ Auth!LoggedOut(p)
    <3>1. r6'[p] = "none" /\ \A q \in Cmds : q # p => r6'[q] = r6[q]
      BY <1>a, <2>1 DEF Auth!End, Auth!TypeOK
    <3> QED
      BY <1>a, <2>3, <3>1, LoggedOutNow DEF Auth!LoggedOut
  <2> QED
    BY <1>7, <2>2, <2>3 DEF Auth!DeleteSession
<1>8. ASSUME NEW p \in Cmds, Auth!Callback(p) PROVE Auth!LoggedOutInv'
  BY <1>2, <1>3, <1>8 DEF Auth!Callback, Auth!Step
<1>9. ASSUME NEW p \in Cmds, Auth!ExchangeCode(p) PROVE Auth!LoggedOutInv'
  BY <1>2, <1>3, <1>9 DEF Auth!ExchangeCode, Auth!Step
<1>10. ASSUME NEW p \in Cmds, Auth!CheckLogin(p) PROVE Auth!LoggedOutInv'
  BY <1>2, <1>3, <1>10 DEF Auth!CheckLogin, Auth!Step
<1>11. ASSUME NEW p \in Cmds, Auth!Refresh(p) \/ Auth!CheckRefresh(p) \/ Auth!Revoke(p)
       PROVE  Auth!LoggedOutInv'
  BY <1>3, <1>11 DEF Auth!Refresh, Auth!CheckRefresh, Auth!Revoke, Auth!RevokeDone, Auth!Step
<1>12. ASSUME NEW p \in Cmds, Auth!DeleteInvalid(p) \/ Auth!Interrupt(p) PROVE Auth!LoggedOutInv'
  BY <1>2, <1>12 DEF Auth!DeleteInvalid, Auth!Interrupt
<1>13. CASE Auth!Tick \/ UNCHANGED Auth!vars
  <2>1. UNCHANGED <<r1, r6, r12, r14, r15>>
    BY <1>13 DEF Auth!Tick, Auth!vars
  <2> QED
    BY <1>a, <2>1, LoggedOutFrame
<1> QED
  BY <1>1, <1>4, <1>5, <1>6, <1>7, <1>8, <1>9, <1>10, <1>11, <1>12, <1>13 DEF Auth!Next

\* The invariant of the login session is inductive.
LEMMA AuthInductive ==
  Auth!Spec => []Auth!IInv
<1>1. Auth!Init => Auth!IInv
  <2> SUFFICES ASSUME Auth!Init PROVE Auth!IInv
    OBVIOUS
  <2>1. Auth!TypeOK
    <3>1. "idle" \in Auth!Labels /\ MaxTime \in Nat /\ MaxCmds \in Nat /\ MaxFaults \in Nat
      BY AuthAssumption, ProcessAssumption DEF Auth!Labels
    <3>2. /\ r1 \in Auth!Sessions /\ r2 \in SUBSET (1..r3) /\ r3 \in Nat /\ r4 \in 0..MaxTime
          /\ r10 \in 0..MaxCmds /\ r11 \in 0..MaxFaults
      BY <3>1, AuthSessions DEF Auth!Init
    <3>3. r5 \in [Cmds -> Auth!Labels] /\ r6 \in [Cmds -> {"none", "login", "resolve", "logout"}]
      BY <3>1 DEF Auth!Init
    <3>4. r7 \in [Cmds -> Auth!Sessions] /\ r8 \in [Cmds -> Auth!Responses]
      BY AuthSessions, AuthResponses DEF Auth!Init
    <3>5. r9 \in [Cmds -> 0..MaxTime]
      BY <3>1 DEF Auth!Init
    <3>6. r12 \in {"none", "in", "out"} /\ r13 \in BOOLEAN /\ r14 \in SUBSET Cmds /\ r15 \in BOOLEAN
      BY DEF Auth!Init
    <3> QED
      BY <3>2, <3>3, <3>4, <3>5, <3>6 DEF Auth!TypeOK
  <2>2. r1 = Auth!NoSession /\ r2 = {} /\ r4 = 0 /\ r12 = "none" /\ ~r13
        /\ \A q \in Cmds : /\ r5[q] = "idle" /\ r6[q] = "none" /\ r7[q] = Auth!NoSession
                           /\ r8[q] = Auth!NoResp /\ r9[q] = 0
    BY DEF Auth!Init
  <2>3. \A q \in Cmds : Auth!Shaped(q)
    BY <2>2 DEF Auth!Shaped
  <2>4. Auth!Guarded
    BY <2>2 DEF Auth!Guarded, Auth!LogoutAlone, Auth!TokensHonoured, Auth!OverlapUsable,
                Auth!SessionKept
  <2>5. Auth!LoggedOutInv
    BY <2>2 DEF Auth!LoggedOutInv
  <2> QED
    BY <2>1, <2>2, <2>3, <2>4, <2>5 DEF Auth!IInv
<1>2. Auth!IInv /\ [Auth!Next]_(Auth!vars) => Auth!IInv'
  <2> SUFFICES ASSUME Auth!IInv, [Auth!Next]_(Auth!vars) PROVE Auth!IInv'
    OBVIOUS
  <2>1. Auth!TypeOK'
    BY AuthTypeStep
  <2>2. (r1 = Auth!NoSession \/ r1.rt # 0)' /\ \A q \in Cmds : Auth!Shaped(q)'
    BY <2>1, AuthShapeStep
  <2>3. ~r13' => Auth!Guarded'
    BY <2>1, AuthGuardStep
  <2>4. Auth!LoggedOutInv'
    BY <2>1, LoggedOutStep
  <2> QED
    BY <2>1, <2>2, <2>3, <2>4 DEF Auth!IInv
<1> QED
  BY <1>1, <1>2, PTL DEF Auth!Spec

\* For any number of overlapping commands (LoginGoogle, ResolveBearerToken, Logout): a login
\* that succeeded keeps a session Google honours, until one of the excuses of SessionKept; and
\* after a logout that succeeded the store is empty until the next login, unless a refresh
\* that was under way at that moment has stored its session (LogoutSticks), which is the only
\* way a session comes back.
THEOREM SessionsSound ==
  Auth!Spec => []SessionSound
<1>1. Auth!IInv => SessionSound
  BY DEF Auth!IInv, Auth!LoggedOutInv, Auth!Guarded, Auth!SessionKept, Auth!LogoutSticks, SessionSound
<1> QED
  BY <1>1, AuthInductive, PTL

-----------------------------------------------------------------------------
(* StagePipeline.                                                          *)

\* What parsing guarantees of every stage of a command line.
LEMMA StageParsed ==
  ASSUME NEW s \in Stage!Stages
  PROVE  /\ s.cmd \in {"prepare", "plan", "run"} /\ s.ref \in {"none", "worktree", "blob"}
         /\ s.keep \in BOOLEAN /\ s.alias \in BOOLEAN /\ s.watch \in BOOLEAN /\ s.prov \in BOOLEAN
         /\ s.known \in BOOLEAN /\ (s.keep => s.ref = "worktree")
         /\ (s.cmd # "run" /\ s.ref # "none" => s.watch)
         /\ (~s.known => s.cmd = "run" /\ s.ref = "none")
  BY DEF Stage!Stages, Stage!ValidPrepare, Stage!ValidRun

\* A command line is one stage, or a prepare followed by a run.
LEMMA LinesParsed ==
  ASSUME r1 \in Stage!CommandLines
  PROVE  /\ r1 \in Seq(Stage!Stages) /\ Len(r1) \in {1, 2} /\ r1[1] \in Stage!Stages
         /\ Len(r1) = 2 => r1[2] \in Stage!Stages /\ r1[1].cmd = "prepare" /\ r1[2].cmd = "run"
<1>1. CASE \E s \in Stage!Stages : r1 = <<s>>
  BY <1>1
<1>2. CASE \E s \in {x \in Stage!Stages : x.cmd = "prepare"} :
             \E r \in {x \in Stage!Stages : x.cmd = "run" /\ ~x.keep} : r1 = <<s, r>>
  BY <1>2
<1> QED
  BY <1>1, <1>2 DEF Stage!CommandLines

\* The stage under way.
StageFacts ==
  /\ r2 \in {1, 2} /\ Len(r1) \in {1, 2} /\ (r2 = 2 => Len(r1) = 2)
  /\ (Len(r1) = 2 => r1[1].cmd = "prepare" /\ r1[2].cmd = "run")
  /\ Stage!stage.cmd \in {"prepare", "plan", "run"} /\ Stage!stage.ref \in {"none", "worktree", "blob"}
  /\ (Stage!stage.keep => Stage!stage.ref = "worktree")
  /\ (Stage!stage.cmd # "run" /\ Stage!stage.ref # "none" => Stage!stage.watch)
  /\ Stage!stage = r1[r2]

\* Whatever stage is under way was parsed.
LEMMA StageUnderWay ==
  ASSUME r1 \in Stage!CommandLines, r2 \in 1..Len(r1)
  PROVE  StageFacts
<1>1. /\ Len(r1) \in {1, 2} /\ r1[1] \in Stage!Stages
      /\ Len(r1) = 2 => r1[2] \in Stage!Stages /\ r1[1].cmd = "prepare" /\ r1[2].cmd = "run"
  BY LinesParsed
<1>2. r2 \in {1, 2} /\ (r2 = 2 => Len(r1) = 2)
  <2>1. CASE Len(r1) = 1
    BY <2>1
  <2>2. CASE Len(r1) = 2
    BY <2>2
  <2> QED
    BY <1>1, <2>1, <2>2
<1>3. Stage!stage \in Stage!Stages
  BY <1>1, <1>2 DEF Stage!stage
<1>4. Stage!stage = r1[r2]
  BY DEF Stage!stage
<1> QED
  BY <1>1, <1>2, <1>3, <1>4, StageParsed DEF StageFacts

\* The command line stays, and so does the stage unless the command goes to the next.
LEMMA StageKept ==
  ASSUME [Stage!Next]_(Stage!vars)
  PROVE  r1' = r1 /\ (r2' = r2 => Stage!stage' = Stage!stage)
<1>1. Stage!Check => r1' = r1
  BY DEF Stage!Check, Stage!Goto
<1>2. Stage!ResolveAlias => r1' = r1
  BY DEF Stage!ResolveAlias, Stage!OpenRef, Stage!Goto
<1>3. Stage!BuildRuntime => r1' = r1
  BY DEF Stage!BuildRuntime, Stage!OpenRef, Stage!Goto
<1>4. Stage!Bind => r1' = r1
  BY DEF Stage!Bind, Stage!Goto
<1>5. Stage!Trace => r1' = r1
  BY DEF Stage!Trace, Stage!Goto
<1>6. Stage!Submit => r1' = r1
  BY DEF Stage!Submit, Stage!Goto
<1>7. Stage!JobEnds => r1' = r1
  BY DEF Stage!JobEnds
<1>8. Stage!Follow => r1' = r1
  BY DEF Stage!Follow, Stage!Goto
<1>9. Stage!WriteArtifact => r1' = r1
  BY DEF Stage!WriteArtifact, Stage!Goto
<1>10. Stage!Cleanup => r1' = r1
  BY DEF Stage!Cleanup, Stage!Goto
<1>11. Stage!NextStage => r1' = r1
  BY DEF Stage!NextStage, Stage!Goto
<1>12. Stage!DeferDelete => r1' = r1
  BY DEF Stage!DeferDelete, Stage!Goto
<1>13. Stage!UnknownKind => r1' = r1
  BY DEF Stage!UnknownKind, Stage!Goto
<1>14. Stage!ResolveRunAlias => r1' = r1
  BY DEF Stage!ResolveRunAlias, Stage!OpenRef, Stage!Goto
<1>15. Stage!RunBind => r1' = r1
  BY DEF Stage!RunBind, Stage!Goto
<1>16. Stage!Exec => r1' = r1
  BY DEF Stage!Exec, Stage!Goto
<1>17. Stage!Fail => r1' = r1
  BY DEF Stage!Fail, Stage!Goto
<1>18. Stage!Return => r1' = r1
  BY DEF Stage!Return, Stage!Goto
<1>19. Stage!DeleteInstance => r1' = r1
  BY DEF Stage!DeleteInstance, Stage!Goto
<1>20. Stage!Kill => r1' = r1
  BY DEF Stage!Kill, Stage!Goto
<1>21. UNCHANGED Stage!vars => r1' = r1
  BY DEF Stage!vars
<1>22. r1' = r1
  BY <1>1, <1>2, <1>3, <1>4, <1>5, <1>6, <1>7, <1>8, <1>9, <1>10, <1>11, <1>12, <1>13, <1>14, <1>15, <1>16, <1>17, <1>18, <1>19, <1>20, <1>21 DEF Stage!Next
<1> QED
  BY <1>22 DEF Stage!stage

\* Every step of a command line keeps the types.
LEMMA StageTypeStep ==
  Stage!IInv /\ [Stage!Next]_(Stage!vars) => Stage!TypeOK'
<1> SUFFICES ASSUME Stage!IInv, [Stage!Next]_(Stage!vars)
             PROVE  Stage!TypeOK'
  OBVIOUS
<1>a. Stage!TypeOK /\ r1 \in Stage!CommandLines /\ StageFacts
  BY StageUnderWay DEF Stage!IInv, Stage!TypeOK
<1>b. r1' = r1 /\ (r2' = r2 => Stage!stage' = Stage!stage)
  BY StageKept
<1>c. r1' \in Seq(Stage!Stages)
  BY <1>a, <1>b DEF Stage!TypeOK
<1>e. r2' = r2 => r2' \in 1..Len(r1')
  BY <1>a, <1>b DEF Stage!TypeOK
<1>d. StageFaults \in Nat
  BY BoundsAssumption
<1>1. CASE Stage!Check
  <2>0. UNCHANGED <<r4, r5, r6, r7, r8, r9, r10, r11, r12, r13, r14>>
    BY <1>1 DEF Stage!Check, Stage!Composite, Stage!Goto, Stage!KeepJob, Stage!KeepTmp, Stage!KeepRun, Stage!KeepFlags, Stage!NoFault
  <2>2. r2' \in 1..Len(r1')
    BY <1>e, <1>1 DEF Stage!Check, Stage!Goto
  <2>3. r3' \in {"check", "alias", "build", "bind", "trace", "submit", "follow", "artifact",
               "defer", "runalias", "runbind", "exec", "cleanup", "next", "fail", "done",
               "delete", "ended", "killed"}
    BY <1>a, <1>d, <1>1 DEF Stage!TypeOK, Stage!Check, Stage!Composite, Stage!Goto, Stage!KeepJob, Stage!KeepTmp, Stage!KeepRun, Stage!KeepFlags, Stage!NoFault
  <2> QED
    BY <1>a, <1>c, <2>0, <2>2, <2>3 DEF Stage!TypeOK
<1>2. CASE Stage!ResolveAlias
  <2>0. UNCHANGED <<r5, r6, r7, r8, r9, r10, r11, r12, r14>>
    BY <1>2 DEF Stage!ResolveAlias, Stage!OpenRef, Stage!Goto, Stage!KeepJob, Stage!KeepRun, Stage!KeepFlags, Stage!Fault, Stage!NoFault
  <2>2. r2' \in 1..Len(r1')
    BY <1>e, <1>2 DEF Stage!ResolveAlias, Stage!Goto, Stage!OpenRef
  <2>3. r3' \in {"check", "alias", "build", "bind", "trace", "submit", "follow", "artifact",
               "defer", "runalias", "runbind", "exec", "cleanup", "next", "fail", "done",
               "delete", "ended", "killed"}
    BY <1>a, <1>d, <1>2 DEF Stage!TypeOK, Stage!ResolveAlias, Stage!OpenRef, Stage!Goto, Stage!KeepJob, Stage!KeepRun, Stage!KeepFlags, Stage!Fault, Stage!NoFault
  <2>4. r4' \in SUBSET {"worktree", "stage"}
    BY <1>a, <1>d, <1>2 DEF Stage!TypeOK, Stage!ResolveAlias, Stage!OpenRef, Stage!Goto, Stage!KeepJob, Stage!KeepRun, Stage!KeepFlags, Stage!Fault, Stage!NoFault
  <2>13. r13' \in 0..StageFaults
    BY <1>a, <1>d, <1>2 DEF Stage!TypeOK, Stage!ResolveAlias, Stage!OpenRef, Stage!Goto, Stage!KeepJob, Stage!KeepRun, Stage!KeepFlags, Stage!Fault, Stage!NoFault
  <2> QED
    BY <1>a, <1>c, <2>0, <2>2, <2>3, <2>4, <2>13 DEF Stage!TypeOK
<1>3. CASE Stage!BuildRuntime
  <2>0. UNCHANGED <<r5, r6, r7, r8, r9, r10, r12, r14>>
    BY <1>3 DEF Stage!BuildRuntime, Stage!OpenRef, Stage!Goto, Stage!KeepJob, Stage!KeepRun, Stage!Fault, Stage!NoFault
  <2>2. r2' \in 1..Len(r1')
    BY <1>e, <1>3 DEF Stage!BuildRuntime, Stage!Goto, Stage!OpenRef
  <2>3. r3' \in {"check", "alias", "build", "bind", "trace", "submit", "follow", "artifact",
               "defer", "runalias", "runbind", "exec", "cleanup", "next", "fail", "done",
               "delete", "ended", "killed"}
    BY <1>a, <1>d, <1>3 DEF Stage!TypeOK, Stage!BuildRuntime, Stage!OpenRef, Stage!Goto, Stage!KeepJob, Stage!KeepRun, Stage!Fault, Stage!NoFault
  <2>4. r4' \in SUBSET {"worktree", "stage"}
    BY <1>a, <1>d, <1>3 DEF Stage!TypeOK, Stage!BuildRuntime, Stage!OpenRef, Stage!Goto, Stage!KeepJob, Stage!KeepRun, Stage!Fault, Stage!NoFault
  <2>11. r11' \in BOOLEAN
    BY <1>a, <1>d, <1>3 DEF Stage!TypeOK, Stage!BuildRuntime, Stage!OpenRef, Stage!Goto, Stage!KeepJob, Stage!KeepRun, Stage!Fault, Stage!NoFault
  <2>13. r13' \in 0..StageFaults
    BY <1>a, <1>d, <1>3 DEF Stage!TypeOK, Stage!BuildRuntime, Stage!OpenRef, Stage!Goto, Stage!KeepJob, Stage!KeepRun, Stage!Fault, Stage!NoFault
  <2> QED
    BY <1>a, <1>c, <2>0, <2>2, <2>3, <2>4, <2>11, <2>13 DEF Stage!TypeOK
<1>4. CASE Stage!Bind
  <2>0. UNCHANGED <<r6, r7, r8, r9, r10, r11, r12, r14>>
    BY <1>4 DEF Stage!Bind, Stage!RefCleanup, Stage!BindCleanup, Stage!Staging, Stage!Goto, Stage!KeepJob, Stage!KeepRun, Stage!KeepFlags, Stage!Fault, Stage!NoFault
  <2>2. r2' \in 1..Len(r1')
    BY <1>e, <1>4 DEF Stage!Bind, Stage!Goto
  <2>3. r3' \in {"check", "alias", "build", "bind", "trace", "submit", "follow", "artifact",
               "defer", "runalias", "runbind", "exec", "cleanup", "next", "fail", "done",
               "delete", "ended", "killed"}
    BY <1>a, <1>d, <1>4 DEF Stage!TypeOK, Stage!Bind, Stage!RefCleanup, Stage!BindCleanup, Stage!Staging, Stage!Goto, Stage!KeepJob, Stage!KeepRun, Stage!KeepFlags, Stage!Fault, Stage!NoFault
  <2>4. r4' \in SUBSET {"worktree", "stage"}
    BY <1>a, <1>d, <1>4 DEF Stage!TypeOK, Stage!Bind, Stage!RefCleanup, Stage!BindCleanup, Stage!Staging, Stage!Goto, Stage!KeepJob, Stage!KeepRun, Stage!KeepFlags, Stage!Fault, Stage!NoFault
  <2>5. r5' \in SUBSET {"worktree", "stage"}
    BY <1>a, <1>d, <1>4 DEF Stage!TypeOK, Stage!Bind, Stage!RefCleanup, Stage!BindCleanup, Stage!Staging, Stage!Goto, Stage!KeepJob, Stage!KeepRun, Stage!KeepFlags, Stage!Fault, Stage!NoFault
  <2>13. r13' \in 0..StageFaults
    BY <1>a, <1>d, <1>4 DEF Stage!TypeOK, Stage!Bind, Stage!RefCleanup, Stage!BindCleanup, Stage!Staging, Stage!Goto, Stage!KeepJob, Stage!KeepRun, Stage!KeepFlags, Stage!Fault, Stage!NoFault
  <2> QED
    BY <1>a, <1>c, <2>0, <2>2, <2>3, <2>4, <2>5, <2>13 DEF Stage!TypeOK
<1>5. CASE Stage!Trace
  <2>0. UNCHANGED <<r4, r5, r6, r7, r8, r9, r10, r11, r12, r14>>
    BY <1>5 DEF Stage!Trace, Stage!Goto, Stage!KeepJob, Stage!KeepTmp, Stage!KeepRun, Stage!KeepFlags, Stage!Fault, Stage!NoFault
  <2>2. r2' \in 1..Len(r1')
    BY <1>e, <1>5 DEF Stage!Trace, Stage!Goto
  <2>3. r3' \in {"check", "alias", "build", "bind", "trace", "submit", "follow", "artifact",
               "defer", "runalias", "runbind", "exec", "cleanup", "next", "fail", "done",
               "delete", "ended", "killed"}
    BY <1>a, <1>d, <1>5 DEF Stage!TypeOK, Stage!Trace, Stage!Goto, Stage!KeepJob, Stage!KeepTmp, Stage!KeepRun, Stage!KeepFlags, Stage!Fault, Stage!NoFault
  <2>13. r13' \in 0..StageFaults
    BY <1>a, <1>d, <1>5 DEF Stage!TypeOK, Stage!Trace, Stage!Goto, Stage!KeepJob, Stage!KeepTmp, Stage!KeepRun, Stage!KeepFlags, Stage!Fault, Stage!NoFault
  <2> QED
    BY <1>a, <1>c, <2>0, <2>2, <2>3, <2>13 DEF Stage!TypeOK
<1>6. CASE Stage!Submit
  <2>0. UNCHANGED <<r4, r5, r8, r9, r10, r11, r12, r14>>
    BY <1>6 DEF Stage!Submit, Stage!Goto, Stage!KeepJob, Stage!KeepTmp, Stage!KeepRun, Stage!KeepFlags, Stage!Fault, Stage!NoFault
  <2>2. r2' \in 1..Len(r1')
    BY <1>e, <1>6 DEF Stage!Submit, Stage!Goto
  <2>3. r3' \in {"check", "alias", "build", "bind", "trace", "submit", "follow", "artifact",
               "defer", "runalias", "runbind", "exec", "cleanup", "next", "fail", "done",
               "delete", "ended", "killed"}
    BY <1>a, <1>d, <1>6 DEF Stage!TypeOK, Stage!Submit, Stage!Goto, Stage!KeepJob, Stage!KeepTmp, Stage!KeepRun, Stage!KeepFlags, Stage!Fault, Stage!NoFault
  <2>6. r6' \in {"none", "running", "ended"}
    BY <1>a, <1>d, <1>6 DEF Stage!TypeOK, Stage!Submit, Stage!Goto, Stage!KeepJob, Stage!KeepTmp, Stage!KeepRun, Stage!KeepFlags, Stage!Fault, Stage!NoFault
  <2>7. r7' \in SUBSET {"worktree", "stage"}
    BY <1>a, <1>d, <1>6 DEF Stage!TypeOK, Stage!Submit, Stage!Goto, Stage!KeepJob, Stage!KeepTmp, Stage!KeepRun, Stage!KeepFlags, Stage!Fault, Stage!NoFault
  <2>13. r13' \in 0..StageFaults
    BY <1>a, <1>d, <1>6 DEF Stage!TypeOK, Stage!Submit, Stage!Goto, Stage!KeepJob, Stage!KeepTmp, Stage!KeepRun, Stage!KeepFlags, Stage!Fault, Stage!NoFault
  <2> QED
    BY <1>a, <1>c, <2>0, <2>2, <2>3, <2>6, <2>7, <2>13 DEF Stage!TypeOK
<1>7. CASE Stage!JobEnds
  <2>0. UNCHANGED <<r3, r4, r5, r7, r9, r10, r11, r12, r13, r14>>
    BY <1>7 DEF Stage!JobEnds, Stage!KeepTmp, Stage!KeepRun, Stage!KeepFlags, Stage!NoFault
  <2>2. r2' \in 1..Len(r1')
    BY <1>e, <1>7 DEF Stage!JobEnds
  <2>6. r6' \in {"none", "running", "ended"}
    BY <1>a, <1>d, <1>7 DEF Stage!TypeOK, Stage!JobEnds, Stage!KeepTmp, Stage!KeepRun, Stage!KeepFlags, Stage!NoFault
  <2>8. r8' \in {"none", "live", "gone"}
    BY <1>a, <1>d, <1>7 DEF Stage!TypeOK, Stage!JobEnds, Stage!KeepTmp, Stage!KeepRun, Stage!KeepFlags, Stage!NoFault
  <2> QED
    BY <1>a, <1>c, <2>0, <2>2, <2>6, <2>8 DEF Stage!TypeOK
<1>8. CASE Stage!Follow
  <2>0. UNCHANGED <<r4, r5, r6, r7, r8, r10, r11, r14>>
    BY <1>8 DEF Stage!Follow, Stage!MayDetach, Stage!Goto, Stage!KeepJob, Stage!KeepTmp, Stage!Fault, Stage!NoFault
  <2>2. r2' \in 1..Len(r1')
    BY <1>e, <1>8 DEF Stage!Follow, Stage!Goto
  <2>3. r3' \in {"check", "alias", "build", "bind", "trace", "submit", "follow", "artifact",
               "defer", "runalias", "runbind", "exec", "cleanup", "next", "fail", "done",
               "delete", "ended", "killed"}
    BY <1>a, <1>d, <1>8 DEF Stage!TypeOK, Stage!Follow, Stage!MayDetach, Stage!Goto, Stage!KeepJob, Stage!KeepTmp, Stage!Fault, Stage!NoFault
  <2>9. r9' \in BOOLEAN
    BY <1>a, <1>d, <1>8 DEF Stage!TypeOK, Stage!Follow, Stage!MayDetach, Stage!Goto, Stage!KeepJob, Stage!KeepTmp, Stage!Fault, Stage!NoFault
  <2>12. r12' \in BOOLEAN
    BY <1>a, <1>d, <1>8 DEF Stage!TypeOK, Stage!Follow, Stage!MayDetach, Stage!Goto, Stage!KeepJob, Stage!KeepTmp, Stage!Fault, Stage!NoFault
  <2>13. r13' \in 0..StageFaults
    BY <1>a, <1>d, <1>8 DEF Stage!TypeOK, Stage!Follow, Stage!MayDetach, Stage!Goto, Stage!KeepJob, Stage!KeepTmp, Stage!Fault, Stage!NoFault
  <2> QED
    BY <1>a, <1>c, <2>0, <2>2, <2>3, <2>9, <2>12, <2>13 DEF Stage!TypeOK
<1>9. CASE Stage!WriteArtifact
  <2>0. UNCHANGED <<r4, r5, r6, r7, r8, r10, r11, r12, r14>>
    BY <1>9 DEF Stage!WriteArtifact, Stage!Goto, Stage!KeepJob, Stage!KeepTmp, Stage!KeepFlags, Stage!Fault, Stage!NoFault
  <2>2. r2' \in 1..Len(r1')
    BY <1>e, <1>9 DEF Stage!WriteArtifact, Stage!Goto
  <2>3. r3' \in {"check", "alias", "build", "bind", "trace", "submit", "follow", "artifact",
               "defer", "runalias", "runbind", "exec", "cleanup", "next", "fail", "done",
               "delete", "ended", "killed"}
    BY <1>a, <1>d, <1>9 DEF Stage!TypeOK, Stage!WriteArtifact, Stage!Goto, Stage!KeepJob, Stage!KeepTmp, Stage!KeepFlags, Stage!Fault, Stage!NoFault
  <2>9. r9' \in BOOLEAN
    BY <1>a, <1>d, <1>9 DEF Stage!TypeOK, Stage!WriteArtifact, Stage!Goto, Stage!KeepJob, Stage!KeepTmp, Stage!KeepFlags, Stage!Fault, Stage!NoFault
  <2>13. r13' \in 0..StageFaults
    BY <1>a, <1>d, <1>9 DEF Stage!TypeOK, Stage!WriteArtifact, Stage!Goto, Stage!KeepJob, Stage!KeepTmp, Stage!KeepFlags, Stage!Fault, Stage!NoFault
  <2> QED
    BY <1>a, <1>c, <2>0, <2>2, <2>3, <2>9, <2>13 DEF Stage!TypeOK
<1>10. CASE Stage!Cleanup
  <2>0. UNCHANGED <<r6, r7, r8, r10, r11, r12>>
    BY <1>10 DEF Stage!Cleanup, Stage!Goto, Stage!KeepJob, Stage!KeepFlags, Stage!Fault, Stage!NoFault
  <2>2. r2' \in 1..Len(r1')
    BY <1>e, <1>10 DEF Stage!Cleanup, Stage!Goto
  <2>3. r3' \in {"check", "alias", "build", "bind", "trace", "submit", "follow", "artifact",
               "defer", "runalias", "runbind", "exec", "cleanup", "next", "fail", "done",
               "delete", "ended", "killed"}
    BY <1>a, <1>d, <1>10 DEF Stage!TypeOK, Stage!Cleanup, Stage!Goto, Stage!KeepJob, Stage!KeepFlags, Stage!Fault, Stage!NoFault
  <2>4. r4' \in SUBSET {"worktree", "stage"}
    BY <1>a, <1>d, <1>10 DEF Stage!TypeOK, Stage!Cleanup, Stage!Goto, Stage!KeepJob, Stage!KeepFlags, Stage!Fault, Stage!NoFault
  <2>5. r5' \in SUBSET {"worktree", "stage"}
    BY <1>a, <1>d, <1>10 DEF Stage!TypeOK, Stage!Cleanup, Stage!Goto, Stage!KeepJob, Stage!KeepFlags, Stage!Fault, Stage!NoFault
  <2>9. r9' \in BOOLEAN
    BY <1>a, <1>d, <1>10 DEF Stage!TypeOK, Stage!Cleanup, Stage!Goto, Stage!KeepJob, Stage!KeepFlags, Stage!Fault, Stage!NoFault
  <2>13. r13' \in 0..StageFaults
    BY <1>a, <1>d, <1>10 DEF Stage!TypeOK, Stage!Cleanup, Stage!Goto, Stage!KeepJob, Stage!KeepFlags, Stage!Fault, Stage!NoFault
  <2>14. r14' \in SUBSET {"worktree", "stage", "instance"}
    BY <1>a, <1>d, <1>10 DEF Stage!TypeOK, Stage!Cleanup, Stage!Goto, Stage!KeepJob, Stage!KeepFlags, Stage!Fault, Stage!NoFault
  <2> QED
    BY <1>a, <1>c, <2>0, <2>2, <2>3, <2>4, <2>5, <2>9, <2>13, <2>14 DEF Stage!TypeOK
<1>11. CASE Stage!NextStage
  <2>0. UNCHANGED <<r4, r5, r6, r7, r8, r9, r10, r11, r12, r13, r14>>
    BY <1>11 DEF Stage!NextStage, Stage!Goto, Stage!KeepJob, Stage!KeepTmp, Stage!KeepRun, Stage!KeepFlags, Stage!NoFault
  <2>2. r2' \in 1..Len(r1')
    BY <1>a, <1>b, <1>11 DEF Stage!TypeOK, StageFacts, Stage!NextStage, Stage!Goto
  <2>3. r3' \in {"check", "alias", "build", "bind", "trace", "submit", "follow", "artifact",
               "defer", "runalias", "runbind", "exec", "cleanup", "next", "fail", "done",
               "delete", "ended", "killed"}
    BY <1>a, <1>d, <1>11 DEF Stage!TypeOK, Stage!NextStage, Stage!Goto, Stage!KeepJob, Stage!KeepTmp, Stage!KeepRun, Stage!KeepFlags, Stage!NoFault
  <2> QED
    BY <1>a, <1>c, <2>0, <2>2, <2>3 DEF Stage!TypeOK
<1>12. CASE Stage!DeferDelete
  <2>0. UNCHANGED <<r4, r5, r6, r7, r8, r9, r11, r12, r13, r14>>
    BY <1>12 DEF Stage!DeferDelete, Stage!Registers, Stage!Goto, Stage!KeepJob, Stage!KeepTmp, Stage!KeepFlags, Stage!NoFault
  <2>2. r2' \in 1..Len(r1')
    BY <1>e, <1>12 DEF Stage!DeferDelete, Stage!Goto
  <2>3. r3' \in {"check", "alias", "build", "bind", "trace", "submit", "follow", "artifact",
               "defer", "runalias", "runbind", "exec", "cleanup", "next", "fail", "done",
               "delete", "ended", "killed"}
    BY <1>a, <1>d, <1>12 DEF Stage!TypeOK, Stage!DeferDelete, Stage!Registers, Stage!Goto, Stage!KeepJob, Stage!KeepTmp, Stage!KeepFlags, Stage!NoFault
  <2>10. r10' \in BOOLEAN
    BY <1>a, <1>d, <1>12 DEF Stage!TypeOK, Stage!DeferDelete, Stage!Registers, Stage!Goto, Stage!KeepJob, Stage!KeepTmp, Stage!KeepFlags, Stage!NoFault
  <2> QED
    BY <1>a, <1>c, <2>0, <2>2, <2>3, <2>10 DEF Stage!TypeOK
<1>13. CASE Stage!UnknownKind
  <2>0. UNCHANGED <<r4, r5, r6, r7, r8, r9, r10, r11, r12, r13, r14>>
    BY <1>13 DEF Stage!UnknownKind, Stage!Goto, Stage!KeepJob, Stage!KeepTmp, Stage!KeepRun, Stage!KeepFlags, Stage!NoFault
  <2>2. r2' \in 1..Len(r1')
    BY <1>e, <1>13 DEF Stage!UnknownKind, Stage!Goto
  <2>3. r3' \in {"check", "alias", "build", "bind", "trace", "submit", "follow", "artifact",
               "defer", "runalias", "runbind", "exec", "cleanup", "next", "fail", "done",
               "delete", "ended", "killed"}
    BY <1>a, <1>d, <1>13 DEF Stage!TypeOK, Stage!UnknownKind, Stage!Goto, Stage!KeepJob, Stage!KeepTmp, Stage!KeepRun, Stage!KeepFlags, Stage!NoFault
  <2> QED
    BY <1>a, <1>c, <2>0, <2>2, <2>3 DEF Stage!TypeOK
<1>14. CASE Stage!ResolveRunAlias
  <2>0. UNCHANGED <<r5, r6, r7, r8, r9, r10, r11, r12, r14>>
    BY <1>14 DEF Stage!ResolveRunAlias, Stage!OpenRef, Stage!Goto, Stage!KeepJob, Stage!KeepRun, Stage!KeepFlags, Stage!Fault, Stage!NoFault
  <2>2. r2' \in 1..Len(r1')
    BY <1>e, <1>14 DEF Stage!ResolveRunAlias, Stage!Goto, Stage!OpenRef
  <2>3. r3' \in {"check", "alias", "build", "bind", "trace", "submit", "follow", "artifact",
               "defer", "runalias", "runbind", "exec", "cleanup", "next", "fail", "done",
               "delete", "ended", "killed"}
    BY <1>a, <1>d, <1>14 DEF Stage!TypeOK, Stage!ResolveRunAlias, Stage!OpenRef, Stage!Goto, Stage!KeepJob, Stage!KeepRun, Stage!KeepFlags, Stage!Fault, Stage!NoFault
  <2>4. r4' \in SUBSET {"worktree", "stage"}
    BY <1>a, <1>d, <1>14 DEF Stage!TypeOK, Stage!ResolveRunAlias, Stage!OpenRef, Stage!Goto, Stage!KeepJob, Stage!KeepRun, Stage!KeepFlags, Stage!Fault, Stage!NoFault
  <2>13. r13' \in 0..StageFaults
    BY <1>a, <1>d, <1>14 DEF Stage!TypeOK, Stage!ResolveRunAlias, Stage!OpenRef, Stage!Goto, Stage!KeepJob, Stage!KeepRun, Stage!KeepFlags, Stage!Fault, Stage!NoFault
  <2> QED
    BY <1>a, <1>c, <2>0, <2>2, <2>3, <2>4, <2>13 DEF Stage!TypeOK
<1>15. CASE Stage!RunBind
  <2>0. UNCHANGED <<r6, r7, r8, r9, r10, r11, r12, r14>>
    BY <1>15 DEF Stage!RunBind, Stage!RefCleanup, Stage!Goto, Stage!KeepJob, Stage!KeepRun, Stage!KeepFlags, Stage!Fault, Stage!NoFault
  <2>2. r2' \in 1..Len(r1')
    BY <1>e, <1>15 DEF Stage!RunBind, Stage!Goto
  <2>3. r3' \in {"check", "alias", "build", "bind", "trace", "submit", "follow", "artifact",
               "defer", "runalias", "runbind", "exec", "cleanup", "next", "fail", "done",
               "delete", "ended", "killed"}
    BY <1>a, <1>d, <1>15 DEF Stage!TypeOK, Stage!RunBind, Stage!RefCleanup, Stage!Goto, Stage!KeepJob, Stage!KeepRun, Stage!KeepFlags, Stage!Fault, Stage!NoFault
  <2>4. r4' \in SUBSET {"worktree", "stage"}
    BY <1>a, <1>d, <1>15 DEF Stage!TypeOK, Stage!RunBind, Stage!RefCleanup, Stage!Goto, Stage!KeepJob, Stage!KeepRun, Stage!KeepFlags, Stage!Fault, Stage!NoFault
  <2>5. r5' \in SUBSET {"worktree", "stage"}
    BY <1>a, <1>d, <1>15 DEF Stage!TypeOK, Stage!RunBind, Stage!RefCleanup, Stage!Goto, Stage!KeepJob, Stage!KeepRun, Stage!KeepFlags, Stage!Fault, Stage!NoFault
  <2>13. r13' \in 0..StageFaults
    BY <1>a, <1>d, <1>15 DEF Stage!TypeOK, Stage!RunBind, Stage!RefCleanup, Stage!Goto, Stage!KeepJob, Stage!KeepRun, Stage!KeepFlags, Stage!Fault, Stage!NoFault
  <2> QED
    BY <1>a, <1>c, <2>0, <2>2, <2>3, <2>4, <2>5, <2>13 DEF Stage!TypeOK
<1>16. CASE Stage!Exec
  <2>0. UNCHANGED <<r4, r5, r6, r7, r8, r9, r10, r11, r12, r14>>
    BY <1>16 DEF Stage!Exec, Stage!Goto, Stage!KeepJob, Stage!KeepTmp, Stage!KeepRun, Stage!KeepFlags, Stage!Fault, Stage!NoFault
  <2>2. r2' \in 1..Len(r1')
    BY <1>e, <1>16 DEF Stage!Exec, Stage!Goto
  <2>3. r3' \in {"check", "alias", "build", "bind", "trace", "submit", "follow", "artifact",
               "defer", "runalias", "runbind", "exec", "cleanup", "next", "fail", "done",
               "delete", "ended", "killed"}
    BY <1>a, <1>d, <1>16 DEF Stage!TypeOK, Stage!Exec, Stage!Goto, Stage!KeepJob, Stage!KeepTmp, Stage!KeepRun, Stage!KeepFlags, Stage!Fault, Stage!NoFault
  <2>13. r13' \in 0..StageFaults
    BY <1>a, <1>d, <1>16 DEF Stage!TypeOK, Stage!Exec, Stage!Goto, Stage!KeepJob, Stage!KeepTmp, Stage!KeepRun, Stage!KeepFlags, Stage!Fault, Stage!NoFault
  <2> QED
    BY <1>a, <1>c, <2>0, <2>2, <2>3, <2>13 DEF Stage!TypeOK
<1>17. CASE Stage!Fail
  <2>0. UNCHANGED <<r4, r5, r6, r7, r8, r9, r10, r11, r12, r13, r14>>
    BY <1>17 DEF Stage!Fail, Stage!Goto, Stage!KeepJob, Stage!KeepTmp, Stage!KeepRun, Stage!KeepFlags, Stage!NoFault
  <2>2. r2' \in 1..Len(r1')
    BY <1>e, <1>17 DEF Stage!Fail, Stage!Goto
  <2>3. r3' \in {"check", "alias", "build", "bind", "trace", "submit", "follow", "artifact",
               "defer", "runalias", "runbind", "exec", "cleanup", "next", "fail", "done",
               "delete", "ended", "killed"}
    BY <1>a, <1>d, <1>17 DEF Stage!TypeOK, Stage!Fail, Stage!Goto, Stage!KeepJob, Stage!KeepTmp, Stage!KeepRun, Stage!KeepFlags, Stage!NoFault
  <2> QED
    BY <1>a, <1>c, <2>0, <2>2, <2>3 DEF Stage!TypeOK
<1>18. CASE Stage!Return
  <2>0. UNCHANGED <<r4, r5, r6, r7, r8, r9, r10, r11, r12, r13, r14>>
    BY <1>18 DEF Stage!Return, Stage!Goto, Stage!KeepJob, Stage!KeepTmp, Stage!KeepRun, Stage!KeepFlags, Stage!NoFault
  <2>2. r2' \in 1..Len(r1')
    BY <1>e, <1>18 DEF Stage!Return, Stage!Goto
  <2>3. r3' \in {"check", "alias", "build", "bind", "trace", "submit", "follow", "artifact",
               "defer", "runalias", "runbind", "exec", "cleanup", "next", "fail", "done",
               "delete", "ended", "killed"}
    BY <1>a, <1>d, <1>18 DEF Stage!TypeOK, Stage!Return, Stage!Goto, Stage!KeepJob, Stage!KeepTmp, Stage!KeepRun, Stage!KeepFlags, Stage!NoFault
  <2> QED
    BY <1>a, <1>c, <2>0, <2>2, <2>3 DEF Stage!TypeOK
<1>19. CASE Stage!DeleteInstance
  <2>0. UNCHANGED <<r4, r5, r6, r7, r9, r10, r11, r12>>
    BY <1>19 DEF Stage!DeleteInstance, Stage!Goto, Stage!KeepRun, Stage!KeepFlags, Stage!Fault, Stage!NoFault
  <2>2. r2' \in 1..Len(r1')
    BY <1>e, <1>19 DEF Stage!DeleteInstance, Stage!Goto
  <2>3. r3' \in {"check", "alias", "build", "bind", "trace", "submit", "follow", "artifact",
               "defer", "runalias", "runbind", "exec", "cleanup", "next", "fail", "done",
               "delete", "ended", "killed"}
    BY <1>a, <1>d, <1>19 DEF Stage!TypeOK, Stage!DeleteInstance, Stage!Goto, Stage!KeepRun, Stage!KeepFlags, Stage!Fault, Stage!NoFault
  <2>8. r8' \in {"none", "live", "gone"}
    BY <1>a, <1>d, <1>19 DEF Stage!TypeOK, Stage!DeleteInstance, Stage!Goto, Stage!KeepRun, Stage!KeepFlags, Stage!Fault, Stage!NoFault
  <2>13. r13' \in 0..StageFaults
    BY <1>a, <1>d, <1>19 DEF Stage!TypeOK, Stage!DeleteInstance, Stage!Goto, Stage!KeepRun, Stage!KeepFlags, Stage!Fault, Stage!NoFault
  <2>14. r14' \in SUBSET {"worktree", "stage", "instance"}
    BY <1>a, <1>d, <1>19 DEF Stage!TypeOK, Stage!DeleteInstance, Stage!Goto, Stage!KeepRun, Stage!KeepFlags, Stage!Fault, Stage!NoFault
  <2> QED
    BY <1>a, <1>c, <2>0, <2>2, <2>3, <2>8, <2>13, <2>14 DEF Stage!TypeOK
<1>20. CASE Stage!Kill
  <2>0. UNCHANGED <<r4, r5, r6, r7, r8, r9, r10, r11, r12, r14>>
    BY <1>20 DEF Stage!Kill, Stage!Goto, Stage!KeepJob, Stage!KeepTmp, Stage!KeepRun, Stage!KeepFlags, Stage!Fault
  <2>2. r2' \in 1..Len(r1')
    BY <1>e, <1>20 DEF Stage!Kill, Stage!Goto
  <2>3. r3' \in {"check", "alias", "build", "bind", "trace", "submit", "follow", "artifact",
               "defer", "runalias", "runbind", "exec", "cleanup", "next", "fail", "done",
               "delete", "ended", "killed"}
    BY <1>a, <1>d, <1>20 DEF Stage!TypeOK, Stage!Kill, Stage!Goto, Stage!KeepJob, Stage!KeepTmp, Stage!KeepRun, Stage!KeepFlags, Stage!Fault
  <2>13. r13' \in 0..StageFaults
    BY <1>a, <1>d, <1>20 DEF Stage!TypeOK, Stage!Kill, Stage!Goto, Stage!KeepJob, Stage!KeepTmp, Stage!KeepRun, Stage!KeepFlags, Stage!Fault
  <2> QED
    BY <1>a, <1>c, <2>0, <2>2, <2>3, <2>13 DEF Stage!TypeOK
<1>21. CASE UNCHANGED Stage!vars
  BY <1>a, <1>c, <1>e, <1>21 DEF Stage!TypeOK, Stage!vars
<1> QED
  BY <1>1, <1>2, <1>3, <1>4, <1>5, <1>6, <1>7, <1>8, <1>9, <1>10, <1>11, <1>12, <1>13, <1>14, <1>15, <1>16, <1>17, <1>18, <1>19, <1>20, <1>21 DEF Stage!Next

\* Every step of a command line keeps: a stage without a ref has no directories.
LEMMA NoRefNoTempsStep ==
  Stage!IInv /\ [Stage!Next]_(Stage!vars) /\ Stage!TypeOK' => Stage!NoRefNoTemps'
<1> SUFFICES ASSUME Stage!IInv, [Stage!Next]_(Stage!vars), Stage!TypeOK'
             PROVE  Stage!NoRefNoTemps'
  OBVIOUS
<1>a. Stage!TypeOK /\ r1 \in Stage!CommandLines /\ StageFacts
  BY StageUnderWay DEF Stage!IInv, Stage!TypeOK
<1>b. Stage!NoRefNoTemps /\ Stage!TempsOwned /\ Stage!JobFollowed /\ Stage!DeletionDue
  BY DEF Stage!IInv
<1>d. Stage!NoRefNoTemps
  BY <1>b
<1>c. r1' = r1 /\ (r2' = r2 => Stage!stage' = Stage!stage)
  BY StageKept
<1>1. CASE Stage!Check
  BY <1>a, <1>d, <1>c, <1>1
     DEF StageFacts, Stage!Check, Stage!Goto, Stage!KeepJob, Stage!KeepTmp, Stage!KeepRun, Stage!KeepFlags, Stage!NoFault,
         Stage!NoRefNoTemps, Stage!Composite
<1>2. CASE Stage!ResolveAlias
  BY <1>a, <1>d, <1>c, <1>2
     DEF StageFacts, Stage!ResolveAlias, Stage!OpenRef, Stage!Goto, Stage!KeepJob, Stage!KeepRun, Stage!KeepFlags, Stage!Fault, Stage!NoFault,
         Stage!NoRefNoTemps, Stage!Composite
<1>3. CASE Stage!BuildRuntime
  BY <1>a, <1>d, <1>c, <1>3
     DEF StageFacts, Stage!BuildRuntime, Stage!OpenRef, Stage!Goto, Stage!KeepJob, Stage!KeepRun, Stage!Fault, Stage!NoFault,
         Stage!NoRefNoTemps, Stage!Composite
<1>4. CASE Stage!Bind
  BY <1>a, <1>d, <1>c, <1>4
     DEF StageFacts, Stage!Bind, Stage!RefCleanup, Stage!BindCleanup, Stage!Staging, Stage!Goto, Stage!KeepJob, Stage!KeepRun, Stage!KeepFlags, Stage!Fault, Stage!NoFault,
         Stage!NoRefNoTemps, Stage!Composite
<1>5. CASE Stage!Trace
  BY <1>a, <1>d, <1>c, <1>5
     DEF StageFacts, Stage!Trace, Stage!Goto, Stage!KeepJob, Stage!KeepTmp, Stage!KeepRun, Stage!KeepFlags, Stage!Fault, Stage!NoFault,
         Stage!NoRefNoTemps, Stage!Composite
<1>6. CASE Stage!Submit
  BY <1>a, <1>d, <1>c, <1>6
     DEF StageFacts, Stage!Submit, Stage!Goto, Stage!KeepJob, Stage!KeepTmp, Stage!KeepRun, Stage!KeepFlags, Stage!Fault, Stage!NoFault,
         Stage!NoRefNoTemps, Stage!Composite
<1>7. CASE Stage!JobEnds
  BY <1>a, <1>d, <1>c, <1>7
     DEF StageFacts, Stage!JobEnds, Stage!KeepTmp, Stage!KeepRun, Stage!KeepFlags, Stage!NoFault,
         Stage!NoRefNoTemps, Stage!Composite
<1>8. CASE Stage!Follow
  BY <1>a, <1>d, <1>c, <1>8
     DEF StageFacts, Stage!Follow, Stage!MayDetach, Stage!Goto, Stage!KeepJob, Stage!KeepTmp, Stage!Fault, Stage!NoFault,
         Stage!NoRefNoTemps, Stage!Composite
<1>9. CASE Stage!WriteArtifact
  BY <1>a, <1>d, <1>c, <1>9
     DEF StageFacts, Stage!WriteArtifact, Stage!Goto, Stage!KeepJob, Stage!KeepTmp, Stage!KeepFlags, Stage!Fault, Stage!NoFault,
         Stage!NoRefNoTemps, Stage!Composite
<1>10. CASE Stage!Cleanup
  BY <1>a, <1>d, <1>c, <1>10
     DEF StageFacts, Stage!Cleanup, Stage!Goto, Stage!KeepJob, Stage!KeepFlags, Stage!Fault, Stage!NoFault,
         Stage!NoRefNoTemps, Stage!Composite
<1>11. CASE Stage!NextStage
  BY <1>a, <1>b, <1>c, <1>11
     DEF StageFacts, Stage!NextStage, Stage!Goto, Stage!KeepJob, Stage!KeepTmp, Stage!KeepRun, Stage!KeepFlags, Stage!NoFault,
         Stage!NoRefNoTemps, Stage!Composite, Stage!TempsOwned, Stage!Spared, Stage!EndSteps, Stage!JobFollowed, Stage!DeletionDue, Stage!PrepareSteps, Stage!stage
<1>12. CASE Stage!DeferDelete
  BY <1>a, <1>d, <1>c, <1>12
     DEF StageFacts, Stage!DeferDelete, Stage!Registers, Stage!Goto, Stage!KeepJob, Stage!KeepTmp, Stage!KeepFlags, Stage!NoFault,
         Stage!NoRefNoTemps, Stage!Composite
<1>13. CASE Stage!UnknownKind
  BY <1>a, <1>d, <1>c, <1>13
     DEF StageFacts, Stage!UnknownKind, Stage!Goto, Stage!KeepJob, Stage!KeepTmp, Stage!KeepRun, Stage!KeepFlags, Stage!NoFault,
         Stage!NoRefNoTemps, Stage!Composite
<1>14. CASE Stage!ResolveRunAlias
  BY <1>a, <1>d, <1>c, <1>14
     DEF StageFacts, Stage!ResolveRunAlias, Stage!OpenRef, Stage!Goto, Stage!KeepJob, Stage!KeepRun, Stage!KeepFlags, Stage!Fault, Stage!NoFault,
         Stage!NoRefNoTemps, Stage!Composite
<1>15. CASE Stage!RunBind
  BY <1>a, <1>d, <1>c, <1>15
     DEF StageFacts, Stage!RunBind, Stage!RefCleanup, Stage!Goto, Stage!KeepJob, Stage!KeepRun, Stage!KeepFlags, Stage!Fault, Stage!NoFault,
         Stage!NoRefNoTemps, Stage!Composite
<1>16. CASE Stage!Exec
  BY <1>a, <1>d, <1>c, <1>16
     DEF StageFacts, Stage!Exec, Stage!Goto, Stage!KeepJob, Stage!KeepTmp, Stage!KeepRun, Stage!KeepFlags, Stage!Fault, Stage!NoFault,
         Stage!NoRefNoTemps, Stage!Composite
<1>17. CASE Stage!Fail
  BY <1>a, <1>d, <1>c, <1>17
     DEF StageFacts, Stage!Fail, Stage!Goto, Stage!KeepJob, Stage!KeepTmp, Stage!KeepRun, Stage!KeepFlags, Stage!NoFault,
         Stage!NoRefNoTemps, Stage!Composite
<1>18. CASE Stage!Return
  BY <1>a, <1>d, <1>c, <1>18
     DEF StageFacts, Stage!Return, Stage!Goto, Stage!KeepJob, Stage!KeepTmp, Stage!KeepRun, Stage!KeepFlags, Stage!NoFault,
         Stage!NoRefNoTemps, Stage!Composite
<1>19. CASE Stage!DeleteInstance
  BY <1>a, <1>d, <1>c, <1>19
     DEF StageFacts, Stage!DeleteInstance, Stage!Goto, Stage!KeepRun, Stage!KeepFlags, Stage!Fault, Stage!NoFault,
         Stage!NoRefNoTemps, Stage!Composite
<1>20. CASE Stage!Kill
  BY <1>a, <1>d, <1>c, <1>20
     DEF StageFacts, Stage!Kill, Stage!Goto, Stage!KeepJob, Stage!KeepTmp, Stage!KeepRun, Stage!KeepFlags, Stage!Fault,
         Stage!NoRefNoTemps, Stage!Composite
<1>21. CASE UNCHANGED Stage!vars
  BY <1>a, <1>b, <1>21 DEF Stage!vars, Stage!NoRefNoTemps, Stage!Composite, Stage!stage
<1> QED
  BY <1>1, <1>2, <1>3, <1>4, <1>5, <1>6, <1>7, <1>8, <1>9, <1>10, <1>11, <1>12, <1>13, <1>14, <1>15, <1>16, <1>17, <1>18, <1>19, <1>20, <1>21 DEF Stage!Next

\* Every step of a command line keeps: the directories have an owner.
LEMMA TempsOwnedStep ==
  Stage!IInv /\ [Stage!Next]_(Stage!vars) /\ Stage!TypeOK' => Stage!TempsOwned'
<1> SUFFICES ASSUME Stage!IInv, [Stage!Next]_(Stage!vars), Stage!TypeOK'
             PROVE  Stage!TempsOwned'
  OBVIOUS
<1>a. Stage!TypeOK /\ r1 \in Stage!CommandLines /\ StageFacts
  BY StageUnderWay DEF Stage!IInv, Stage!TypeOK
<1>b. Stage!NoRefNoTemps /\ Stage!TempsOwned /\ Stage!JobFollowed /\ Stage!DeletionDue
  BY DEF Stage!IInv
<1>d. Stage!TempsOwned
  BY <1>b
<1>c. r1' = r1 /\ (r2' = r2 => Stage!stage' = Stage!stage)
  BY StageKept
<1>1. CASE Stage!Check
  BY <1>a, <1>d, <1>c, <1>1
     DEF StageFacts, Stage!Check, Stage!Composite, Stage!Goto, Stage!KeepJob, Stage!KeepTmp, Stage!KeepRun, Stage!KeepFlags, Stage!NoFault,
         Stage!TempsOwned, Stage!Spared, Stage!EndSteps
<1>2. CASE Stage!ResolveAlias
  BY <1>a, <1>b, <1>c, <1>2
     DEF StageFacts, Stage!ResolveAlias, Stage!OpenRef, Stage!Goto, Stage!KeepJob, Stage!KeepRun, Stage!KeepFlags, Stage!Fault, Stage!NoFault,
         Stage!NoRefNoTemps, Stage!Composite, Stage!TempsOwned, Stage!Spared, Stage!EndSteps, Stage!JobFollowed, Stage!DeletionDue, Stage!PrepareSteps
<1>3. CASE Stage!BuildRuntime
  BY <1>a, <1>b, <1>c, <1>3
     DEF StageFacts, Stage!BuildRuntime, Stage!OpenRef, Stage!Goto, Stage!KeepJob, Stage!KeepRun, Stage!Fault, Stage!NoFault,
         Stage!NoRefNoTemps, Stage!Composite, Stage!TempsOwned, Stage!Spared, Stage!EndSteps, Stage!JobFollowed, Stage!DeletionDue, Stage!PrepareSteps
<1>4. CASE Stage!Bind
  BY <1>a, <1>d, <1>c, <1>4
     DEF StageFacts, Stage!Bind, Stage!RefCleanup, Stage!BindCleanup, Stage!Staging, Stage!Goto, Stage!KeepJob, Stage!KeepRun, Stage!KeepFlags, Stage!Fault, Stage!NoFault,
         Stage!TempsOwned, Stage!Spared, Stage!EndSteps
<1>5. CASE Stage!Trace
  BY <1>a, <1>d, <1>c, <1>5
     DEF StageFacts, Stage!Trace, Stage!Goto, Stage!KeepJob, Stage!KeepTmp, Stage!KeepRun, Stage!KeepFlags, Stage!Fault, Stage!NoFault,
         Stage!TempsOwned, Stage!Spared, Stage!EndSteps
<1>6. CASE Stage!Submit
  BY <1>a, <1>d, <1>c, <1>6
     DEF StageFacts, Stage!Submit, Stage!Goto, Stage!KeepJob, Stage!KeepTmp, Stage!KeepRun, Stage!KeepFlags, Stage!Fault, Stage!NoFault,
         Stage!TempsOwned, Stage!Spared, Stage!EndSteps
<1>7. CASE Stage!JobEnds
  BY <1>a, <1>d, <1>c, <1>7
     DEF StageFacts, Stage!JobEnds, Stage!KeepTmp, Stage!KeepRun, Stage!KeepFlags, Stage!NoFault,
         Stage!TempsOwned, Stage!Spared, Stage!EndSteps
<1>8. CASE Stage!Follow
  BY <1>a, <1>d, <1>c, <1>8
     DEF StageFacts, Stage!Follow, Stage!MayDetach, Stage!Goto, Stage!KeepJob, Stage!KeepTmp, Stage!Fault, Stage!NoFault,
         Stage!TempsOwned, Stage!Spared, Stage!EndSteps
<1>9. CASE Stage!WriteArtifact
  BY <1>a, <1>d, <1>c, <1>9
     DEF StageFacts, Stage!WriteArtifact, Stage!Goto, Stage!KeepJob, Stage!KeepTmp, Stage!KeepFlags, Stage!Fault, Stage!NoFault,
         Stage!TempsOwned, Stage!Spared, Stage!EndSteps
<1>10. CASE Stage!Cleanup
  BY <1>a, <1>d, <1>c, <1>10
     DEF StageFacts, Stage!Cleanup, Stage!Goto, Stage!KeepJob, Stage!KeepFlags, Stage!Fault, Stage!NoFault,
         Stage!TempsOwned, Stage!Spared, Stage!EndSteps
<1>11. CASE Stage!NextStage
  BY <1>a, <1>b, <1>c, <1>11
     DEF StageFacts, Stage!NextStage, Stage!Goto, Stage!KeepJob, Stage!KeepTmp, Stage!KeepRun, Stage!KeepFlags, Stage!NoFault,
         Stage!NoRefNoTemps, Stage!Composite, Stage!TempsOwned, Stage!Spared, Stage!EndSteps, Stage!JobFollowed, Stage!DeletionDue, Stage!PrepareSteps, Stage!stage
<1>12. CASE Stage!DeferDelete
  BY <1>a, <1>d, <1>c, <1>12
     DEF StageFacts, Stage!DeferDelete, Stage!Registers, Stage!Goto, Stage!KeepJob, Stage!KeepTmp, Stage!KeepFlags, Stage!NoFault,
         Stage!TempsOwned, Stage!Spared, Stage!EndSteps
<1>13. CASE Stage!UnknownKind
  BY <1>a, <1>d, <1>c, <1>13
     DEF StageFacts, Stage!UnknownKind, Stage!Goto, Stage!KeepJob, Stage!KeepTmp, Stage!KeepRun, Stage!KeepFlags, Stage!NoFault,
         Stage!TempsOwned, Stage!Spared, Stage!EndSteps
<1>14. CASE Stage!ResolveRunAlias
  BY <1>a, <1>d, <1>c, <1>14
     DEF StageFacts, Stage!ResolveRunAlias, Stage!OpenRef, Stage!Goto, Stage!KeepJob, Stage!KeepRun, Stage!KeepFlags, Stage!Fault, Stage!NoFault,
         Stage!TempsOwned, Stage!Spared, Stage!EndSteps
<1>15. CASE Stage!RunBind
  BY <1>a, <1>d, <1>c, <1>15
     DEF StageFacts, Stage!RunBind, Stage!RefCleanup, Stage!Goto, Stage!KeepJob, Stage!KeepRun, Stage!KeepFlags, Stage!Fault, Stage!NoFault,
         Stage!TempsOwned, Stage!Spared, Stage!EndSteps
<1>16. CASE Stage!Exec
  BY <1>a, <1>d, <1>c, <1>16
     DEF StageFacts, Stage!Exec, Stage!Goto, Stage!KeepJob, Stage!KeepTmp, Stage!KeepRun, Stage!KeepFlags, Stage!Fault, Stage!NoFault,
         Stage!TempsOwned, Stage!Spared, Stage!EndSteps
<1>17. CASE Stage!Fail
  BY <1>a, <1>d, <1>c, <1>17
     DEF StageFacts, Stage!Fail, Stage!Goto, Stage!KeepJob, Stage!KeepTmp, Stage!KeepRun, Stage!KeepFlags, Stage!NoFault,
         Stage!TempsOwned, Stage!Spared, Stage!EndSteps
<1>18. CASE Stage!Return
  BY <1>a, <1>d, <1>c, <1>18
     DEF StageFacts, Stage!Return, Stage!Goto, Stage!KeepJob, Stage!KeepTmp, Stage!KeepRun, Stage!KeepFlags, Stage!NoFault,
         Stage!TempsOwned, Stage!Spared, Stage!EndSteps
<1>19. CASE Stage!DeleteInstance
  BY <1>a, <1>d, <1>c, <1>19
     DEF StageFacts, Stage!DeleteInstance, Stage!Goto, Stage!KeepRun, Stage!KeepFlags, Stage!Fault, Stage!NoFault,
         Stage!TempsOwned, Stage!Spared, Stage!EndSteps
<1>20. CASE Stage!Kill
  BY <1>a, <1>d, <1>c, <1>20
     DEF StageFacts, Stage!Kill, Stage!Goto, Stage!KeepJob, Stage!KeepTmp, Stage!KeepRun, Stage!KeepFlags, Stage!Fault,
         Stage!TempsOwned, Stage!Spared, Stage!EndSteps
<1>21. CASE UNCHANGED Stage!vars
  BY <1>a, <1>b, <1>21 DEF Stage!vars, Stage!TempsOwned, Stage!Spared, Stage!EndSteps, Stage!stage
<1> QED
  BY <1>1, <1>2, <1>3, <1>4, <1>5, <1>6, <1>7, <1>8, <1>9, <1>10, <1>11, <1>12, <1>13, <1>14, <1>15, <1>16, <1>17, <1>18, <1>19, <1>20, <1>21 DEF Stage!Next

\* Every step of a command line keeps: a job with a ref is followed.
LEMMA JobFollowedStep ==
  Stage!IInv /\ [Stage!Next]_(Stage!vars) /\ Stage!TypeOK' => Stage!JobFollowed'
<1> SUFFICES ASSUME Stage!IInv, [Stage!Next]_(Stage!vars), Stage!TypeOK'
             PROVE  Stage!JobFollowed'
  OBVIOUS
<1>a. Stage!TypeOK /\ r1 \in Stage!CommandLines /\ StageFacts
  BY StageUnderWay DEF Stage!IInv, Stage!TypeOK
<1>b. Stage!NoRefNoTemps /\ Stage!TempsOwned /\ Stage!JobFollowed /\ Stage!DeletionDue
  BY DEF Stage!IInv
<1>d. Stage!JobFollowed
  BY <1>b
<1>c. r1' = r1 /\ (r2' = r2 => Stage!stage' = Stage!stage)
  BY StageKept
<1>1. CASE Stage!Check
  BY <1>a, <1>d, <1>c, <1>1
     DEF StageFacts, Stage!Check, Stage!Composite, Stage!Goto, Stage!KeepJob, Stage!KeepTmp, Stage!KeepRun, Stage!KeepFlags, Stage!NoFault,
         Stage!JobFollowed
<1>2. CASE Stage!ResolveAlias
  BY <1>a, <1>d, <1>c, <1>2
     DEF StageFacts, Stage!ResolveAlias, Stage!OpenRef, Stage!Goto, Stage!KeepJob, Stage!KeepRun, Stage!KeepFlags, Stage!Fault, Stage!NoFault,
         Stage!JobFollowed
<1>3. CASE Stage!BuildRuntime
  BY <1>a, <1>d, <1>c, <1>3
     DEF StageFacts, Stage!BuildRuntime, Stage!OpenRef, Stage!Goto, Stage!KeepJob, Stage!KeepRun, Stage!Fault, Stage!NoFault,
         Stage!JobFollowed
<1>4. CASE Stage!Bind
  BY <1>a, <1>d, <1>c, <1>4
     DEF StageFacts, Stage!Bind, Stage!RefCleanup, Stage!BindCleanup, Stage!Staging, Stage!Goto, Stage!KeepJob, Stage!KeepRun, Stage!KeepFlags, Stage!Fault, Stage!NoFault,
         Stage!JobFollowed
<1>5. CASE Stage!Trace
  BY <1>a, <1>d, <1>c, <1>5
     DEF StageFacts, Stage!Trace, Stage!Goto, Stage!KeepJob, Stage!KeepTmp, Stage!KeepRun, Stage!KeepFlags, Stage!Fault, Stage!NoFault,
         Stage!JobFollowed
<1>6. CASE Stage!Submit
  BY <1>a, <1>b, <1>c, <1>6
     DEF StageFacts, Stage!Submit, Stage!Goto, Stage!KeepJob, Stage!KeepTmp, Stage!KeepRun, Stage!KeepFlags, Stage!Fault, Stage!NoFault,
         Stage!NoRefNoTemps, Stage!Composite, Stage!TempsOwned, Stage!Spared, Stage!EndSteps, Stage!JobFollowed, Stage!DeletionDue, Stage!PrepareSteps
<1>7. CASE Stage!JobEnds
  BY <1>a, <1>d, <1>c, <1>7
     DEF StageFacts, Stage!JobEnds, Stage!KeepTmp, Stage!KeepRun, Stage!KeepFlags, Stage!NoFault,
         Stage!JobFollowed
<1>8. CASE Stage!Follow
  BY <1>a, <1>d, <1>c, <1>8
     DEF StageFacts, Stage!Follow, Stage!MayDetach, Stage!Goto, Stage!KeepJob, Stage!KeepTmp, Stage!Fault, Stage!NoFault,
         Stage!JobFollowed
<1>9. CASE Stage!WriteArtifact
  BY <1>a, <1>d, <1>c, <1>9
     DEF StageFacts, Stage!WriteArtifact, Stage!Goto, Stage!KeepJob, Stage!KeepTmp, Stage!KeepFlags, Stage!Fault, Stage!NoFault,
         Stage!JobFollowed
<1>10. CASE Stage!Cleanup
  BY <1>a, <1>b, <1>c, <1>10
     DEF StageFacts, Stage!Cleanup, Stage!Goto, Stage!KeepJob, Stage!KeepFlags, Stage!Fault, Stage!NoFault,
         Stage!NoRefNoTemps, Stage!Composite, Stage!TempsOwned, Stage!Spared, Stage!EndSteps, Stage!JobFollowed, Stage!DeletionDue, Stage!PrepareSteps
<1>11. CASE Stage!NextStage
  BY <1>a, <1>b, <1>c, <1>11
     DEF StageFacts, Stage!NextStage, Stage!Goto, Stage!KeepJob, Stage!KeepTmp, Stage!KeepRun, Stage!KeepFlags, Stage!NoFault,
         Stage!NoRefNoTemps, Stage!Composite, Stage!TempsOwned, Stage!Spared, Stage!EndSteps, Stage!JobFollowed, Stage!DeletionDue, Stage!PrepareSteps, Stage!stage
<1>12. CASE Stage!DeferDelete
  BY <1>a, <1>d, <1>c, <1>12
     DEF StageFacts, Stage!DeferDelete, Stage!Registers, Stage!Goto, Stage!KeepJob, Stage!KeepTmp, Stage!KeepFlags, Stage!NoFault,
         Stage!JobFollowed
<1>13. CASE Stage!UnknownKind
  BY <1>a, <1>d, <1>c, <1>13
     DEF StageFacts, Stage!UnknownKind, Stage!Goto, Stage!KeepJob, Stage!KeepTmp, Stage!KeepRun, Stage!KeepFlags, Stage!NoFault,
         Stage!JobFollowed
<1>14. CASE Stage!ResolveRunAlias
  BY <1>a, <1>d, <1>c, <1>14
     DEF StageFacts, Stage!ResolveRunAlias, Stage!OpenRef, Stage!Goto, Stage!KeepJob, Stage!KeepRun, Stage!KeepFlags, Stage!Fault, Stage!NoFault,
         Stage!JobFollowed
<1>15. CASE Stage!RunBind
  BY <1>a, <1>d, <1>c, <1>15
     DEF StageFacts, Stage!RunBind, Stage!RefCleanup, Stage!Goto, Stage!KeepJob, Stage!KeepRun, Stage!KeepFlags, Stage!Fault, Stage!NoFault,
         Stage!JobFollowed
<1>16. CASE Stage!Exec
  BY <1>a, <1>d, <1>c, <1>16
     DEF StageFacts, Stage!Exec, Stage!Goto, Stage!KeepJob, Stage!KeepTmp, Stage!KeepRun, Stage!KeepFlags, Stage!Fault, Stage!NoFault,
         Stage!JobFollowed
<1>17. CASE Stage!Fail
  BY <1>a, <1>d, <1>c, <1>17
     DEF StageFacts, Stage!Fail, Stage!Goto, Stage!KeepJob, Stage!KeepTmp, Stage!KeepRun, Stage!KeepFlags, Stage!NoFault,
         Stage!JobFollowed
<1>18. CASE Stage!Return
  BY <1>a, <1>d, <1>c, <1>18
     DEF StageFacts, Stage!Return, Stage!Goto, Stage!KeepJob, Stage!KeepTmp, Stage!KeepRun, Stage!KeepFlags, Stage!NoFault,
         Stage!JobFollowed
<1>19. CASE Stage!DeleteInstance
  BY <1>a, <1>d, <1>c, <1>19
     DEF StageFacts, Stage!DeleteInstance, Stage!Goto, Stage!KeepRun, Stage!KeepFlags, Stage!Fault, Stage!NoFault,
         Stage!JobFollowed
<1>20. CASE Stage!Kill
  BY <1>a, <1>d, <1>c, <1>20
     DEF StageFacts, Stage!Kill, Stage!Goto, Stage!KeepJob, Stage!KeepTmp, Stage!KeepRun, Stage!KeepFlags, Stage!Fault,
         Stage!JobFollowed
<1>21. CASE UNCHANGED Stage!vars
  BY <1>a, <1>b, <1>21 DEF Stage!vars, Stage!JobFollowed, Stage!stage
<1> QED
  BY <1>1, <1>2, <1>3, <1>4, <1>5, <1>6, <1>7, <1>8, <1>9, <1>10, <1>11, <1>12, <1>13, <1>14, <1>15, <1>16, <1>17, <1>18, <1>19, <1>20, <1>21 DEF Stage!Next

\* Every step of a command line keeps: the deletion of the instance is due.
LEMMA DeletionDueStep ==
  Stage!IInv /\ [Stage!Next]_(Stage!vars) /\ Stage!TypeOK' => Stage!DeletionDue'
<1> SUFFICES ASSUME Stage!IInv, [Stage!Next]_(Stage!vars), Stage!TypeOK'
             PROVE  Stage!DeletionDue'
  OBVIOUS
<1>a. Stage!TypeOK /\ r1 \in Stage!CommandLines /\ StageFacts
  BY StageUnderWay DEF Stage!IInv, Stage!TypeOK
<1>b. Stage!NoRefNoTemps /\ Stage!TempsOwned /\ Stage!JobFollowed /\ Stage!DeletionDue
  BY DEF Stage!IInv
<1>d. Stage!DeletionDue
  BY <1>b
<1>c. r1' = r1 /\ (r2' = r2 => Stage!stage' = Stage!stage)
  BY StageKept
<1>1. CASE Stage!Check
  BY <1>a, <1>d, <1>c, <1>1
     DEF StageFacts, Stage!Check, Stage!Composite, Stage!Goto, Stage!KeepJob, Stage!KeepTmp, Stage!KeepRun, Stage!KeepFlags, Stage!NoFault,
         Stage!DeletionDue, Stage!PrepareSteps
<1>2. CASE Stage!ResolveAlias
  BY <1>a, <1>d, <1>c, <1>2
     DEF StageFacts, Stage!ResolveAlias, Stage!OpenRef, Stage!Goto, Stage!KeepJob, Stage!KeepRun, Stage!KeepFlags, Stage!Fault, Stage!NoFault,
         Stage!DeletionDue, Stage!PrepareSteps
<1>3. CASE Stage!BuildRuntime
  BY <1>a, <1>d, <1>c, <1>3
     DEF StageFacts, Stage!BuildRuntime, Stage!OpenRef, Stage!Goto, Stage!KeepJob, Stage!KeepRun, Stage!Fault, Stage!NoFault,
         Stage!DeletionDue, Stage!PrepareSteps
<1>4. CASE Stage!Bind
  BY <1>a, <1>d, <1>c, <1>4
     DEF StageFacts, Stage!Bind, Stage!RefCleanup, Stage!BindCleanup, Stage!Staging, Stage!Goto, Stage!KeepJob, Stage!KeepRun, Stage!KeepFlags, Stage!Fault, Stage!NoFault,
         Stage!DeletionDue, Stage!PrepareSteps
<1>5. CASE Stage!Trace
  BY <1>a, <1>d, <1>c, <1>5
     DEF StageFacts, Stage!Trace, Stage!Goto, Stage!KeepJob, Stage!KeepTmp, Stage!KeepRun, Stage!KeepFlags, Stage!Fault, Stage!NoFault,
         Stage!DeletionDue, Stage!PrepareSteps
<1>6. CASE Stage!Submit
  BY <1>a, <1>b, <1>c, <1>6
     DEF StageFacts, Stage!Submit, Stage!Goto, Stage!KeepJob, Stage!KeepTmp, Stage!KeepRun, Stage!KeepFlags, Stage!Fault, Stage!NoFault,
         Stage!NoRefNoTemps, Stage!Composite, Stage!TempsOwned, Stage!Spared, Stage!EndSteps, Stage!JobFollowed, Stage!DeletionDue, Stage!PrepareSteps
<1>7. CASE Stage!JobEnds
  BY <1>a, <1>d, <1>c, <1>7
     DEF StageFacts, Stage!JobEnds, Stage!KeepTmp, Stage!KeepRun, Stage!KeepFlags, Stage!NoFault,
         Stage!DeletionDue, Stage!PrepareSteps
<1>8. CASE Stage!Follow
  <2>1. r3 = "follow" /\ r3' \in {"artifact", "cleanup"} /\ UNCHANGED <<r2, r6, r8, r10, r14>>
    BY <1>8 DEF Stage!Follow, Stage!KeepJob, Stage!KeepTmp, Stage!Goto
  <2>2. r9' => r9 \/ r8 = "live"
    BY <1>8 DEF Stage!Follow
  <2>3. r2 = 1 /\ r1[1].cmd # "run"
    BY <2>1, <1>a, <1>d DEF Stage!DeletionDue, Stage!PrepareSteps, StageFacts
  <2> QED
    BY <1>d, <1>c, <2>1, <2>2, <2>3 DEF Stage!DeletionDue, Stage!PrepareSteps
<1>9. CASE Stage!WriteArtifact
  BY <1>a, <1>d, <1>c, <1>9
     DEF StageFacts, Stage!WriteArtifact, Stage!Goto, Stage!KeepJob, Stage!KeepTmp, Stage!KeepFlags, Stage!Fault, Stage!NoFault,
         Stage!DeletionDue, Stage!PrepareSteps
<1>10. CASE Stage!Cleanup
  BY <1>a, <1>d, <1>c, <1>10
     DEF StageFacts, Stage!Cleanup, Stage!Goto, Stage!KeepJob, Stage!KeepFlags, Stage!Fault, Stage!NoFault,
         Stage!DeletionDue, Stage!PrepareSteps
<1>11. CASE Stage!NextStage
  <2>1. CASE r2 < Len(r1) /\ r9 /\ r3' = "defer" /\ r2' = r2 + 1
    <3>1. r2 = 1 /\ r2' = 2 /\ r1'[2].cmd = "run"
      <4>1. (r2 = 1 \/ r2 = 2) /\ (Len(r1) = 1 \/ Len(r1) = 2)
        BY <1>a DEF StageFacts
      <4>2. r2 < Len(r1)
        BY <2>1
      <4>3. ASSUME NEW a \in {1, 2}, NEW b \in {1, 2}, a < b PROVE a = 1 /\ b = 2
        BY <4>3
      <4>4. r2 = 1 /\ Len(r1) = 2
        BY <4>1, <4>2, <4>3
      <4> QED
        BY <1>a, <1>c, <2>1, <4>4 DEF StageFacts
    <3>2. r6 = "ended" /\ r10 = FALSE /\ r1[1].cmd # "run" /\ r8 = "live"
      BY <1>a, <1>d, <2>1, <3>1 DEF Stage!DeletionDue, Stage!TypeOK
    <3>3. UNCHANGED <<r6, r8, r9, r10, r14>>
      BY <1>11 DEF Stage!NextStage, Stage!KeepJob, Stage!KeepTmp, Stage!KeepRun
    <3> QED
      BY <1>c, <2>1, <3>1, <3>2, <3>3 DEF Stage!DeletionDue, Stage!PrepareSteps, Stage!stage
  <2>2. CASE r3' = "done" /\ r2' = r2
    <3>1. UNCHANGED <<r6, r8, r9, r10, r14>> /\ r3 = "next"
      BY <1>11 DEF Stage!NextStage, Stage!KeepJob, Stage!KeepTmp, Stage!KeepRun
    <3> QED
      BY <1>c, <1>d, <2>2, <3>1 DEF Stage!DeletionDue, Stage!PrepareSteps
  <2> QED
    BY <1>11, <2>1, <2>2 DEF Stage!NextStage, Stage!Goto
<1>12. CASE Stage!DeferDelete
  BY <1>a, <1>d, <1>c, <1>12
     DEF StageFacts, Stage!DeferDelete, Stage!Registers, Stage!Goto, Stage!KeepJob, Stage!KeepTmp, Stage!KeepFlags, Stage!NoFault,
         Stage!DeletionDue, Stage!PrepareSteps
<1>13. CASE Stage!UnknownKind
  BY <1>a, <1>d, <1>c, <1>13
     DEF StageFacts, Stage!UnknownKind, Stage!Goto, Stage!KeepJob, Stage!KeepTmp, Stage!KeepRun, Stage!KeepFlags, Stage!NoFault,
         Stage!DeletionDue, Stage!PrepareSteps
<1>14. CASE Stage!ResolveRunAlias
  BY <1>a, <1>d, <1>c, <1>14
     DEF StageFacts, Stage!ResolveRunAlias, Stage!OpenRef, Stage!Goto, Stage!KeepJob, Stage!KeepRun, Stage!KeepFlags, Stage!Fault, Stage!NoFault,
         Stage!DeletionDue, Stage!PrepareSteps
<1>15. CASE Stage!RunBind
  BY <1>a, <1>d, <1>c, <1>15
     DEF StageFacts, Stage!RunBind, Stage!RefCleanup, Stage!Goto, Stage!KeepJob, Stage!KeepRun, Stage!KeepFlags, Stage!Fault, Stage!NoFault,
         Stage!DeletionDue, Stage!PrepareSteps
<1>16. CASE Stage!Exec
  BY <1>a, <1>d, <1>c, <1>16
     DEF StageFacts, Stage!Exec, Stage!Goto, Stage!KeepJob, Stage!KeepTmp, Stage!KeepRun, Stage!KeepFlags, Stage!Fault, Stage!NoFault,
         Stage!DeletionDue, Stage!PrepareSteps
<1>17. CASE Stage!Fail
  BY <1>a, <1>d, <1>c, <1>17
     DEF StageFacts, Stage!Fail, Stage!Goto, Stage!KeepJob, Stage!KeepTmp, Stage!KeepRun, Stage!KeepFlags, Stage!NoFault,
         Stage!DeletionDue, Stage!PrepareSteps
<1>18. CASE Stage!Return
  BY <1>a, <1>d, <1>c, <1>18
     DEF StageFacts, Stage!Return, Stage!Goto, Stage!KeepJob, Stage!KeepTmp, Stage!KeepRun, Stage!KeepFlags, Stage!NoFault,
         Stage!DeletionDue, Stage!PrepareSteps
<1>19. CASE Stage!DeleteInstance
  <2>1. r3 = "delete" /\ r3' = "ended" /\ UNCHANGED <<r2, r6, r9, r10>>
        /\ (r8' = "gone" \/ (r8' = r8 /\ "instance" \in r14'))
    BY <1>19 DEF Stage!DeleteInstance, Stage!KeepRun, Stage!Goto
  <2> QED
    BY <1>a, <1>d, <1>c, <2>1 DEF Stage!DeletionDue, Stage!PrepareSteps
<1>20. CASE Stage!Kill
  BY <1>a, <1>d, <1>c, <1>20
     DEF StageFacts, Stage!Kill, Stage!Goto, Stage!KeepJob, Stage!KeepTmp, Stage!KeepRun, Stage!KeepFlags, Stage!Fault,
         Stage!DeletionDue, Stage!PrepareSteps
<1>21. CASE UNCHANGED Stage!vars
  BY <1>a, <1>b, <1>21 DEF Stage!vars, Stage!DeletionDue, Stage!PrepareSteps, Stage!stage
<1> QED
  BY <1>1, <1>2, <1>3, <1>4, <1>5, <1>6, <1>7, <1>8, <1>9, <1>10, <1>11, <1>12, <1>13, <1>14, <1>15, <1>16, <1>17, <1>18, <1>19, <1>20, <1>21 DEF Stage!Next

\* The invariant of a command line is inductive.
LEMMA StageInductive ==
  Stage!Spec => []Stage!IInv
<1>1. Stage!Init => Stage!IInv
  <2> SUFFICES ASSUME Stage!Init PROVE Stage!IInv
    OBVIOUS
  <2>1. r1 \in Stage!CommandLines /\ r2 = 1 /\ r3 = "check" /\ r4 = {} /\ r5 = {} /\ r6 = "none" /\ r7 = {}
        /\ r8 = "none" /\ r9 = FALSE /\ r10 = FALSE /\ r11 = FALSE /\ r12 = FALSE /\ r13 = 0 /\ r14 = {}
    BY DEF Stage!Init
  <2>2. r1 \in Seq(Stage!Stages) /\ r2 \in 1..Len(r1)
    BY <2>1, LinesParsed
  <2>3. Stage!TypeOK
    <3>1. {r9, r10, r11, r12} \in SUBSET BOOLEAN
      BY <2>1
    <3>2. r13 \in 0..StageFaults
      BY <2>1, BoundsAssumption
    <3> QED
      BY <2>1, <2>2, <3>1, <3>2 DEF Stage!TypeOK
  <2>4. Stage!NoRefNoTemps /\ Stage!TempsOwned /\ Stage!JobFollowed /\ Stage!DeletionDue
    BY <2>1 DEF Stage!NoRefNoTemps, Stage!TempsOwned, Stage!JobFollowed, Stage!DeletionDue,
                Stage!EndSteps, Stage!PrepareSteps
  <2> QED
    BY <2>1, <2>3, <2>4 DEF Stage!IInv
<1>2. Stage!IInv /\ [Stage!Next]_(Stage!vars) => Stage!IInv'
  <2> SUFFICES ASSUME Stage!IInv, [Stage!Next]_(Stage!vars) PROVE Stage!IInv'
    OBVIOUS
  <2>1. Stage!TypeOK'
    BY StageTypeStep
  <2>2. r1' \in Stage!CommandLines
    BY StageKept DEF Stage!IInv
  <2>3. Stage!CommandLines' = Stage!CommandLines
    BY DEF Stage!CommandLines, Stage!Stages, Stage!ValidPrepare, Stage!ValidRun
  <2>4. Stage!NoRefNoTemps' /\ Stage!TempsOwned' /\ Stage!JobFollowed' /\ Stage!DeletionDue'
    BY <2>1, NoRefNoTempsStep, TempsOwnedStep, JobFollowedStep, DeletionDueStep
  <2> QED
    BY <2>1, <2>2, <2>3, <2>4 DEF Stage!IInv
<1> QED
  BY <1>1, <1>2, PTL DEF Stage!Spec

\* Whichever step of a command line fails and however its job ends, the command leaves no
\* temporary directory and no instance behind, and no job loses the files it reads
\* (runner.go, stage_pipeline.go, ref_prepare.go), but for the cases EndsClean excludes.
THEOREM CommandsEndClean ==
  Stage!Spec => []EndsClean
<1>1. Stage!IInv => EndsClean
  BY DEF Stage!IInv, Stage!TempsOwned, Stage!JobFollowed, Stage!DeletionDue, Stage!EndSteps,
         Stage!TempsCleaned, Stage!JobInputsKept, Stage!InstanceCleaned, EndsClean
<1> QED
  BY <1>1, StageInductive, PTL
=============================================================================
