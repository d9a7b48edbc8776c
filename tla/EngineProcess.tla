--------------------------- MODULE EngineProcess ---------------------------
(***************************************************************************)
(* The life of a local engine process (cmd/sqlrs-engine/main.go) and the   *)
(* command line processes that look for it in engine.json, check that it   *)
(* answers, and start one under the daemon lock when none does             *)
(* (frontend internal/daemon, ConnectOrStart).  Engines listen on a port   *)
(* the system chooses, so a later engine may get the port of a dead one.   *)
(***************************************************************************)
EXTENDS Naturals, FiniteSets

CONSTANTS
    Clients,      \* command line processes
    Engines,      \* engine processes that may be started
    Ports,        \* TCP ports
    MaxCalls,     \* bound on the calls of ConnectOrStart
    MaxFaults     \* bound on killed processes, failed starts, and answers or starts slower than their timeout

None == "none"

ASSUME ProcessAssumption ==
    /\ Ports # {} /\ None \notin Engines /\ None \notin Clients
    /\ MaxCalls \in Nat /\ MaxFaults \in Nat

VARIABLES
    eng,      \* eng[e]: the phase of engine e
    port,     \* port[e]: the port e listens on
    idle,     \* idle[e]: the idle timeout has passed since the last request ended
    json,     \* the engine that engine.json names, or None
    lock,     \* the client that holds daemon.lock (flock), or None
    cli,      \* cli[c]: the state of client c
    calls, faults,
    excuse    \* history: one of the events happened after which a second engine may be started (see SingleEngine)

vars == <<eng, port, idle, json, lock, cli, calls, faults, excuse>>
bounds == <<calls, faults>>

Idle == [step |-> "idle", stage |-> 0, got |-> None, cache |-> None, child |-> None, must |-> FALSE]

Fault == faults < MaxFaults /\ faults' = faults + 1

Listening(e) == eng[e] \in {"listen", "unlinked", "recover", "serve", "deciding"}
Answering(e) == eng[e] \in {"serve", "deciding"}
Up(e) == eng[e] \notin {"off", "dead"}

\* Who answers at the address that engine e's engine.json gives.
At(e) == {f \in Engines : Answering(f) /\ port[f] = port[e]}

\* The end of a request restarts the idle clock of the engine that answered it.
Touch(S) == idle' = [f \in Engines |-> IF f \in S THEN FALSE ELSE idle[f]]

InFlight(e) == {c \in Clients : cli[c].step = "request" /\ cli[c].got = e}

(***************************************************************************)
(* The engine: listen, open the database, write engine.json (remove, then  *)
(* rename), recover the jobs, serve; stop when idle, on a signal, or dead. *)
(***************************************************************************)
Listen(e) ==
    /\ eng[e] = "start"
    /\ \E p \in Ports \ {port[f] : f \in {g \in Engines : Listening(g)}} :
          port' = [port EXCEPT ![e] = p]
    /\ eng' = [eng EXCEPT ![e] = "listen"]
    /\ UNCHANGED <<idle, json, lock, cli, bounds, excuse>>

\* writeEngineState: the old file is removed before the new one is renamed into its place.
RemoveOldState(e) ==
    /\ eng[e] = "listen"
    /\ json' = None
    /\ eng' = [eng EXCEPT ![e] = "unlinked"]
    /\ UNCHANGED <<port, idle, lock, cli, bounds, excuse>>

WriteEngineState(e) ==
    /\ eng[e] = "unlinked"
    /\ json' = e
    /\ eng' = [eng EXCEPT ![e] = "recover"]
    /\ UNCHANGED <<port, idle, lock, cli, bounds, excuse>>

\* A start-up step fails: before engine.json is written the process just ends, after it the deferred
\* removeEngineState runs.
BootFails(e) ==
    /\ eng[e] \in {"start", "listen", "unlinked", "recover"}
    /\ Fault
    /\ eng' = [eng EXCEPT ![e] = IF @ = "recover" THEN "closing" ELSE "dead"]
    /\ UNCHANGED <<port, idle, json, lock, cli, calls, excuse>>

Serve(e) ==
    /\ eng[e] = "recover"
    /\ eng' = [eng EXCEPT ![e] = "serve"]
    /\ idle' = [idle EXCEPT ![e] = FALSE]
    /\ UNCHANGED <<port, json, lock, cli, bounds, excuse>>

\* Time passes without the end of a request.
TimePasses(e) ==
    /\ Answering(e) /\ ~idle[e]
    /\ idle' = [idle EXCEPT ![e] = TRUE]
    /\ UNCHANGED <<eng, port, json, lock, cli, bounds, excuse>>

\* The ticker looks at the counter and at the clock, and only then shuts the server down.
IdleTick_OwnFile(e) ==   \* mutant: an engine whose file is gone never stops
    /\ eng[e] = "serve"
    /\ InFlight(e) = {} /\ idle[e] /\ json = e
    /\ eng' = [eng EXCEPT ![e] = "deciding"]
    /\ UNCHANGED <<port, idle, json, lock, cli, bounds, excuse>>
IdleTick(e) ==
    /\ eng[e] = "serve"
    /\ InFlight(e) = {} /\ idle[e]
    /\ eng' = [eng EXCEPT ![e] = "deciding"]
    /\ UNCHANGED <<port, idle, json, lock, cli, bounds, excuse>>

\* shutdown: Serve returns at once and run() runs its deferred calls, without waiting for requests.
Shutdown(e) ==
    /\ eng[e] = "deciding"
    /\ eng' = [eng EXCEPT ![e] = "closing"]
    /\ UNCHANGED <<port, idle, json, lock, cli, bounds, excuse>>

\* removeEngineState removes the file, whoever wrote it.
RemoveEngineState(e) ==
    /\ eng[e] = "closing"
    /\ json' = None
    /\ excuse' = (excuse \/ json \notin {e, None})
    /\ eng' = [eng EXCEPT ![e] = "dead"]
    /\ UNCHANGED <<port, idle, lock, cli, bounds>>

\* SIGTERM closes it in the same way; SIGKILL leaves engine.json behind.
Kill(e) ==
    /\ Listening(e)
    /\ Fault
    /\ \/ eng' = [eng EXCEPT ![e] = "dead"]
       \/ eng[e] = "serve" /\ eng' = [eng EXCEPT ![e] = "deciding"]
    /\ UNCHANGED <<port, idle, json, lock, cli, calls, excuse>>

(***************************************************************************)
(* ConnectOrStart.  Stage 1: engine.json as found; stage 2: again, after   *)
(* the store mount; stage 3: again, under the lock; stage 4: waiting for   *)
(* the engine this client has started.                                     *)
(***************************************************************************)
Set(c, f) == cli' = [cli EXCEPT ![c] = f]
Release(c) == lock' = IF lock = c THEN None ELSE lock

Call(c) ==
    /\ cli[c].step \in {"idle", "served"}
    /\ calls < MaxCalls /\ calls' = calls + 1
    /\ Set(c, [Idle EXCEPT !.step = IF cli[c].cache = None THEN "read" ELSE "cached",
                           !.stage = 1, !.cache = cli[c].cache])
    /\ UNCHANGED <<eng, port, idle, json, lock, faults, excuse>>

\* Connected: the state is kept in the process's cache, the lock is released.
Connected(c, e) ==
    /\ Set(c, [Idle EXCEPT !.step = "connected", !.got = e, !.cache = e])
    /\ Release(c)

\* A health check that finds the cached engine itself uses it without reading engine.json.
TryCached(c) ==
    /\ cli[c].step = "cached"
    /\ LET e == cli[c].cache IN
       /\ Touch(At(e))
       /\ IF At(e) = {e} THEN Connected(c, e)
          ELSE Set(c, [cli[c] EXCEPT !.step = "read"]) /\ UNCHANGED lock
    /\ UNCHANGED <<eng, port, json, bounds, excuse>>

\* What a failed look-up leads to in each stage.
NotHealthy(c, authFailed) ==
    /\ CASE cli[c].stage = 1 -> Set(c, [cli[c] EXCEPT !.step = "read", !.stage = 2])
         [] cli[c].stage = 2 -> Set(c, [cli[c] EXCEPT !.step = "lock", !.must = authFailed])
         [] cli[c].stage = 3 -> Set(c, [cli[c] EXCEPT !.step = "spawn", !.must = authFailed])
         [] cli[c].stage = 4 -> Set(c, [cli[c] EXCEPT !.step = "wait"])
    /\ UNCHANGED lock

ReadEngineState(c) ==
    /\ cli[c].step = "read"
    /\ IF json = None THEN NotHealthy(c, FALSE)
       ELSE Set(c, [cli[c] EXCEPT !.step = "health", !.got = json]) /\ UNCHANGED lock
    /\ UNCHANGED <<eng, port, idle, json, bounds, excuse>>

\* GET /v1/health, then the instance id in the answer against the one in the file, then the pid.
SameInstance_Unchecked(e) == At(e) # {}    \* mutant: any engine that answers at the address will do
SameInstance(e) == At(e) = {e}

CheckHealth(c) ==
    /\ cli[c].step = "health"
    /\ LET e == cli[c].got IN
       /\ Touch(At(e))
       /\ \/ /\ SameInstance(e)
             /\ IF cli[c].stage = 4 THEN Connected(c, e)
                ELSE Set(c, [cli[c] EXCEPT !.step = "auth"]) /\ UNCHANGED lock
             /\ UNCHANGED <<faults, excuse>>
          \/ ~SameInstance(e) /\ NotHealthy(c, FALSE) /\ UNCHANGED <<faults, excuse>>
          \/ /\ SameInstance(e)                       \* the answer comes too late
             /\ Fault /\ excuse' = TRUE
             /\ NotHealthy(c, FALSE)
    /\ UNCHANGED <<eng, port, json, calls>>

\* The auth probe: an engine that took over the port rejects the token, and engine.json is read once more.
CheckAuth(c) ==
    /\ cli[c].step = "auth"
    /\ LET e == cli[c].got IN
       CASE At(e) = {e} -> Connected(c, e) /\ Touch({e})
         [] At(e) = {} -> NotHealthy(c, TRUE) /\ UNCHANGED idle
         [] OTHER -> IF json # None /\ At(json) = {json}
                     THEN Connected(c, json) /\ Touch(At(e) \cup {json})
                     ELSE NotHealthy(c, TRUE) /\ Touch(At(e))
    /\ UNCHANGED <<eng, port, json, bounds, excuse>>

AcquireLock_NoRecheck(c) ==    \* mutant: engine.json is not read again under the lock
    /\ cli[c].step = "lock"
    /\ lock = None
    /\ lock' = c
    /\ Set(c, [cli[c] EXCEPT !.step = "spawn"])
    /\ UNCHANGED <<eng, port, idle, json, bounds, excuse>>
AcquireLock(c) ==
    /\ cli[c].step = "lock"
    /\ lock = None
    /\ lock' = c
    /\ Set(c, IF cli[c].must THEN [cli[c] EXCEPT !.step = "spawn"]
              ELSE [cli[c] EXCEPT !.step = "read", !.stage = 3])
    /\ UNCHANGED <<eng, port, idle, json, bounds, excuse>>

\* The client gives up: the store cannot be mounted, autostart is off, the lock or the start times out.
GiveUp(c) ==
    /\ \/ cli[c].step = "lock" /\ UNCHANGED <<faults, excuse>>
       \/ cli[c].step = "read" /\ cli[c].stage = 2 /\ Fault /\ UNCHANGED excuse           \* no WSL store mount
       \/ cli[c].step = "wait" /\ ~Up(cli[c].child) /\ UNCHANGED <<faults, excuse>>     \* the engine exited
       \/ cli[c].step = "wait" /\ Fault /\ excuse' = TRUE \* startup timeout
    /\ Set(c, [Idle EXCEPT !.step = "failed"])
    /\ Release(c)
    /\ UNCHANGED <<eng, port, idle, json, calls>>

StartDaemon(c) ==
    /\ cli[c].step = "spawn"
    /\ \/ \E e \in Engines :
             /\ eng[e] = "off"
             /\ eng' = [eng EXCEPT ![e] = "start"]
             /\ Set(c, [cli[c] EXCEPT !.step = "read", !.stage = 4, !.child = e])
             /\ UNCHANGED lock
          /\ excuse' = (excuse \/ cli[c].must)
       \/ /\ \A e \in Engines : eng[e] # "off"     \* the bound on engines; or cmd.Start fails
          /\ Set(c, [Idle EXCEPT !.step = "failed"])
          /\ Release(c)
          /\ UNCHANGED <<eng, excuse>>
    /\ UNCHANGED <<port, idle, json, bounds>>

\* 200 ms later.
PollAgain(c) ==
    /\ cli[c].step = "wait" /\ Up(cli[c].child)
    /\ Set(c, [cli[c] EXCEPT !.step = "read"])
    /\ UNCHANGED <<eng, port, idle, json, lock, bounds, excuse>>

\* The command's requests on the connection: counted while they run, their end restarts the idle clock.
StartRequest(c) ==
    /\ cli[c].step = "connected"
    /\ IF At(cli[c].got) = {cli[c].got}
       THEN Set(c, [cli[c] EXCEPT !.step = "request"]) /\ UNCHANGED idle
       ELSE Set(c, [Idle EXCEPT !.step = "failed"]) /\ Touch(At(cli[c].got))
    /\ UNCHANGED <<eng, port, json, lock, bounds, excuse>>

FinishRequest(c) ==
    /\ cli[c].step = "request"
    /\ LET e == cli[c].got IN
       idle' = [idle EXCEPT ![e] = IF InFlight(e) = {c} THEN FALSE ELSE @]
    /\ Set(c, [Idle EXCEPT !.step = IF Answering(cli[c].got) THEN "served" ELSE "failed",
                           !.got = cli[c].got, !.cache = cli[c].cache])
    /\ UNCHANGED <<eng, port, json, lock, bounds, excuse>>

\* The command ends, or is killed at any point; the system drops its flock, the engine lives on.
Exit(c) ==
    /\ cli[c].step # "gone"
    /\ \/ cli[c].step \in {"connected", "served", "failed"} /\ UNCHANGED <<faults, excuse>>
       \/ Fault /\ excuse' = (excuse \/ lock = c)
    /\ Set(c, [Idle EXCEPT !.step = "gone"])
    /\ Release(c)
    /\ UNCHANGED <<eng, port, idle, json, calls>>

\* No command runs any more.
Finished ==
    /\ \A c \in Clients : cli[c].step \in {"idle", "gone"}
    /\ UNCHANGED vars

-----------------------------------------------------------------------------
Init ==
    /\ eng = [e \in Engines |-> "off"]
    /\ port = [e \in Engines |-> CHOOSE p \in Ports : TRUE]
    /\ idle = [e \in Engines |-> FALSE]
    /\ json = None /\ lock = None
    /\ cli = [c \in Clients |-> Idle]
    /\ calls = 0 /\ faults = 0
    /\ excuse = FALSE

EngineStep(e) ==
    \/ Listen(e) \/ RemoveOldState(e) \/ WriteEngineState(e) \/ Serve(e)
    \/ TimePasses(e) \/ IdleTick(e) \/ Shutdown(e) \/ RemoveEngineState(e)

ClientStep(c) ==
    \/ TryCached(c) \/ ReadEngineState(c) \/ CheckHealth(c) \/ CheckAuth(c)
    \/ AcquireLock(c) \/ GiveUp(c) \/ StartDaemon(c) \/ PollAgain(c)
    \/ StartRequest(c) \/ FinishRequest(c) \/ Exit(c)

Next ==
    \/ \E e \in Engines : EngineStep(e) \/ BootFails(e) \/ Kill(e)
    \/ \E c \in Clients : ClientStep(c) \/ Call(c)
    \/ Finished

Spec == Init /\ [][Next]_vars

-----------------------------------------------------------------------------
\* Engines, the discovery file, the lock and the clients take the values the code gives them.
TypeOK ==
    /\ eng \in [Engines -> {"off", "start", "listen", "unlinked", "recover", "serve", "deciding", "closing", "dead"}]
    /\ port \in [Engines -> Ports] /\ idle \in [Engines -> BOOLEAN]
    /\ json \in Engines \cup {None} /\ lock \in Clients \cup {None}
    /\ cli \in [Clients -> [step : {"idle", "cached", "read", "health", "auth", "lock", "spawn", "wait",
                                    "connected", "request", "served", "failed", "gone"},
                            stage : 0..4, got : Engines \cup {None}, cache : Engines \cup {None},
                            child : Engines \cup {None}, must : BOOLEAN]]
    /\ calls \in 0..MaxCalls /\ faults \in 0..MaxFaults
    /\ excuse \in BOOLEAN

\* Starting under the lock, with engine.json read again, gives one engine per profile, however many
\* commands start at once - unless one of the events came before that the code does not guard
\* against: a slow answer or start taken for a dead engine, an auth probe cut off after a good health
\* check, a command killed while it started an engine, an old engine removing its successor's file.
SingleEngine ==
    ~excuse => Cardinality({e \in Engines : Up(e) /\ eng[e] # "closing"}) <= 1

RightAnswer ==
    \A c \in Clients :
       cli'[c].step = "connected" /\ cli[c].step # "connected"
          => At(cli'[c].got) = {cli'[c].got}

\* What ConnectOrStart hands out names the engine that answers at that address at that moment, never
\* the one that a dead engine's file or a reused port stands for.
ConnectsToItself == [][RightAnswer]_vars

\* Engine e answers requests; it has ended.
InService(e) == eng[e] = "serve"
Retired(e) == eng[e] = "dead"
=============================================================================
