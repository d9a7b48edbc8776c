----------------------------- MODULE JobEvents -------------------------------
(***************************************************************************)
(* The events of one prepare job, from the engine to the command line:     *)
(* appendEvent and the heartbeat goroutines (internal/prepare/manager.go), *)
(* the event bus and WaitForEvent, the HTTP stream                         *)
(* (internal/httpapi/httpapi.go) and the client that follows it            *)
(* (frontend/cli-go/internal/cli/commands_prepare.go).                     *)
(*                                                                         *)
(* appendEvent is three steps: insert the event, update the heartbeat      *)
(* state under its mutex, notify the subscribers.                          *)
(***************************************************************************)
EXTENDS Naturals, Sequences

CONSTANTS NTasks,        \* tasks of the job
          Beats,         \* identities for heartbeat goroutines
          MaxSent,       \* bound on the heartbeat events
          MaxBreaks,     \* bound on broken connections
          MaxLost,       \* bound on events that SQLite refuses
          MaxAll         \* bound on the three together

ASSUME EventsAssumption ==
  /\ NTasks \in Nat \ {0} /\ 0 \notin Beats
  /\ MaxSent \in Nat /\ MaxBreaks \in Nat /\ MaxLost \in Nat /\ MaxAll \in Nat

VARIABLES
  row,     \* status of the job's row
  log,     \* rows of prepare_events, in order
  runner,  \* runJob: phase, task, point inside appendEvent, event
  beat,    \* PrepareService.beats[job]: present, running task, last event, cancel
  hb,      \* hb[b]: a heartbeat goroutine: point, event to emit, cancelled
  sub,     \* the stream's channel on the event bus: subscribed, full
  stream,  \* the HTTP handler: point, index, done, events still to send
  wire,    \* events sent and not yet read
  client,  \* the command line: point, index in this stream, resume index
  got,     \* events the client has processed
  count    \* heartbeats, breaks and lost events so far

vars == <<row, log, runner, beat, hb, sub, stream, wire, client, got, count>>

-----------------------------------------------------------------------------
Terminal == {"succeeded", "failed"}
Bounded == count.sent + count.breaks + count.lost < MaxAll

StatusEvent(s)  == [type |-> "status", status |-> s, task |-> 0]
TaskEvent(t, s) == [type |-> "task", status |-> s, task |-> t]
Plain(y)        == [type |-> y, status |-> "none", task |-> 0]
NoEvent         == Plain("none")

Events == {StatusEvent(s) : s \in {"queued", "running"} \cup Terminal}
          \cup {TaskEvent(t, s) : t \in 1..NTasks, s \in {"running"} \cup Terminal}
          \cup {Plain(y) : y \in {"log", "result", "error"}}

NoBeat  == [on |-> FALSE, task |-> 0, last |-> NoEvent, owner |-> 0]
HbOff   == [pc |-> "off", ev |-> NoEvent, dead |-> FALSE]
NoSub   == [on |-> FALSE, full |-> FALSE]
Closed  == [pc |-> "off", index |-> 0, done |-> FALSE, batch |-> <<>>]

Init ==
  /\ row = "queued" /\ log = <<>>
  /\ runner = [phase |-> "queued", task |-> 1, pc |-> "next", ev |-> NoEvent]
  /\ beat = NoBeat /\ hb = [b \in Beats |-> HbOff]
  /\ sub = NoSub /\ stream = Closed /\ wire = <<>>
  /\ client = [pc |-> "connect", cur |-> 0, resume |-> 0] /\ got = <<>>
  /\ count = [sent |-> 0, breaks |-> 0, lost |-> 0]

-----------------------------------------------------------------------------
(* The heartbeat state.                                                    *)

Starts(ev) == ev.type = "task" /\ ev.status = "running"

\* updateHeartbeat: an event that starts a task creates the entry; later events
\* refresh it; the end of the task or of the job clears it.
Updated(ev) ==
  LET h == IF beat.on THEN beat ELSE [NoBeat EXCEPT !.on = Starts(ev)]
  IN  IF ~h.on THEN h
      ELSE IF Starts(ev) THEN [h EXCEPT !.task = ev.task, !.last = ev]
      ELSE IF ev.type = "log" /\ h.task # 0 THEN [h EXCEPT !.last = ev]
      ELSE IF ev.type = "task" /\ ev.task = h.task
      THEN [h EXCEPT !.task = 0, !.last = NoEvent, !.owner = 0]
      ELSE IF ev.type = "status" /\ ev.status \in Terminal THEN NoBeat
      ELSE h

\* The goroutine whose cancel function the update calls is cancelled.
UpdateHeartbeat(ev, goroutines) ==
  /\ beat' = Updated(ev)
  /\ hb' = [b \in Beats |-> IF b = beat.owner /\ beat'.owner = 0
                            THEN [goroutines[b] EXCEPT !.dead = TRUE]
                            ELSE goroutines[b]]

\* Where appendEvent goes after updateHeartbeat.
AfterUpdate(ev) ==
  IF Starts(ev) /\ (~beat.on \/ beat.owner = 0) THEN "start" ELSE "notify"

\* startHeartbeat looks at the entry again before it starts a goroutine.
StartHeartbeat(goroutines) ==
  IF beat.on /\ beat.owner = 0
  THEN \E b \in Beats :
         /\ goroutines[b].pc = "off"
         /\ hb' = [goroutines EXCEPT ![b] = [HbOff EXCEPT !.pc = "tick"]]
         /\ beat' = [beat EXCEPT !.owner = b]
  ELSE hb' = goroutines /\ UNCHANGED beat

\* Mutant: the channel has no buffer, so only a goroutine in select is woken.
Notify_Unbuffered == sub' = [sub EXCEPT !.full = @ \/ stream.pc = "select"]

\* notify: a send that would block is dropped, the channel holds one token.
Notify == sub' = [sub EXCEPT !.full = sub.on]

-----------------------------------------------------------------------------
(* The job, seen through the events it appends.                            *)

\* The next event of runJob, the row written before it, and what follows; a
\* task may fail with or without an event of its own (a cancelled job has none).
Emit(phase, ev, status) ==
  /\ row' = IF status = "none" THEN row ELSE status
  /\ runner' = [runner EXCEPT !.phase = phase, !.ev = ev, !.pc = "append"]

Choose ==
  /\ runner.pc = "next"
  /\ LET t == runner.task
         p == runner.phase
     IN  \/ p = "queued" /\ Emit("start", StatusEvent("queued"), "none")
         \/ p = "start" /\ Emit("task", StatusEvent("running"), "running")
         \/ p = "task" /\ Emit("work", TaskEvent(t, "running"), "none")
         \/ p = "work" /\ Emit("worked", Plain("log"), "none")
         \/ p = "worked" /\ Emit("after", TaskEvent(t, "succeeded"), "none")
         \/ p = "worked" /\ Emit("fail", TaskEvent(t, "failed"), "none")
         \/ p \in {"work", "fail"} /\ Emit("error", StatusEvent("failed"), "failed")
         \/ p = "end" /\ Emit("result", StatusEvent("succeeded"), "succeeded")
         \/ p = "error" /\ Emit("over", Plain("error"), "none")
         \/ p = "result" /\ Emit("over", Plain("result"), "none")
  /\ UNCHANGED <<log, beat, hb, sub, stream, wire, client, got, count>>

AfterTask ==
  /\ runner.pc = "next" /\ runner.phase = "after"
  /\ runner' = IF runner.task = NTasks THEN [runner EXCEPT !.phase = "end"]
               ELSE [runner EXCEPT !.phase = "task", !.task = @ + 1]
  /\ UNCHANGED <<row, log, beat, hb, sub, stream, wire, client, got, count>>

RunnerAppend ==
  /\ runner.pc = "append"
  /\ log' = Append(log, runner.ev)
  /\ runner' = [runner EXCEPT !.pc = "beat"]
  /\ UNCHANGED <<row, beat, hb, sub, stream, wire, client, got, count>>

\* The insert fails (the disk is full): a terminal status event ends the job
\* without one, a task event fails the job, other errors are ignored.
AppendFails ==
  /\ runner.pc = "append" /\ count.lost < MaxLost /\ Bounded
  /\ count' = [count EXCEPT !.lost = @ + 1]
  /\ runner' = [runner EXCEPT
       !.pc = "next",
       !.phase = IF runner.ev.type = "status" /\ runner.ev.status \in Terminal THEN "over"
                 ELSE IF runner.ev.type = "task" /\ runner.ev.status # "failed" THEN "fail"
                 ELSE @]
  /\ UNCHANGED <<row, log, beat, hb, sub, stream, wire, client, got>>

RunnerBeat ==
  /\ runner.pc = "beat"
  /\ UpdateHeartbeat(runner.ev, hb)
  /\ runner' = [runner EXCEPT !.pc = AfterUpdate(runner.ev)]
  /\ UNCHANGED <<row, log, sub, stream, wire, client, got, count>>

RunnerStart ==
  /\ runner.pc = "start"
  /\ StartHeartbeat(hb)
  /\ runner' = [runner EXCEPT !.pc = "notify"]
  /\ UNCHANGED <<row, log, sub, stream, wire, client, got, count>>

RunnerNotify ==
  /\ runner.pc = "notify"
  /\ Notify
  /\ runner' = [runner EXCEPT !.pc = "next"]
  /\ UNCHANGED <<row, log, beat, hb, stream, wire, client, got, count>>

-----------------------------------------------------------------------------
(* A heartbeat goroutine.  Its select may take the tick although it is     *)
(* cancelled; then it copies the last event under the mutex and appends it *)
(* outside.                                                                *)

BeatStops(b) ==
  /\ hb[b].pc = "tick"
  /\ hb[b].dead \/ ~beat.on \/ beat.task = 0
  /\ hb' = [hb EXCEPT ![b] = HbOff]
  /\ UNCHANGED <<row, log, runner, beat, sub, stream, wire, client, got, count>>

\* Mutant: the copy is made without looking whether there is a last event.
BeatTick_NoCheck(b) ==
  /\ hb[b].pc = "tick" /\ count.sent < MaxSent /\ Bounded
  /\ hb' = [hb EXCEPT ![b].pc = "append", ![b].ev = beat.last]
  /\ count' = [count EXCEPT !.sent = @ + 1]
  /\ UNCHANGED <<row, log, runner, beat, sub, stream, wire, client, got>>

BeatTick(b) ==
  /\ hb[b].pc = "tick" /\ count.sent < MaxSent /\ Bounded
  /\ beat.on /\ beat.task # 0 /\ beat.last # NoEvent
  /\ hb' = [hb EXCEPT ![b].pc = "append", ![b].ev = beat.last]
  /\ count' = [count EXCEPT !.sent = @ + 1]
  /\ UNCHANGED <<row, log, runner, beat, sub, stream, wire, client, got>>

BeatAppend(b) ==
  /\ hb[b].pc = "append"
  /\ log' = Append(log, hb[b].ev)
  /\ hb' = [hb EXCEPT ![b].pc = "beat"]
  /\ UNCHANGED <<row, runner, beat, sub, stream, wire, client, got, count>>

BeatUpdate(b) ==
  /\ hb[b].pc = "beat"
  /\ UpdateHeartbeat(hb[b].ev, [hb EXCEPT ![b].pc = AfterUpdate(hb[b].ev)])
  /\ UNCHANGED <<row, log, runner, sub, stream, wire, client, got, count>>

BeatStart(b) ==
  /\ hb[b].pc = "start"
  /\ StartHeartbeat([hb EXCEPT ![b].pc = "notify"])
  /\ UNCHANGED <<row, log, runner, sub, stream, wire, client, got, count>>

BeatNotify(b) ==
  /\ hb[b].pc = "notify"
  /\ Notify
  /\ hb' = [hb EXCEPT ![b].pc = "tick", ![b].ev = NoEvent]
  /\ UNCHANGED <<row, log, runner, beat, stream, wire, client, got, count>>

-----------------------------------------------------------------------------
(* The HTTP handler: streamPrepareEvents, EventsSince and WaitForEvent.    *)

\* EventsSince reads the row first and the events after it.
ReadRow ==
  /\ stream.pc = "row"
  /\ stream' = [stream EXCEPT !.done = row \in Terminal, !.pc = "list"]
  /\ UNCHANGED <<row, log, runner, beat, hb, sub, wire, client, got, count>>

ListEvents ==
  /\ stream.pc = "list"
  /\ LET batch == SubSeq(log, stream.index + 1, Len(log))
     IN  stream' = [stream EXCEPT !.batch = batch,
                                  !.pc = IF batch # <<>> THEN "send"
                                         ELSE IF stream.done THEN "closed" ELSE "sub"]
  /\ UNCHANGED <<row, log, runner, beat, hb, sub, wire, client, got, count>>

Send ==
  /\ stream.pc = "send"
  /\ wire' = Append(wire, Head(stream.batch))
  /\ stream' = [stream EXCEPT !.index = @ + 1, !.batch = Tail(@),
                              !.pc = IF Len(stream.batch) > 1 THEN "send"
                                     ELSE IF stream.done THEN "closed" ELSE "row"]
  /\ UNCHANGED <<row, log, runner, beat, hb, sub, client, got, count>>

\* WaitForEvent subscribes before it looks.
Subscribe ==
  /\ stream.pc = "sub"
  /\ sub' = [on |-> TRUE, full |-> FALSE]
  /\ stream' = [stream EXCEPT !.pc = "count"]
  /\ UNCHANGED <<row, log, runner, beat, hb, wire, client, got, count>>

CountEvents ==
  /\ stream.pc = "count"
  /\ IF Len(log) > stream.index
     THEN stream' = [stream EXCEPT !.pc = "row"] /\ sub' = NoSub
     ELSE stream' = [stream EXCEPT !.pc = "status"] /\ UNCHANGED sub
  /\ UNCHANGED <<row, log, runner, beat, hb, wire, client, got, count>>

CheckStatus ==
  /\ stream.pc = "status"
  /\ IF row \in Terminal
     THEN stream' = [stream EXCEPT !.pc = "row"] /\ sub' = NoSub
     ELSE stream' = [stream EXCEPT !.pc = "park"] /\ UNCHANGED sub
  /\ UNCHANGED <<row, log, runner, beat, hb, wire, client, got, count>>

\* Only now does the goroutine block on its channel.
Park ==
  /\ stream.pc = "park"
  /\ stream' = [stream EXCEPT !.pc = "select"]
  /\ UNCHANGED <<row, log, runner, beat, hb, sub, wire, client, got, count>>

Wake ==
  /\ stream.pc = "select" /\ sub.full
  /\ sub' = [sub EXCEPT !.full = FALSE]
  /\ stream' = [stream EXCEPT !.pc = "count"]
  /\ UNCHANGED <<row, log, runner, beat, hb, wire, client, got, count>>

-----------------------------------------------------------------------------
(* The client: waitForPrepareWithOptions.  The engine ignores the Range    *)
(* header, so every stream starts with the first event and the client      *)
(* skips what it has processed.                                            *)

Connect ==
  /\ client.pc = "connect"
  /\ client' = [client EXCEPT !.pc = "read", !.cur = 0]
  /\ stream' = [Closed EXCEPT !.pc = "row"]
  /\ wire' = <<>> /\ sub' = NoSub
  /\ UNCHANGED <<row, log, runner, beat, hb, got, count>>

\* Mutant: the client does not skip the events it has already processed.
ReadEvent_NoSkip ==
  /\ client.pc = "read" /\ wire # <<>>
  /\ wire' = Tail(wire)
  /\ got' = Append(got, Head(wire))
  /\ client' = IF Head(wire).type = "status" THEN [client EXCEPT !.pc = "fetch"]
               ELSE [client EXCEPT !.cur = @ + 1, !.resume = client.cur + 1]
  /\ UNCHANGED <<row, log, runner, beat, hb, sub, stream, count>>

ReadEvent ==
  /\ client.pc = "read" /\ wire # <<>>
  /\ wire' = Tail(wire)
  /\ IF client.cur < client.resume
     THEN client' = [client EXCEPT !.cur = @ + 1] /\ UNCHANGED got
     ELSE /\ got' = Append(got, Head(wire))
          /\ client' = IF Head(wire).type = "status"
                       THEN [client EXCEPT !.pc = "fetch"]
                       ELSE [client EXCEPT !.cur = @ + 1, !.resume = client.cur + 1]
  /\ UNCHANGED <<row, log, runner, beat, hb, sub, stream, count>>

\* On a status event the client asks for the job; a terminal one ends the wait.
FetchJob ==
  /\ client.pc = "fetch"
  /\ client' = IF row \in Terminal THEN [client EXCEPT !.pc = "ended"]
               ELSE [pc |-> "read", cur |-> client.cur + 1, resume |-> client.cur + 1]
  /\ UNCHANGED <<row, log, runner, beat, hb, sub, stream, wire, got, count>>

\* The end of a chunked stream: connect again.
EndOfStream ==
  /\ client.pc = "read" /\ wire = <<>> /\ stream.pc = "closed"
  /\ client' = [client EXCEPT !.pc = "connect"]
  /\ stream' = Closed
  /\ UNCHANGED <<row, log, runner, beat, hb, sub, wire, got, count>>

\* The connection breaks; what was on the wire is lost.
Break ==
  /\ client.pc = "read" /\ count.breaks < MaxBreaks /\ Bounded
  /\ count' = [count EXCEPT !.breaks = @ + 1]
  /\ client' = [client EXCEPT !.pc = "connect"]
  /\ stream' = Closed /\ wire' = <<>> /\ sub' = NoSub
  /\ UNCHANGED <<row, log, runner, beat, hb, got>>

-----------------------------------------------------------------------------
RunnerStep == Choose \/ AfterTask \/ RunnerAppend \/ RunnerBeat \/ RunnerStart
              \/ RunnerNotify
BeatStep(b) == BeatStops(b) \/ BeatTick(b) \/ BeatAppend(b) \/ BeatUpdate(b)
               \/ BeatStart(b) \/ BeatNotify(b)
StreamStep == ReadRow \/ ListEvents \/ Send \/ Subscribe \/ CountEvents
              \/ CheckStatus \/ Park \/ Wake
ClientStep == Connect \/ ReadEvent \/ FetchJob \/ EndOfStream

Next == RunnerStep \/ (\E b \in Beats : BeatStep(b)) \/ StreamStep \/ ClientStep
        \/ AppendFails \/ Break

Spec == Init /\ [][Next]_vars

\* Goroutines are scheduled and the client keeps reading.
FairSpec ==
  /\ Spec
  /\ WF_vars(RunnerStep) /\ WF_vars(StreamStep) /\ WF_vars(ClientStep)
  /\ \A b \in Beats : WF_vars(BeatStep(b))

-----------------------------------------------------------------------------
(* Properties.                                                             *)

\* Type correctness of every variable.
TypeOK ==
  /\ row \in {"queued", "running"} \cup Terminal
  /\ log \in Seq(Events) /\ wire \in Seq(Events) /\ got \in Seq(Events)
  /\ runner \in [phase : {"queued", "start", "task", "work", "worked", "after",
                          "fail", "error", "end", "result", "over"},
                 task : 1..NTasks, pc : {"next", "append", "beat", "start", "notify"},
                 ev : Events \cup {NoEvent}]
  /\ beat \in [on : BOOLEAN, task : 0..NTasks, last : Events \cup {NoEvent},
               owner : Beats \cup {0}]
  /\ hb \in [Beats -> [pc : {"off", "tick", "append", "beat", "start", "notify"},
                       ev : Events \cup {NoEvent}, dead : BOOLEAN]]
  /\ sub \in [on : BOOLEAN, full : BOOLEAN]
  /\ stream.pc \in {"off", "row", "list", "send", "sub", "count", "status",
                    "park", "select", "closed"}
  /\ stream.index \in Nat /\ stream.batch \in Seq(Events)
  /\ client.pc \in {"connect", "read", "fetch", "ended"}
  /\ client.cur \in Nat /\ client.resume \in Nat

\* What the client processes is the beginning of the log: no event is lost,
\* repeated or moved by a broken connection or a new stream.
InOrder == Len(got) <= Len(log) /\ got = SubSeq(log, 1, Len(got))

\* The command ends unless SQLite has refused an event: no wakeup of the stream is
\* lost, and a stream that closes before the terminal status event is followed by
\* one that carries it.
ClientEnds == <>(client.pc = "ended" \/ count.lost > 0)

\* Once the job is over and its last event is appended there is no heartbeat
\* state, so no heartbeat follows.
NoBeatAfterEnd == runner.phase = "over" /\ runner.pc = "next" => ~beat.on
=============================================================================
