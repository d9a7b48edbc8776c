-------------------------- MODULE JobEventsProofs ---------------------------
(***************************************************************************)
(* The theorems of JobEvents, for any number of tasks, heartbeat           *)
(* goroutines, broken connections and refused events: the command line     *)
(* processes the log of the job from its beginning, in order, each event   *)
(* once.                                                                   *)
(***************************************************************************)
EXTENDS JobEvents, SequenceTheorems, TLAPS

-----------------------------------------------------------------------------
(* The inductive invariant.  Log, batch, wire and processed events are     *)
(* compared element by element; where each of them is in the log follows   *)
(* from the two indices of the stream and of the client.                   *)

EventRec == [type : {"status", "task", "log", "result", "error"},
             status : {"queued", "running", "none"} \cup Terminal, task : 0..NTasks]
RunnerRec == [phase : {"queued", "start", "task", "work", "worked", "after",
                       "fail", "error", "end", "result", "over"},
              task : 1..NTasks, pc : {"next", "append", "beat", "start", "notify"},
              ev : Events \cup {NoEvent}]
BeatRec == [on : BOOLEAN, task : 0..NTasks, last : Events \cup {NoEvent}, owner : Beats \cup {0}]
HbRec == [pc : {"off", "tick", "append", "beat", "start", "notify"},
          ev : Events \cup {NoEvent}, dead : BOOLEAN]
StreamRec == [pc : {"off", "row", "list", "send", "sub", "count", "status", "park", "select", "closed"},
              index : Nat, done : BOOLEAN, batch : Seq(Events)]
SubRec == [on : BOOLEAN, full : BOOLEAN]
ClientRec == [pc : {"connect", "read", "fetch", "ended"}, cur : Nat, resume : Nat]

\* A goroutine inside appendEvent has an event.
InAppend == {"append", "beat", "start", "notify"}
HasEvent ==
  /\ runner.pc \in InAppend => runner.ev \in Events
  /\ \A b \in Beats : hb[b].pc \in InAppend => hb[b].ev \in Events

\* What the engine's part keeps: the types of the job and of the heartbeats.
EngineTypes ==
  /\ row \in {"queued", "running"} \cup Terminal
  /\ runner \in RunnerRec /\ beat \in BeatRec /\ hb \in [Beats -> HbRec]
  /\ HasEvent

\* What the stream and the client keep.
FollowTypes ==
  /\ log \in Seq(Events) /\ wire \in Seq(Events) /\ got \in Seq(Events)
  /\ sub \in SubRec
  /\ stream \in StreamRec /\ client \in ClientRec

\* The sequence s is what log l holds after its first n events.
After(s, l, n) == n + Len(s) <= Len(l) /\ \A i \in 1..Len(s) : s[i] = l[n + i]

\* The client processed the first events; the stream's batch starts at its index; the
\* wire holds what lies between the client's index and the stream's.
Processed == After(got, log, 0)
Batched == /\ After(stream.batch, log, stream.index)
           /\ stream.pc = "send" => stream.batch # <<>>
OnWire(n) == After(wire, log, n) /\ n + Len(wire) = stream.index
Position ==
  /\ client.pc = "connect" => client.resume = Len(got)
  /\ client.pc = "read" => /\ client.resume = Len(got) /\ client.cur <= client.resume
                           /\ OnWire(client.cur)
  /\ client.pc = "fetch" => client.cur + 1 = Len(got) /\ OnWire(client.cur + 1)

Following == FollowTypes /\ Processed /\ Batched /\ Position

IInv == EngineTypes /\ Following

-----------------------------------------------------------------------------
(* Sequences.                                                              *)

\* Append leaves the elements before the new one.
LEMMA AppendAt ==
  ASSUME NEW S, NEW s \in Seq(S), NEW e \in S
  PROVE  /\ Append(s, e) \in Seq(S) /\ Len(Append(s, e)) = Len(s) + 1
         /\ \A i \in 1..Len(s) : Append(s, e)[i] = s[i]
         /\ Append(s, e)[Len(s) + 1] = e
  BY AppendProperties

\* Head and Tail split a sequence.
LEMMA TailAt ==
  ASSUME NEW S, NEW s \in Seq(S), s # <<>>
  PROVE  /\ Tail(s) \in Seq(S) /\ Len(s) \in Nat \ {0} /\ Len(Tail(s)) = Len(s) - 1
         /\ Head(s) = s[1] /\ Head(s) \in S
         /\ \A i \in 1..Len(Tail(s)) : Tail(s)[i] = s[i + 1]
  BY HeadTailProperties, EmptySeq

\* The empty sequence is anywhere in the log.
LEMMA AfterEmpty ==
  ASSUME NEW l \in Seq(Events), NEW n \in 0..Len(l)
  PROVE  After(<<>>, l, n)
  BY DEF After

\* An event appended to the log moves nothing.
LEMMA AfterGrows ==
  ASSUME NEW s \in Seq(Events), NEW l \in Seq(Events), NEW e \in Events, NEW n \in Nat, After(s, l, n)
  PROVE  After(s, Append(l, e), n)
<1>1. Len(s) \in Nat /\ Len(l) \in Nat
  OBVIOUS
<1>2. /\ Len(Append(l, e)) = Len(l) + 1
      /\ \A i \in 1..Len(l) : Append(l, e)[i] = l[i]
  BY AppendAt
<1> QED
  BY <1>1, <1>2 DEF After

\* The first of the events after n is event n + 1.
LEMMA AfterTail ==
  ASSUME NEW s \in Seq(Events), NEW l \in Seq(Events), NEW n \in Nat, After(s, l, n), s # <<>>
  PROVE  /\ Head(s) = l[n + 1] /\ n + 1 <= Len(l) /\ After(Tail(s), l, n + 1)
         /\ Len(Tail(s)) = Len(s) - 1
<1>1. Len(s) \in Nat \ {0} /\ Len(l) \in Nat /\ Len(Tail(s)) = Len(s) - 1 /\ Head(s) = s[1]
      /\ \A i \in 1..Len(Tail(s)) : Tail(s)[i] = s[i + 1]
  BY TailAt
<1>2. Head(s) = l[n + 1] /\ n + 1 <= Len(l)
  BY <1>1 DEF After
<1>3. \A i \in 1..Len(Tail(s)) : Tail(s)[i] = l[n + 1 + i]
  <2> SUFFICES ASSUME NEW i \in 1..Len(Tail(s)) PROVE Tail(s)[i] = l[n + 1 + i]
    OBVIOUS
  <2>1. i + 1 \in 1..Len(s) /\ Tail(s)[i] = s[i + 1] /\ n + (i + 1) = n + 1 + i
    BY <1>1
  <2> QED
    BY <2>1 DEF After
<1> QED
  BY <1>1, <1>2, <1>3 DEF After

\* The event that comes next extends the events after n.
LEMMA AfterNext ==
  ASSUME NEW s \in Seq(Events), NEW l \in Seq(Events), NEW n \in Nat, After(s, l, n),
         n + Len(s) + 1 <= Len(l), NEW e \in Events, e = l[n + Len(s) + 1]
  PROVE  After(Append(s, e), l, n)
<1>1. Len(s) \in Nat /\ Len(l) \in Nat /\ Len(Append(s, e)) = Len(s) + 1
      /\ (\A i \in 1..Len(s) : Append(s, e)[i] = s[i]) /\ Append(s, e)[Len(s) + 1] = e
  BY AppendAt
<1>2. ASSUME NEW i \in 1..(Len(s) + 1) PROVE Append(s, e)[i] = l[n + i]
  <2>1. CASE i \in 1..Len(s)
    BY <1>1, <2>1 DEF After
  <2>2. CASE i = Len(s) + 1
    <3>1. n + i = n + Len(s) + 1
      BY <1>1, <2>2
    <3> QED
      BY <1>1, <2>2, <3>1
  <2> QED
    BY <1>1, <1>2, <2>1, <2>2
<1> QED
  BY <1>1, <1>2 DEF After

\* What EventsSince returns.
LEMMA AfterRest ==
  ASSUME NEW l \in Seq(Events), NEW n \in 0..Len(l)
  PROVE  SubSeq(l, n + 1, Len(l)) \in Seq(Events) /\ After(SubSeq(l, n + 1, Len(l)), l, n)
<1>1. Len(l) \in Nat /\ n \in Nat
  OBVIOUS
<1>2. \A i \in (n + 1)..Len(l) : l[i] \in Events
  <2>1. \A i \in 1..Len(l) : l[i] \in Events
    BY ElementOfSeq
  <2> QED
    BY <1>1, <2>1
<1>3. /\ SubSeq(l, n + 1, Len(l)) \in Seq(Events)
      /\ Len(SubSeq(l, n + 1, Len(l))) = IF n + 1 <= Len(l) THEN Len(l) - (n + 1) + 1 ELSE 0
      /\ \A i \in 1..(Len(l) - (n + 1) + 1) : SubSeq(l, n + 1, Len(l))[i] = l[n + 1 + i - 1]
  BY <1>1, <1>2, SubSeqProperties
<1>4. Len(SubSeq(l, n + 1, Len(l))) = Len(l) - n
  BY <1>1, <1>3
<1>5. ASSUME NEW i \in 1..(Len(l) - n) PROVE SubSeq(l, n + 1, Len(l))[i] = l[n + i]
  <2>1. i \in 1..(Len(l) - (n + 1) + 1) /\ n + 1 + i - 1 = n + i
    BY <1>1, <1>5
  <2> QED
    BY <1>3, <2>1
<1> QED
  BY <1>1, <1>3, <1>4, <1>5 DEF After

-----------------------------------------------------------------------------
(* The log, the stream and the client.                                     *)

\* The states of a subscription.
LEMMA SubValues ==
  /\ NoSub \in SubRec /\ [on |-> TRUE, full |-> FALSE] \in SubRec
  /\ \A s \in SubRec, x \in BOOLEAN : [s EXCEPT !.full = x] \in SubRec
  BY DEF NoSub, SubRec

\* An event is appended to the log.
LEMMA LogGrows ==
  ASSUME Following, NEW e \in Events, log' = Append(log, e),
         UNCHANGED <<sub, stream, wire, client, got>>
  PROVE  Following'
<1>1. log \in Seq(Events) /\ got \in Seq(Events) /\ wire \in Seq(Events)
      /\ stream \in StreamRec /\ client \in ClientRec
  BY DEF Following, FollowTypes
<1>2. stream.index \in Nat /\ stream.batch \in Seq(Events) /\ client.cur \in Nat
  BY <1>1 DEF StreamRec, ClientRec
<1>3. \A s \in Seq(Events), n \in Nat : After(s, log, n) => After(s, log', n)
  BY <1>1, AfterGrows
<1>4. FollowTypes'
  BY <1>1, AppendAt DEF Following, FollowTypes
<1>5. Processed' /\ Batched'
  BY <1>1, <1>2, <1>3 DEF Following, Processed, Batched
<1>6. Position'
  BY <1>1, <1>2, <1>3 DEF Following, Position, OnWire
<1> QED
  BY <1>4, <1>5, <1>6 DEF Following

\* Steps of the handler that neither read events nor send one.
LEMMA StreamMoves ==
  ASSUME Following, ReadRow \/ Subscribe \/ CountEvents \/ CheckStatus \/ Park \/ Wake
  PROVE  Following'
<1>1. stream \in StreamRec /\ sub \in SubRec
  BY DEF Following, FollowTypes
<1>2. /\ stream' \in StreamRec /\ stream'.index = stream.index /\ stream'.batch = stream.batch
      /\ stream'.pc # "send"
  <2>1. CASE ReadRow
    <3>0. (row \in Terminal) \in BOOLEAN
      OBVIOUS
    <3>1. PICK x : x = (row \in Terminal) /\ x \in BOOLEAN
      BY <3>0
    <3>2. stream' = [stream EXCEPT !.done = x, !.pc = "list"]
      BY <2>1, <3>1 DEF ReadRow
    <3> QED
      BY <1>1, <3>1, <3>2 DEF StreamRec
  <2>2. CASE Subscribe \/ CountEvents \/ CheckStatus \/ Park \/ Wake
    BY <1>1, <2>2 DEF Subscribe, CountEvents, CheckStatus, Park, Wake, StreamRec
  <2> QED
    BY <2>1, <2>2
<1>3. sub' \in SubRec
  <2>1. CASE sub' = sub
    BY <1>1, <2>1
  <2>2. CASE sub' = NoSub
    BY <2>2, SubValues
  <2>3. CASE Subscribe
    BY <2>3, SubValues DEF Subscribe
  <2>4. CASE Wake
    BY <1>1, <2>4, SubValues DEF Wake
  <2> QED
    BY <2>1, <2>2, <2>3, <2>4 DEF ReadRow, CountEvents, CheckStatus, Park
<1>4. UNCHANGED <<log, wire, client, got>>
  BY DEF ReadRow, Subscribe, CountEvents, CheckStatus, Park, Wake
<1>5. FollowTypes'
  BY <1>2, <1>3, <1>4 DEF Following, FollowTypes
<1>6. Processed' /\ Batched' /\ Position'
  BY <1>2, <1>4 DEF Following, Processed, Batched, Position, OnWire
<1> QED
  BY <1>5, <1>6 DEF Following

\* EventsSince reads the rest of the log.
LEMMA ListMoves == Following /\ ListEvents => Following'
<1> SUFFICES ASSUME Following, ListEvents PROVE Following'
  OBVIOUS
<1>1. stream \in StreamRec /\ log \in Seq(Events)
  BY DEF Following, FollowTypes
<1>2. stream.index \in 0..Len(log)
  <2>1. stream.index \in Nat /\ stream.batch \in Seq(Events)
    BY <1>1 DEF StreamRec
  <2>2. Len(stream.batch) \in Nat /\ Len(log) \in Nat
    BY <1>1, <2>1
  <2> QED
    BY <2>1, <2>2 DEF Following, Batched, After
<1>3. PICK x : x = SubSeq(log, stream.index + 1, Len(log))
  OBVIOUS
<1>4. x \in Seq(Events) /\ After(x, log, stream.index)
  BY <1>1, <1>2, <1>3, AfterRest
<1>5. PICK y : y = IF x # <<>> THEN "send" ELSE IF stream.done THEN "closed" ELSE "sub"
  OBVIOUS
<1>6. y \in {"send", "closed", "sub"} /\ (y = "send" => x # <<>>)
  BY <1>5
<1>7. stream' = [stream EXCEPT !.batch = x, !.pc = y]
  BY <1>3, <1>5 DEF ListEvents
<1>8. stream' \in StreamRec /\ stream'.index = stream.index /\ stream'.batch = x /\ stream'.pc = y
  BY <1>1, <1>4, <1>6, <1>7 DEF StreamRec
<1>9. UNCHANGED <<log, wire, client, got, sub>>
  BY DEF ListEvents
<1>10. FollowTypes'
  BY <1>8, <1>9 DEF Following, FollowTypes
<1>11. Batched'
  BY <1>4, <1>6, <1>8, <1>9 DEF Batched
<1>12. Processed' /\ Position'
  BY <1>8, <1>9 DEF Following, Processed, Position, OnWire
<1> QED
  BY <1>10, <1>11, <1>12 DEF Following

\* The first event of the batch goes onto the wire.
LEMMA SendMoves == Following /\ Send => Following'
<1> SUFFICES ASSUME Following, Send PROVE Following'
  OBVIOUS
<1>1. stream \in StreamRec /\ log \in Seq(Events) /\ wire \in Seq(Events) /\ client \in ClientRec
  BY DEF Following, FollowTypes
<1>2. /\ stream.index \in Nat /\ stream.batch \in Seq(Events) /\ stream.batch # <<>>
      /\ After(stream.batch, log, stream.index)
  BY <1>1 DEF StreamRec, Following, Batched, Send
<1>3. /\ Head(stream.batch) = log[stream.index + 1] /\ stream.index + 1 <= Len(log)
      /\ After(Tail(stream.batch), log, stream.index + 1)
      /\ Len(Tail(stream.batch)) = Len(stream.batch) - 1
      /\ Head(stream.batch) \in Events /\ Tail(stream.batch) \in Seq(Events)
      /\ Len(stream.batch) \in Nat \ {0}
  BY <1>1, <1>2, AfterTail, TailAt
<1>4. PICK y : y = IF Len(stream.batch) > 1 THEN "send" ELSE IF stream.done THEN "closed" ELSE "row"
  OBVIOUS
<1>5. y \in {"send", "closed", "row"} /\ (y = "send" => Tail(stream.batch) # <<>>)
  <2>1. Tail(stream.batch) = <<>> => Len(Tail(stream.batch)) = 0
    BY <1>3, EmptySeq
  <2>2. y = "send" => Len(stream.batch) > 1
    BY <1>4
  <2>3. y \in {"send", "closed", "row"}
    BY <1>4
  <2>4. ASSUME y = "send" PROVE Tail(stream.batch) # <<>>
    <3>1. Len(stream.batch) > 1
      BY <2>2, <2>4
    <3>2. Len(Tail(stream.batch)) > 0
      BY <1>3, <3>1
    <3>3. ~(0 > 0)
      OBVIOUS
    <3> QED
      BY <2>1, <3>2, <3>3, Zenon
  <2> QED
    BY <2>3, <2>4
<1>6. stream' = [stream EXCEPT !.index = stream.index + 1, !.batch = Tail(stream.batch), !.pc = y]
  BY <1>1, <1>4 DEF Send, StreamRec
<1>7. /\ stream' \in StreamRec /\ stream'.index = stream.index + 1
      /\ stream'.batch = Tail(stream.batch) /\ stream'.pc = y
  <2>1. PICK n \in Nat : n = stream.index + 1
    BY <1>2
  <2>2. PICK q \in Seq(Events) : q = Tail(stream.batch)
    BY <1>3
  <2>3. stream' = [stream EXCEPT !.index = n, !.batch = q, !.pc = y]
    BY <1>6, <2>1, <2>2
  <2>4. stream' \in StreamRec /\ stream'.index = n /\ stream'.batch = q /\ stream'.pc = y
    BY <1>1, <1>5, <2>1, <2>2, <2>3 DEF StreamRec
  <2> QED
    BY <2>1, <2>2, <2>4
<1>8. UNCHANGED <<log, client, got, sub>> /\ wire' = Append(wire, Head(stream.batch))
  BY DEF Send
<1>9. wire' \in Seq(Events) /\ Len(wire') = Len(wire) + 1 /\ Len(wire) \in Nat
  BY <1>1, <1>3, <1>8, AppendAt
<1>10. FollowTypes'
  BY <1>7, <1>8, <1>9 DEF Following, FollowTypes
<1>11. Processed' /\ Batched'
  BY <1>3, <1>5, <1>7, <1>8 DEF Following, Processed, Batched
<1>12. ASSUME NEW n \in Nat, OnWire(n) PROVE After(wire', log, n) /\ n + Len(wire') = stream'.index
  <2>1. n + Len(wire) = stream.index /\ After(wire, log, n)
    BY <1>12 DEF OnWire
  <2>2. After(wire', log, n)
    BY <1>1, <1>3, <1>8, <2>1, AfterNext
  <2> QED
    BY <1>2, <1>7, <1>9, <2>1, <2>2
<1>13. Position'
  <2>1. client.cur \in Nat /\ client.cur + 1 \in Nat
    BY <1>1 DEF ClientRec
  <2>2. CASE client.pc = "read"
    <3>1. After(wire', log, client.cur) /\ client.cur + Len(wire') = stream'.index
      BY <1>12, <2>1, <2>2 DEF Following, Position
    <3> QED
      BY <1>8, <2>2, <3>1 DEF Following, Position, OnWire
  <2>3. CASE client.pc = "fetch"
    <3>1. After(wire', log, client.cur + 1) /\ client.cur + 1 + Len(wire') = stream'.index
      BY <1>12, <2>1, <2>3 DEF Following, Position
    <3> QED
      BY <1>8, <2>3, <3>1 DEF Following, Position, OnWire
  <2> QED
    BY <1>8, <2>2, <2>3 DEF Following, Position
<1> QED
  BY <1>10, <1>11, <1>13 DEF Following

\* A stream that has not read anything.
LEMMA ClosedStream ==
  /\ Closed \in StreamRec /\ Closed.index = 0 /\ Closed.batch = <<>> /\ Closed.pc = "off"
  /\ [Closed EXCEPT !.pc = "row"] \in StreamRec /\ [Closed EXCEPT !.pc = "row"].index = 0
  /\ [Closed EXCEPT !.pc = "row"].batch = <<>> /\ [Closed EXCEPT !.pc = "row"].pc = "row"
<1>1. Closed \in StreamRec /\ Closed.index = 0 /\ Closed.batch = <<>> /\ Closed.pc = "off"
  <2>1. <<>> \in Seq(Events) /\ FALSE \in BOOLEAN /\ 0 \in Nat
    BY EmptySeq
  <2> QED
    BY <2>1 DEF Closed, StreamRec
<1>2. PICK q : q = [Closed EXCEPT !.pc = "row"]
  OBVIOUS
<1>3. q \in StreamRec /\ q.index = Closed.index /\ q.batch = Closed.batch /\ q.pc = "row"
  BY <1>1, <1>2 DEF StreamRec
<1> QED
  BY <1>1, <1>2, <1>3

\* The connection is opened, at the first event.
LEMMA ConnectMoves == Following /\ Connect => Following'
<1> SUFFICES ASSUME Following, Connect PROVE Following'
  OBVIOUS
<1>1. client \in ClientRec /\ log \in Seq(Events) /\ got \in Seq(Events)
  BY DEF Following, FollowTypes
<1>2. /\ client' \in ClientRec /\ client'.pc = "read" /\ client'.cur = 0
      /\ client'.resume = client.resume
  BY <1>1 DEF Connect, ClientRec
<1>3. stream' \in StreamRec /\ stream'.index = 0 /\ stream'.batch = <<>> /\ stream'.pc = "row"
  BY ClosedStream DEF Connect
<1>4. wire' = <<>> /\ sub' \in SubRec /\ UNCHANGED <<log, got>>
  BY SubValues DEF Connect
<1>5. Len(got) \in Nat /\ Len(log) \in Nat /\ client.resume = Len(got)
  BY <1>1 DEF Following, Position, Connect
<1>6. After(<<>>, log, 0)
  BY <1>1, <1>5, AfterEmpty
<1>7. wire' \in Seq(Events) /\ Len(wire') = 0
  BY <1>4, EmptySeq
<1>8. FollowTypes'
  BY <1>2, <1>3, <1>4, <1>7 DEF Following, FollowTypes
<1>9. Processed' /\ Batched'
  BY <1>3, <1>4, <1>6 DEF Following, Processed, Batched
<1>10. OnWire(client.cur)'
  BY <1>2, <1>3, <1>4, <1>6, <1>7 DEF OnWire
<1>11. Position'
  BY <1>2, <1>4, <1>5, <1>10 DEF Position
<1> QED
  BY <1>8, <1>9, <1>11 DEF Following

\* The client reads an event: it skips what it has processed, and processes the next one.
LEMMA ReadMoves == Following /\ ReadEvent => Following'
<1> SUFFICES ASSUME Following, ReadEvent PROVE Following'
  OBVIOUS
<1>1. /\ client \in ClientRec /\ log \in Seq(Events) /\ got \in Seq(Events) /\ wire \in Seq(Events)
      /\ wire # <<>> /\ stream \in StreamRec
  BY DEF Following, FollowTypes, ReadEvent
<1>2. /\ client.cur \in Nat /\ client.resume \in Nat /\ client.resume = Len(got)
      /\ client.cur <= client.resume /\ client.pc = "read"
      /\ After(wire, log, client.cur) /\ client.cur + Len(wire) = stream.index
      /\ stream.index \in Nat
  BY <1>1 DEF Following, Position, OnWire, ReadEvent, ClientRec, StreamRec
<1>3. /\ Head(wire) = log[client.cur + 1] /\ client.cur + 1 <= Len(log)
      /\ After(Tail(wire), log, client.cur + 1) /\ Len(Tail(wire)) = Len(wire) - 1
  BY <1>1, <1>2, AfterTail
<1>4. /\ Tail(wire) \in Seq(Events) /\ Head(wire) \in Events /\ Len(wire) \in Nat \ {0}
  BY <1>1, TailAt
<1>5. client.cur + 1 + Len(Tail(wire)) = stream.index
  <2>1. PICK m \in Nat, k \in Int : m = Len(wire) /\ k = Len(Tail(wire)) /\ k = m - 1
    BY <1>3, <1>4
  <2>2. client.cur + 1 + k = stream.index
    BY <1>2, <2>1
  <2> QED
    BY <2>1, <2>2
<1>6. wire' = Tail(wire) /\ UNCHANGED <<log, sub, stream>>
  BY DEF ReadEvent
<1>7. Batched'
  BY <1>6 DEF Following, Batched
<1>8. CASE client.cur < client.resume
  <2>1. client' = [client EXCEPT !.cur = client.cur + 1] /\ got' = got
    BY <1>1, <1>8 DEF ReadEvent, ClientRec
  <2>2. PICK n \in Nat : n = client.cur + 1
    BY <1>2
  <2>3. client' \in ClientRec /\ client'.cur = n /\ client'.resume = client.resume
        /\ client'.pc = "read"
    BY <1>1, <1>2, <2>1, <2>2 DEF ClientRec
  <2>4. FollowTypes'
    BY <1>4, <1>6, <2>1, <2>3 DEF Following, FollowTypes
  <2>5. Processed'
    BY <1>6, <2>1 DEF Following, Processed
  <2>6. OnWire(client.cur)'
    BY <1>3, <1>5, <1>6, <2>2, <2>3 DEF OnWire
  <2>7. n <= client.resume
    BY <1>2, <1>8, <2>2
  <2>8. Position'
    BY <1>2, <2>1, <2>3, <2>6, <2>7 DEF Position
  <2> QED
    BY <1>7, <2>4, <2>5, <2>8 DEF Following
<1>9. CASE ~(client.cur < client.resume)
  <2>1. client.cur = client.resume
    BY <1>2, <1>9
  <2>2. got' = Append(got, Head(wire))
    BY <1>9 DEF ReadEvent
  <2>3. got' \in Seq(Events) /\ Len(got') = Len(got) + 1 /\ Len(got) \in Nat /\ Len(log) \in Nat
    BY <1>1, <1>4, <2>2, AppendAt
  <2>4. Processed'
    <3>1. After(got, log, 0) /\ 0 + Len(got) + 1 <= Len(log) /\ Head(wire) = log[0 + Len(got) + 1]
      BY <1>2, <1>3, <2>1, <2>3 DEF Following, Processed
    <3>2. After(Append(got, Head(wire)), log, 0)
      BY <1>1, <1>4, <3>1, AfterNext
    <3> QED
      BY <1>6, <2>2, <3>2 DEF Processed
  <2>5. CASE Head(wire).type = "status"
    <3>1. client' = [client EXCEPT !.pc = "fetch"]
      BY <1>9, <2>5 DEF ReadEvent
    <3>2. client' \in ClientRec /\ client'.pc = "fetch" /\ client'.cur = client.cur
      BY <1>1, <3>1 DEF ClientRec
    <3>3. FollowTypes'
      BY <1>4, <1>6, <2>3, <3>2 DEF Following, FollowTypes
    <3>4. OnWire(client.cur + 1)'
      BY <1>3, <1>5, <1>6, <3>2 DEF OnWire
    <3>5. client'.cur + 1 = Len(got')
      BY <1>2, <2>1, <2>3, <3>2
    <3>6. Position'
      BY <3>2, <3>4, <3>5 DEF Position
    <3> QED
      BY <1>7, <2>4, <3>3, <3>6 DEF Following
  <2>6. CASE Head(wire).type # "status"
    <3>1. client' = [client EXCEPT !.cur = client.cur + 1, !.resume = client.cur + 1]
      BY <1>1, <1>9, <2>6 DEF ReadEvent, ClientRec
    <3>2. PICK n \in Nat : n = client.cur + 1
      BY <1>2
    <3>3. client' \in ClientRec /\ client'.pc = "read" /\ client'.cur = n /\ client'.resume = n
      BY <1>1, <1>2, <3>1, <3>2 DEF ClientRec
    <3>4. FollowTypes'
      BY <1>4, <1>6, <2>3, <3>3 DEF Following, FollowTypes
    <3>5. OnWire(client.cur)'
      BY <1>3, <1>5, <1>6, <3>2, <3>3 DEF OnWire
    <3>6. n = Len(got') /\ n <= n
      BY <1>2, <2>1, <2>3, <3>2
    <3>7. Position'
      BY <3>3, <3>5, <3>6 DEF Position
    <3> QED
      BY <1>7, <2>4, <3>4, <3>7 DEF Following
  <2> QED
    BY <2>5, <2>6
<1> QED
  BY <1>8, <1>9

\* After a status event the client goes on behind it, or ends.
LEMMA FetchMoves == Following /\ FetchJob => Following'
<1> SUFFICES ASSUME Following, FetchJob PROVE Following'
  OBVIOUS
<1>1. client \in ClientRec /\ UNCHANGED <<log, sub, stream, wire, got>>
  BY DEF Following, FollowTypes, FetchJob
<1>2. client.cur \in Nat /\ client.cur + 1 = Len(got) /\ OnWire(client.cur + 1)
  BY <1>1 DEF Following, Position, FetchJob, ClientRec
<1>3. Processed' /\ Batched'
  BY <1>1 DEF Following, Processed, Batched
<1>4. CASE row \in Terminal
  <2>1. client' \in ClientRec /\ client'.pc = "ended"
    BY <1>1, <1>4 DEF FetchJob, ClientRec
  <2> QED
    BY <1>1, <1>3, <2>1 DEF Following, FollowTypes, Position
<1>5. CASE row \notin Terminal
  <2>1. PICK n \in Nat : n = client.cur + 1
    BY <1>2
  <2>2. client' = [pc |-> "read", cur |-> n, resume |-> n]
    BY <1>5, <2>1 DEF FetchJob
  <2>3. client' \in ClientRec /\ client'.pc = "read" /\ client'.cur = n /\ client'.resume = n
    BY <2>1, <2>2 DEF ClientRec
  <2>4. OnWire(client.cur)'
    BY <1>1, <1>2, <2>1, <2>3 DEF OnWire
  <2>5. n <= n /\ n = Len(got)
    BY <1>2, <2>1
  <2>6. Position'
    BY <1>1, <2>3, <2>4, <2>5 DEF Position
  <2> QED
    BY <1>1, <1>3, <2>3, <2>6 DEF Following, FollowTypes
<1> QED
  BY <1>4, <1>5

\* The stream ends or breaks: the client connects again.
LEMMA CloseMoves == Following /\ (EndOfStream \/ Break) => Following'
<1> SUFFICES ASSUME Following, EndOfStream \/ Break PROVE Following'
  OBVIOUS
<1>1. client \in ClientRec /\ client.pc = "read" /\ log \in Seq(Events)
  BY DEF Following, FollowTypes, EndOfStream, Break
<1>2. client' \in ClientRec /\ client'.pc = "connect" /\ client'.resume = client.resume
  BY <1>1 DEF EndOfStream, Break, ClientRec
<1>3. stream' \in StreamRec /\ stream'.index = 0 /\ stream'.batch = <<>> /\ stream'.pc = "off"
  BY ClosedStream DEF EndOfStream, Break
<1>4. wire' = <<>> /\ UNCHANGED <<log, got>>
  BY DEF EndOfStream, Break
<1>5. sub' \in SubRec
  BY SubValues DEF Following, FollowTypes, EndOfStream, Break
<1>6. After(<<>>, log, 0) /\ <<>> \in Seq(Events)
  BY <1>1, AfterEmpty, EmptySeq
<1>7. FollowTypes'
  BY <1>2, <1>3, <1>4, <1>5, <1>6 DEF Following, FollowTypes
<1>8. Processed' /\ Batched'
  BY <1>3, <1>4, <1>6 DEF Following, Processed, Batched
<1>9. Position'
  BY <1>1, <1>2, <1>4 DEF Following, Position
<1> QED
  BY <1>7, <1>8, <1>9 DEF Following

-----------------------------------------------------------------------------
(* The job and its heartbeats.                                             *)

\* The fields of an event.
LEMMA EventFields == \A e \in Events : e \in EventRec
  BY EventsAssumption DEF Events, EventRec, StatusEvent, TaskEvent, Plain, Terminal

\* The events a job appends.
LEMMA EventValues ==
  /\ \A s \in {"queued", "running"} \cup Terminal : StatusEvent(s) \in Events
  /\ \A t \in 1..NTasks, s \in {"running"} \cup Terminal : TaskEvent(t, s) \in Events
  /\ \A y \in {"log", "result", "error"} : Plain(y) \in Events
  BY DEF Events

\* updateHeartbeat keeps the shape of the entry.
LEMMA UpdatedTypes ==
  ASSUME beat \in BeatRec, NEW ev \in Events
  PROVE  Updated(ev) \in BeatRec
<1>1. ev.task \in 0..NTasks /\ ev \in Events \cup {NoEvent} /\ NoEvent \in Events \cup {NoEvent}
  BY EventFields DEF EventRec
<1>2. NoBeat \in BeatRec
  <2>1. FALSE \in BOOLEAN /\ 0 \in 0..NTasks /\ 0 \in Beats \cup {0}
    BY EventsAssumption
  <2> QED
    BY <1>1, <2>1 DEF NoBeat, BeatRec
<1>3. Starts(ev) \in BOOLEAN
  BY DEF Starts
<1>4. PICK x \in BOOLEAN : x = Starts(ev)
  BY <1>3
<1>5. [NoBeat EXCEPT !.on = x] \in BeatRec
  BY <1>2, <1>4 DEF BeatRec
<1>6. PICK h : h = IF beat.on THEN beat ELSE [NoBeat EXCEPT !.on = Starts(ev)]
  OBVIOUS
<1>7. h \in BeatRec
  BY <1>4, <1>5, <1>6
<1>8. /\ [h EXCEPT !.task = ev.task, !.last = ev] \in BeatRec
      /\ [h EXCEPT !.last = ev] \in BeatRec
  BY <1>1, <1>7 DEF BeatRec
<1>9. [h EXCEPT !.task = 0, !.last = NoEvent, !.owner = 0] \in BeatRec
  <2>1. 0 \in 0..NTasks /\ 0 \in Beats \cup {0}
    BY EventsAssumption
  <2> QED
    BY <1>1, <1>7, <2>1 DEF BeatRec
<1>10. \/ Updated(ev) = h
       \/ Updated(ev) = [h EXCEPT !.task = ev.task, !.last = ev]
       \/ Updated(ev) = [h EXCEPT !.last = ev]
       \/ Updated(ev) = [h EXCEPT !.task = 0, !.last = NoEvent, !.owner = 0]
       \/ Updated(ev) = NoBeat
  BY <1>6 DEF Updated
<1> QED
  BY <1>2, <1>7, <1>8, <1>9, <1>10

\* A record of goroutines in which whoever is inside appendEvent has an event.
Routines(g) == /\ g \in [Beats -> HbRec]
               /\ \A b \in Beats : g[b].pc \in InAppend => g[b].ev \in Events

\* Cancelling a goroutine leaves it where it is.
LEMMA UpdateKeeps ==
  ASSUME beat \in BeatRec, NEW ev \in Events, NEW g, Routines(g), UpdateHeartbeat(ev, g)
  PROVE  beat' \in BeatRec /\ Routines(hb')
<1>1. beat' \in BeatRec
  BY UpdatedTypes DEF UpdateHeartbeat
<1>2. ASSUME NEW b \in Beats PROVE hb'[b] \in HbRec /\ hb'[b].pc = g[b].pc /\ hb'[b].ev = g[b].ev
  <2>1. g[b] \in HbRec
    BY DEF Routines
  <2>2. PICK q : q = [g[b] EXCEPT !.dead = TRUE]
    OBVIOUS
  <2>3. q \in HbRec /\ q.pc = g[b].pc /\ q.ev = g[b].ev
    BY <2>1, <2>2 DEF HbRec
  <2>4. hb'[b] = q \/ hb'[b] = g[b]
    BY <2>2 DEF UpdateHeartbeat
  <2> QED
    BY <2>1, <2>3, <2>4
<1>3. hb' \in [Beats -> HbRec]
  <2>1. hb' = [b \in Beats |-> hb'[b]]
    BY DEF UpdateHeartbeat
  <2> QED
    BY <1>2, <2>1
<1> QED
  BY <1>1, <1>2, <1>3 DEF Routines

\* A goroutine starts with nothing to append.
LEMMA StartKeeps ==
  ASSUME beat \in BeatRec, NEW g, Routines(g), StartHeartbeat(g)
  PROVE  beat' \in BeatRec /\ Routines(hb')
<1>1. CASE beat.on /\ beat.owner = 0
  <2>1. PICK b \in Beats : /\ hb' = [g EXCEPT ![b] = [HbOff EXCEPT !.pc = "tick"]]
                           /\ beat' = [beat EXCEPT !.owner = b]
    BY <1>1 DEF StartHeartbeat
  <2>2. beat' \in BeatRec
    BY <2>1 DEF BeatRec
  <2>3. PICK q : q = [HbOff EXCEPT !.pc = "tick"]
    OBVIOUS
  <2>4. q \in HbRec /\ q.pc = "tick"
    BY <2>3 DEF HbOff, HbRec
  <2>5. Routines(hb')
    BY <2>1, <2>3, <2>4 DEF Routines, InAppend
  <2> QED
    BY <2>2, <2>5
<1>2. CASE ~(beat.on /\ beat.owner = 0)
  BY <1>2 DEF StartHeartbeat
<1> QED
  BY <1>1, <1>2

\* A goroutine moves to another point of appendEvent, or to the loop.
LEMMA PointKeeps ==
  ASSUME NEW g, Routines(g), NEW b \in Beats, NEW p \in {"append", "beat", "start", "notify"},
         g[b].ev \in Events
  PROVE  Routines([g EXCEPT ![b].pc = p])
<1>1. PICK q : q = [g[b] EXCEPT !.pc = p]
  OBVIOUS
<1>2. q \in HbRec /\ q.ev = g[b].ev
  BY <1>1 DEF Routines, HbRec
<1>3. [g EXCEPT ![b].pc = p] = [g EXCEPT ![b] = q]
  BY <1>1
<1> QED
  BY <1>2, <1>3 DEF Routines

\* The engine's part keeps its types and its events.
LEMMA EngineParts ==
  EngineTypes <=> /\ row \in {"queued", "running"} \cup Terminal
                  /\ runner \in RunnerRec /\ (runner.pc \in InAppend => runner.ev \in Events)
                  /\ beat \in BeatRec /\ Routines(hb)
  BY DEF EngineTypes, HasEvent, Routines

\* Each step of the job, of a heartbeat, of the stream and of the client keeps them.
LEMMA EngineKeeps == EngineTypes /\ [Next]_vars => EngineTypes'
<1> SUFFICES ASSUME EngineTypes, [Next]_vars PROVE EngineTypes'
  OBVIOUS
<1>0. /\ row \in {"queued", "running"} \cup Terminal /\ runner \in RunnerRec
      /\ (runner.pc \in InAppend => runner.ev \in Events) /\ beat \in BeatRec /\ Routines(hb)
  BY EngineParts
<1>1. ASSUME row' \in {"queued", "running"} \cup Terminal, runner' \in RunnerRec,
             runner'.pc \in InAppend => runner'.ev \in Events, beat' \in BeatRec, Routines(hb')
      PROVE  EngineTypes'
  BY <1>1 DEF EngineTypes, HasEvent, Routines
<1>2. ASSUME UNCHANGED <<row, runner, beat, hb>> PROVE EngineTypes'
  BY <1>0, <1>1, <1>2
<1>3. ASSUME NEW ph \in {"start", "task", "work", "worked", "after", "fail", "error", "result", "over"},
             NEW ev \in Events, NEW st \in {"none", "running"} \cup Terminal, Emit(ph, ev, st),
             UNCHANGED <<beat, hb>>
      PROVE  EngineTypes'
  <2>1. runner' = [runner EXCEPT !.phase = ph, !.ev = ev, !.pc = "append"]
    BY <1>3 DEF Emit
  <2>2. runner' \in RunnerRec /\ runner'.ev = ev
    BY <1>0, <2>1 DEF RunnerRec
  <2>3. row' \in {"queued", "running"} \cup Terminal
    BY <1>0, <1>3 DEF Emit
  <2> QED
    BY <1>0, <1>1, <1>3, <2>2, <2>3
<1>4. CASE Choose
  <2>1. runner.task \in 1..NTasks /\ UNCHANGED <<beat, hb>>
    BY <1>0, <1>4 DEF RunnerRec, Choose
  <2>2. /\ StatusEvent("queued") \in Events /\ StatusEvent("running") \in Events
        /\ StatusEvent("failed") \in Events /\ StatusEvent("succeeded") \in Events
        /\ TaskEvent(runner.task, "running") \in Events /\ TaskEvent(runner.task, "succeeded") \in Events
        /\ TaskEvent(runner.task, "failed") \in Events
        /\ Plain("log") \in Events /\ Plain("error") \in Events /\ Plain("result") \in Events
    BY <2>1, EventValues DEF Terminal
  <2>3. \/ Emit("start", StatusEvent("queued"), "none")
        \/ Emit("task", StatusEvent("running"), "running")
        \/ Emit("work", TaskEvent(runner.task, "running"), "none")
        \/ Emit("worked", Plain("log"), "none")
        \/ Emit("after", TaskEvent(runner.task, "succeeded"), "none")
        \/ Emit("fail", TaskEvent(runner.task, "failed"), "none")
        \/ Emit("error", StatusEvent("failed"), "failed")
        \/ Emit("result", StatusEvent("succeeded"), "succeeded")
        \/ Emit("over", Plain("error"), "none")
        \/ Emit("over", Plain("result"), "none")
    BY <1>4 DEF Choose
  <2>4. {"none", "running", "failed", "succeeded"} \subseteq {"none", "running"} \cup Terminal
    BY DEF Terminal
  <2> QED
    BY <1>3, <2>1, <2>2, <2>3, <2>4
<1>5. ASSUME runner' \in RunnerRec, runner'.pc \in InAppend => runner'.ev \in Events,
             UNCHANGED <<row, beat, hb>>
      PROVE  EngineTypes'
  BY <1>0, <1>1, <1>5
<1>6. CASE AfterTask
  <2>1. runner.task \in 1..NTasks /\ runner.pc = "next" /\ UNCHANGED <<row, beat, hb>>
    BY <1>0, <1>6 DEF RunnerRec, AfterTask
  <2>2. CASE runner.task = NTasks
    <3>1. runner' = [runner EXCEPT !.phase = "end"]
      BY <1>6, <2>2 DEF AfterTask
    <3>2. runner' \in RunnerRec /\ runner'.pc = "next"
      BY <1>0, <2>1, <3>1 DEF RunnerRec
    <3> QED
      BY <1>5, <2>1, <3>2 DEF InAppend
  <2>3. CASE runner.task # NTasks
    <3>1. PICK n \in 1..NTasks : n = runner.task + 1
      BY <2>1, <2>3, EventsAssumption
    <3>2. runner' = [runner EXCEPT !.phase = "task", !.task = n]
      BY <1>0, <1>6, <2>3, <3>1 DEF AfterTask, RunnerRec
    <3>3. runner' \in RunnerRec /\ runner'.pc = "next"
      BY <1>0, <2>1, <3>1, <3>2 DEF RunnerRec
    <3> QED
      BY <1>5, <2>1, <3>3 DEF InAppend
  <2> QED
    BY <2>2, <2>3
<1>7. CASE RunnerAppend
  <2>1. /\ runner' = [runner EXCEPT !.pc = "beat"] /\ runner.ev \in Events
        /\ UNCHANGED <<row, beat, hb>>
    BY <1>0, <1>7 DEF RunnerAppend, InAppend
  <2>2. runner' \in RunnerRec /\ runner'.ev = runner.ev
    BY <1>0, <2>1 DEF RunnerRec
  <2> QED
    BY <1>5, <2>1, <2>2
<1>8. CASE AppendFails
  <2>1. PICK ph : ph = IF runner.ev.type = "status" /\ runner.ev.status \in Terminal THEN "over"
                       ELSE IF runner.ev.type = "task" /\ runner.ev.status # "failed" THEN "fail"
                       ELSE runner.phase
    OBVIOUS
  <2>2. ph \in {"over", "fail", runner.phase}
    BY <2>1
  <2>3. runner' = [runner EXCEPT !.pc = "next", !.phase = ph] /\ UNCHANGED <<row, beat, hb>>
    BY <1>0, <1>8, <2>1 DEF AppendFails, RunnerRec
  <2>4. runner' \in RunnerRec /\ runner'.pc = "next"
    BY <1>0, <2>2, <2>3 DEF RunnerRec
  <2> QED
    BY <1>5, <2>3, <2>4 DEF InAppend
<1>9. ASSUME runner.pc \in InAppend, NEW p \in {"start", "notify"}, runner' = [runner EXCEPT !.pc = p],
             UNCHANGED row, beat' \in BeatRec, Routines(hb')
      PROVE  EngineTypes'
  <2>1. runner' \in RunnerRec /\ runner'.ev = runner.ev /\ runner.ev \in Events
    BY <1>0, <1>9 DEF RunnerRec
  <2> QED
    BY <1>0, <1>1, <1>9, <2>1
<1>10. ASSUME NEW e PROVE AfterUpdate(e) \in {"start", "notify"}
  BY DEF AfterUpdate
<1>11. CASE RunnerBeat
  <2>1. runner.pc \in InAppend /\ runner.ev \in Events /\ row' = row
    BY <1>0, <1>11 DEF RunnerBeat, InAppend
  <2>2. beat' \in BeatRec /\ Routines(hb')
    BY <1>0, <1>11, <2>1, UpdateKeeps DEF RunnerBeat
  <2> QED
    BY <1>9, <1>10, <1>11, <2>1, <2>2 DEF RunnerBeat
<1>12. CASE RunnerStart
  <2>1. runner.pc \in InAppend /\ row' = row /\ runner' = [runner EXCEPT !.pc = "notify"]
    BY <1>12 DEF RunnerStart, InAppend
  <2>2. beat' \in BeatRec /\ Routines(hb')
    BY <1>0, <1>12, StartKeeps DEF RunnerStart
  <2> QED
    BY <1>9, <2>1, <2>2
<1>13. CASE RunnerNotify
  <2>1. runner' = [runner EXCEPT !.pc = "next"] /\ UNCHANGED <<row, beat, hb>>
    BY <1>13 DEF RunnerNotify
  <2>2. runner' \in RunnerRec /\ runner'.pc = "next"
    BY <1>0, <2>1 DEF RunnerRec
  <2> QED
    BY <1>5, <2>1, <2>2 DEF InAppend
<1>14. ASSUME UNCHANGED <<row, runner>>, beat' \in BeatRec, Routines(hb') PROVE EngineTypes'
  BY <1>0, <1>1, <1>14
<1>15. ASSUME NEW b \in Beats, NEW q \in HbRec, hb' = [hb EXCEPT ![b] = q],
              q.pc \in InAppend => q.ev \in Events, UNCHANGED <<row, runner, beat>>
       PROVE  EngineTypes'
  <2>1. Routines(hb')
    BY <1>0, <1>15 DEF Routines
  <2> QED
    BY <1>0, <1>14, <1>15, <2>1
<1>16. ASSUME NEW b \in Beats, BeatStops(b) PROVE EngineTypes'
  <2>1. HbOff \in HbRec /\ HbOff.pc = "off"
    BY DEF HbOff, HbRec
  <2> QED
    BY <1>15, <1>16, <2>1 DEF BeatStops, InAppend
<1>17. ASSUME NEW b \in Beats, BeatTick(b) PROVE EngineTypes'
  <2>1. beat.last \in Events
    BY <1>0, <1>17 DEF BeatTick, BeatRec
  <2>2. PICK q : q = [hb[b] EXCEPT !.pc = "append", !.ev = beat.last]
    OBVIOUS
  <2>3. hb[b] \in HbRec
    BY <1>0 DEF Routines
  <2>4. q \in HbRec /\ q.ev = beat.last
    BY <2>1, <2>2, <2>3 DEF HbRec
  <2>5. hb' = [hb EXCEPT ![b] = q] /\ UNCHANGED <<row, runner, beat>>
    BY <1>0, <1>17, <2>2, <2>3 DEF BeatTick, Routines, HbRec
  <2> QED
    BY <1>15, <2>1, <2>4, <2>5
<1>18. ASSUME NEW b \in Beats, BeatAppend(b) PROVE EngineTypes'
  <2>1. hb[b].ev \in Events
    BY <1>0, <1>18 DEF BeatAppend, Routines, InAppend
  <2>2. Routines([hb EXCEPT ![b].pc = "beat"])
    BY <1>0, <2>1, PointKeeps
  <2>3. hb' = [hb EXCEPT ![b].pc = "beat"] /\ UNCHANGED <<row, runner, beat>>
    BY <1>18 DEF BeatAppend
  <2>4. Routines(hb')
    BY <2>2, <2>3
  <2> QED
    BY <1>0, <1>14, <2>3, <2>4
<1>19. ASSUME NEW b \in Beats, BeatUpdate(b) PROVE EngineTypes'
  <2>1. hb[b].ev \in Events /\ UNCHANGED <<row, runner>>
    BY <1>0, <1>19 DEF BeatUpdate, Routines, InAppend
  <2>2. Routines([hb EXCEPT ![b].pc = AfterUpdate(hb[b].ev)])
    <3>1. AfterUpdate(hb[b].ev) \in {"append", "beat", "start", "notify"}
      BY <1>10
    <3> QED
      BY <1>0, <2>1, <3>1, PointKeeps
  <2>3. beat' \in BeatRec /\ Routines(hb')
    BY <1>0, <1>19, <2>1, <2>2, UpdateKeeps DEF BeatUpdate
  <2> QED
    BY <1>14, <2>1, <2>3
<1>20. ASSUME NEW b \in Beats, BeatStart(b) PROVE EngineTypes'
  <2>1. hb[b].ev \in Events /\ UNCHANGED <<row, runner>>
    BY <1>0, <1>20 DEF BeatStart, Routines, InAppend
  <2>2. Routines([hb EXCEPT ![b].pc = "notify"])
    BY <1>0, <2>1, PointKeeps
  <2>3. beat' \in BeatRec /\ Routines(hb')
    BY <1>0, <1>20, <2>2, StartKeeps DEF BeatStart
  <2> QED
    BY <1>14, <2>1, <2>3
<1>21. ASSUME NEW b \in Beats, BeatNotify(b) PROVE EngineTypes'
  <2>1. hb[b] \in HbRec
    BY <1>0 DEF Routines
  <2>2. PICK q : q = [hb[b] EXCEPT !.pc = "tick", !.ev = NoEvent]
    OBVIOUS
  <2>3. q \in HbRec /\ q.pc = "tick"
    BY <2>1, <2>2 DEF HbRec
  <2>4. hb' = [hb EXCEPT ![b] = q] /\ UNCHANGED <<row, runner, beat>>
    BY <1>0, <1>21, <2>1, <2>2 DEF BeatNotify, Routines, HbRec
  <2> QED
    BY <1>15, <2>3, <2>4 DEF InAppend
<1>22. CASE StreamStep \/ ClientStep \/ Break
  BY <1>2, <1>22 DEF StreamStep, ReadRow, ListEvents, Send, Subscribe, CountEvents, CheckStatus,
     Park, Wake, ClientStep, Connect, ReadEvent, FetchJob, EndOfStream, Break
<1>23. CASE UNCHANGED vars
  BY <1>2, <1>23 DEF vars
<1> QED
  BY <1>4, <1>6, <1>7, <1>8, <1>11, <1>12, <1>13, <1>16, <1>17, <1>18, <1>19, <1>20, <1>21,
     <1>22, <1>23 DEF Next, RunnerStep, BeatStep

-----------------------------------------------------------------------------
(* The invariant and the theorems.                                         *)

\* Nothing is appended, sent or read.
LEMMA InvInit == Init => IInv
<1> SUFFICES ASSUME Init PROVE IInv
  OBVIOUS
<1>1. NoBeat \in BeatRec
  <2>1. FALSE \in BOOLEAN /\ 0 \in 0..NTasks /\ 0 \in Beats \cup {0} /\ NoEvent \in Events \cup {NoEvent}
    BY EventsAssumption
  <2> QED
    BY <2>1 DEF NoBeat, BeatRec
<1>2. HbOff \in HbRec /\ HbOff.pc \notin InAppend
  BY DEF HbOff, HbRec, InAppend
<1>3. Routines(hb)
  BY <1>2 DEF Init, Routines
<1>4. runner \in RunnerRec /\ runner.pc = "next"
  <2>1. 1 \in 1..NTasks /\ NoEvent \in Events \cup {NoEvent}
    BY EventsAssumption
  <2> QED
    BY <2>1 DEF Init, RunnerRec
<1>5. EngineTypes
  BY <1>1, <1>3, <1>4, EngineParts DEF Init, InAppend
<1>6. client \in ClientRec /\ client.pc = "connect" /\ client.resume = 0
  BY DEF Init, ClientRec
<1>7. <<>> \in Seq(Events) /\ Len(<<>>) = 0 /\ After(<<>>, <<>>, 0)
  <2>1. <<>> \in Seq(Events) /\ Len(<<>>) = 0
    BY EmptySeq
  <2>0. 0 \in 0..0
    OBVIOUS
  <2>2. PICK l \in Seq(Events) : l = <<>> /\ 0 \in 0..Len(l)
    BY <2>0, <2>1, Zenon
  <2>3. After(<<>>, l, 0)
    BY <2>2, AfterEmpty
  <2> QED
    BY <2>1, <2>2, <2>3
<1>8. FollowTypes
  BY <1>6, <1>7, SubValues, ClosedStream DEF Init, FollowTypes
<1>9. Processed /\ Batched /\ Position
  BY <1>6, <1>7, ClosedStream DEF Init, Processed, Batched, Position
<1> QED
  BY <1>5, <1>8, <1>9 DEF IInv, Following

\* Every step keeps it.
LEMMA Inductive == IInv /\ [Next]_vars => IInv'
<1> SUFFICES ASSUME IInv, [Next]_vars PROVE IInv'
  OBVIOUS
<1>0. Following /\ EngineTypes'
  BY EngineKeeps DEF IInv
<1>1. ASSUME UNCHANGED <<log, sub, stream, wire, client, got>> PROVE Following'
  BY <1>0, <1>1 DEF Following, FollowTypes, Processed, Batched, Position, OnWire
<1>2. ASSUME RunnerAppend PROVE Following'
  <2>1. runner.ev \in Events
    BY <1>2 DEF IInv, EngineTypes, HasEvent, RunnerAppend, InAppend
  <2> QED
    BY <1>0, <1>2, <2>1, LogGrows DEF RunnerAppend
<1>3. ASSUME NEW b \in Beats, BeatAppend(b) PROVE Following'
  <2>1. hb[b].ev \in Events
    BY <1>3 DEF IInv, EngineTypes, HasEvent, BeatAppend, InAppend
  <2> QED
    BY <1>0, <1>3, <2>1, LogGrows DEF BeatAppend
<1>4. ASSUME Notify, UNCHANGED <<log, stream, wire, client, got>> PROVE Following'
  <2>1. sub' \in SubRec
    <3>1. sub \in SubRec /\ sub.on \in BOOLEAN
      BY <1>0 DEF Following, FollowTypes, SubRec
    <3> QED
      BY <1>4, <3>1, SubValues DEF Notify
  <2> QED
    BY <1>0, <1>4, <2>1 DEF Following, FollowTypes, Processed, Batched, Position, OnWire
<1>5. ASSUME Choose \/ AfterTask \/ RunnerBeat \/ RunnerStart \/ AppendFails PROVE Following'
  BY <1>1, <1>5 DEF Choose, AfterTask, RunnerBeat, RunnerStart, AppendFails
<1>6. ASSUME NEW b \in Beats, BeatStops(b) \/ BeatTick(b) \/ BeatUpdate(b) \/ BeatStart(b)
      PROVE  Following'
  BY <1>1, <1>6 DEF BeatStops, BeatTick, BeatUpdate, BeatStart
<1>7. ASSUME RunnerNotify \/ \E b \in Beats : BeatNotify(b) PROVE Following'
  BY <1>4, <1>7 DEF RunnerNotify, BeatNotify
<1>8. ASSUME StreamStep PROVE Following'
  BY <1>0, <1>8, StreamMoves, ListMoves, SendMoves DEF StreamStep
<1>9. ASSUME ClientStep \/ Break PROVE Following'
  BY <1>0, <1>9, ConnectMoves, ReadMoves, FetchMoves, CloseMoves DEF ClientStep
<1>10. ASSUME UNCHANGED vars PROVE Following'
  BY <1>1, <1>10 DEF vars
<1>11. Following'
  BY <1>2, <1>3, <1>5, <1>6, <1>7, <1>8, <1>9, <1>10 DEF Next, RunnerStep, BeatStep
<1> QED
  BY <1>0, <1>11 DEF IInv

\* Every variable of the job, its heartbeats, the stream and the client keeps its type.
THEOREM EventTypes == Spec => []TypeOK
<1>1. IInv => TypeOK
  BY DEF IInv, EngineTypes, Following, FollowTypes, TypeOK, RunnerRec, BeatRec, HbRec, SubRec,
     StreamRec, ClientRec
<1> QED
  BY <1>1, InvInit, Inductive, PTL DEF Spec

\* InOrder: whatever heartbeats come between the events and however often the connection
\* breaks, the client has processed the beginning of the log, each event once.
THEOREM FollowsTheLog == Spec => []InOrder
<1>1. IInv => InOrder
  <2> SUFFICES ASSUME IInv PROVE Len(got) <= Len(log) /\ got = SubSeq(log, 1, Len(got))
    BY DEF InOrder
  <2>1. /\ got \in Seq(Events) /\ log \in Seq(Events) /\ Len(got) \in Nat /\ Len(log) \in Nat
        /\ 0 + Len(got) <= Len(log) /\ \A i \in 1..Len(got) : got[i] = log[0 + i]
    BY DEF IInv, Following, FollowTypes, Processed, After
  <2>2. Len(got) <= Len(log) /\ \A i \in 1..Len(got) : got[i] = log[i] /\ log[i] \in Events
    BY <2>1
  <2>3. /\ SubSeq(log, 1, Len(got)) \in Seq(Events)
        /\ Len(SubSeq(log, 1, Len(got))) = IF 1 <= Len(got) THEN Len(got) - 1 + 1 ELSE 0
        /\ \A i \in 1..(Len(got) - 1 + 1) : SubSeq(log, 1, Len(got))[i] = log[1 + i - 1]
    BY <2>1, <2>2, SubSeqProperties
  <2>4. Len(SubSeq(log, 1, Len(got))) = Len(got)
    BY <2>1, <2>3
  <2>5. ASSUME NEW i \in 1..Len(got) PROVE SubSeq(log, 1, Len(got))[i] = got[i]
    <3>1. i \in 1..(Len(got) - 1 + 1) /\ 1 + i - 1 = i
      BY <2>1, <2>5
    <3> QED
      BY <2>2, <2>3, <3>1
  <2>6. got = SubSeq(log, 1, Len(got))
    BY <2>1, <2>3, <2>4, <2>5, SeqEqual
  <2> QED
    BY <2>2, <2>6
<1> QED
  BY <1>1, InvInit, Inductive, PTL DEF Spec

=============================================================================
