----------------------------- MODULE ConfigNodes -----------------------------
(***************************************************************************)
(* The values and paths of the engine configuration (config.go).           *)
(***************************************************************************)
EXTENDS Integers, Sequences

(* Values: a map, a list, nil, a number or a string.  Watermarks are in    *)
(* percent; a string stands for the minutes time.ParseDuration reads out   *)
(* of it, NotADuration when it reads none.                                 *)

NoKids == [k \in {} |-> {}]
NotADuration == 9999

Node(kind, kids, items, val) == [kind |-> kind, kids |-> kids, items |-> items, val |-> val]
MapOf(kids) == Node("map", kids, <<>>, 0)
ListOf(items) == Node("list", NoKids, items, 0)
Nil == Node("nil", NoKids, <<>>, 0)
Num(n) == Node("num", NoKids, <<>>, n)
Str(minutes) == Node("str", NoKids, <<>>, minutes)
Missing == Node("missing", NoKids, <<>>, 0)

(* A segment of a parsed path: a key or an index.                          *)
Key(k) == [key |-> k, index |-> 0, isIndex |-> FALSE]
Index(i) == [key |-> "", index |-> i, isIndex |-> TRUE]

Capacity == <<Key("cache"), Key("capacity")>>
HighPath == Append(Capacity, Key("highWatermark"))
LowPath == Append(Capacity, Key("lowWatermark"))
AgePath == Append(Capacity, Key("minStateAge"))
MaxPath == Append(Capacity, Key("maxBytes"))
LeafPaths == {HighPath, LowPath, AgePath, MaxPath}
=============================================================================
