---------------------------- MODULE EngineConfig ----------------------------
(***************************************************************************)
(* The engine's configuration service (internal/config/config.go) behind   *)
(* PATCH, DELETE and GET /v1/config (internal/httpapi/routes_config.go),   *)
(* and the first reader of it, the capacity settings of every prepare job  *)
(* (internal/prepare/capacity.go, loadCapacitySettings).                   *)
(*                                                                         *)
(* The configuration is a tree: defaults compiled into the engine, under   *)
(* overrides kept in memory and in config.json.  One mutex covers each     *)
(* request, so a request is one step; what can go wrong is inside it: the  *)
(* file is replaced before the memory is, and the directory is opened for  *)
(* a sync after the file was replaced.                                     *)
(***************************************************************************)
EXTENDS Integers, Sequences, FiniteSets, ConfigNodes

CONSTANTS
    Paths,        \* the paths requests name, sequences of segments
    Values,       \* the values requests carry, nodes
    MaxChanges    \* bound: change requests of one behaviour

VARIABLES
    overrides,    \* Manager.overrides
    file,         \* config.json
    changes,      \* change requests so far
    acked,        \* the last change answered with success: Set(path, value), or neither
    unacked,      \* what requests that failed since then left in the file and, by a
                  \* restart, in memory: a tree, or Missing where there is none
    unchecked     \* an accepted change that no validation of config.go covers

vars == <<overrides, file, changes, acked, unacked, unchecked>>

-----------------------------------------------------------------------------
(* The part of the compiled defaults that capacity checks read.            *)
DefaultConfig ==
    MapOf([k \in {"cache"} |->
        MapOf([c \in {"capacity"} |->
            MapOf([highWatermark |-> Num(90), lowWatermark |-> Num(80),
                   minStateAge |-> Str(10), maxBytes |-> Num(0)])])])

Kid(node, k) == IF node.kind = "map" /\ k \in DOMAIN node.kids THEN node.kids[k] ELSE Missing
Item(node, i) == IF node.kind = "list" /\ i < Len(node.items) THEN node.items[i + 1] ELSE Missing
Child(node, seg) == IF seg.isIndex THEN Item(node, seg.index) ELSE Kid(node, seg.key)

RECURSIVE GetPathValue(_, _), SetValue(_, _, _), RemoveValue(_, _), MergeMaps(_, _)

GetPathValue(node, path) ==
    IF path = <<>> THEN node ELSE GetPathValue(Child(node, Head(path)), Tail(path))

WithKid(node, k, kid) ==
    LET kids == IF node.kind = "map" THEN node.kids ELSE NoKids
    IN  MapOf([x \in DOMAIN kids \cup {k} |-> IF x = k THEN kid ELSE kids[x]])

(* A list grows with nil up to the index.                                  *)
WithItem(node, i, item) ==
    LET items == IF node.kind = "list" THEN node.items ELSE <<>>
        last == IF i < Len(items) THEN Len(items) ELSE i + 1
    IN  ListOf([n \in 1..last |->
                  IF n = i + 1 THEN item ELSE IF n <= Len(items) THEN items[n] ELSE Nil])

SetValue(node, path, value) ==
    LET seg == Head(path)
        next == IF Len(path) = 1 THEN value ELSE SetValue(Child(node, seg), Tail(path), value)
    IN  IF seg.isIndex THEN WithItem(node, seg.index, next) ELSE WithKid(node, seg.key, next)

(* Missing when there is nothing to remove.                                *)
RemoveValue(node, path) ==
    LET seg == Head(path)
        next == RemoveValue(Child(node, seg), Tail(path))
    IN  IF Child(node, seg) = Missing THEN Missing
        ELSE IF Len(path) > 1
        THEN IF next = Missing THEN Missing
             ELSE IF seg.isIndex THEN WithItem(node, seg.index, next)
             ELSE WithKid(node, seg.key, next)
        ELSE IF seg.isIndex
        THEN ListOf([n \in 1..Len(node.items) - 1 |->
                       node.items[IF n <= seg.index THEN n ELSE n + 1]])
        ELSE MapOf([k \in DOMAIN node.kids \ {seg.key} |-> node.kids[k]])

MergeMaps(base, over) ==
    MapOf([k \in DOMAIN base.kids \cup DOMAIN over.kids |->
             IF k \notin DOMAIN over.kids THEN base.kids[k]
             ELSE IF over.kids[k].kind = "map" /\ Kid(base, k).kind = "map"
             THEN MergeMaps(base.kids[k], over.kids[k])
             ELSE over.kids[k]])

Get(path, tree) == GetPathValue(MergeMaps(DefaultConfig, tree), path)

-----------------------------------------------------------------------------
(* Validation compares the text of the path with the names of the leaves,  *)
(* before the blanks around it are trimmed: a padded path is not checked.  *)

IsWatermark(value) == value.kind = "num" /\ value.val > 0 /\ value.val <= 100

ValidateValue(path, padded, value) ==
    \/ padded
    \/ value = Nil
    \/ path \notin LeafPaths
    \/ path = MaxPath /\ value.kind = "num" /\ value.val >= 0
    \/ path \in {HighPath, LowPath} /\ IsWatermark(value)
    \/ path = AgePath /\ value.kind = "str" /\ value.val # NotADuration

ValidateCacheConstraints(path, padded, tree) ==
    LET high == Get(HighPath, tree)
        low == Get(LowPath, tree)
        bound == IF high \in {Nil, Missing} THEN 90 ELSE high.val
    IN  \/ padded \/ path \notin {HighPath, LowPath}
        \/ /\ high \in {Nil, Missing} \/ IsWatermark(high)
           /\ low \in {Nil, Missing} \/ (IsWatermark(low) /\ low.val < bound)

(* What a capacity check makes of the tree: FALSE is the error             *)
(* cache_enforcement_unavailable that fails the job.                       *)
LoadCapacitySettings(tree) ==
    LET high == Get(HighPath, tree)
        low == Get(LowPath, tree)
        age == Get(AgePath, tree)
        max == Get(MaxPath, tree)
        Unset(value) == value \in {Nil, Missing}
        highVal == IF Unset(high) THEN 90 ELSE high.val
        lowVal == IF Unset(low) THEN 80 ELSE low.val
    IN  /\ Unset(max) \/ (max.kind = "num" /\ max.val >= 0)
        /\ Unset(high) \/ high.kind = "num"
        /\ Unset(low) \/ low.kind = "num"
        /\ Unset(age) \/ (age.kind = "str" /\ age.val # NotADuration /\ age.val >= 0)
        /\ highVal > 0 /\ highVal <= 100
        /\ lowVal > 0 /\ lowVal < highVal

-----------------------------------------------------------------------------
NotAcked == [path |-> <<>>, value |-> Missing]
NoneUnacked == [memory |-> Missing, file |-> Missing]

Init ==
    /\ overrides = MapOf(NoKids)
    /\ file = MapOf(NoKids)
    /\ changes = 0
    /\ acked = NotAcked
    /\ unacked = NoneUnacked
    /\ unchecked = FALSE

Saved(updated, ack) ==
    overrides' = updated /\ file' = updated /\ acked' = ack /\ unacked' = NoneUnacked

(* Mutant: the memory is changed before the write that may fail.           *)
Save_MemoryFirst(updated, ack) ==
    \/ Saved(updated, ack)
    \/ overrides' = updated /\ acked' = ack /\ UNCHANGED <<file, unacked>>

(* atomicWriteFile: done; failed before the rename; or failed in syncDir,  *)
(* after the rename: the request is answered with an error, the memory     *)
(* keeps what was acknowledged, and the file has the refused tree.         *)
Save(updated, ack) ==
    \/ Saved(updated, ack)
    \/ UNCHANGED <<overrides, file, acked, unacked>>
    \/ file' = updated /\ unacked' = [unacked EXCEPT !.file = updated] /\ UNCHANGED <<overrides, acked>>

(* The change escapes validation: its path is padded or not a leaf, or the *)
(* value is a negative age, which validateValue lets pass.                 *)
Escapes(path, padded, value) ==
    \/ padded
    \/ path \notin LeafPaths
    \/ path = AgePath /\ value.kind = "str" /\ value.val < 0

(* PATCH /v1/config: Manager.Set, accepted by the checks.                  *)
Set(path, padded, value) ==
    LET updated == SetValue(overrides, path, value)
    IN  /\ changes < MaxChanges
        /\ ValidateValue(path, padded, value)
        /\ updated.kind = "map"
        /\ ValidateCacheConstraints(path, padded, updated)
        /\ Save(updated, [path |-> path, value |-> value])
        /\ changes' = changes + 1
        /\ unchecked' = (unchecked \/ Escapes(path, padded, value))

(* DELETE /v1/config: Manager.Remove validates nothing.                    *)
Remove(path) ==
    LET updated == RemoveValue(overrides, path)
    IN  /\ changes < MaxChanges
        /\ updated # Missing
        /\ Save(updated, NotAcked)
        /\ changes' = changes + 1
        /\ unchecked' = TRUE

(* The engine starts again: NewManager, loadOverrides.                     *)
Restart ==
    /\ overrides # file
    /\ overrides' = file
    /\ unacked' = [unacked EXCEPT !.memory = unacked.file]
    /\ UNCHANGED <<file, changes, acked, unchecked>>

Next ==
    \/ \E path \in Paths, padded \in BOOLEAN, value \in Values : Set(path, padded, value)
    \/ \E path \in Paths : Remove(path)
    \/ Restart

Spec == Init /\ [][Next]_vars

-----------------------------------------------------------------------------
(* Trees stay trees: the root is a map in memory and on disk.              *)
TypeOK ==
    /\ overrides.kind = "map" /\ file.kind = "map"
    /\ changes \in 0..MaxChanges
    /\ unchecked \in BOOLEAN

(* A Set that was answered with success is what Get finds at that path, in *)
(* memory and in the file the next engine will load, until another change  *)
(* succeeds (Manager.Set, atomicWriteFile).  A later request that failed   *)
(* in syncDir, after the rename, weakens this: the file is then exactly    *)
(* what that request wrote, memory keeps the acknowledged value, and only  *)
(* an engine that starts on that file takes it over.                       *)
AckedReadable ==
    LET Holds(tree, refused) ==
          IF refused = Missing THEN GetPathValue(tree, acked.path) = acked.value ELSE tree = refused
    IN  acked # NotAcked => Holds(overrides, unacked.memory) /\ Holds(file, unacked.file)

(* The value a leaf has without merging: the override's where the override *)
(* reaches the leaf, the default's where the override stops at a map, none *)
(* where the override put something else than a map above the leaf.        *)
Shadowing(path) ==
    LET reached == {n \in 0..Len(path) : GetPathValue(overrides, SubSeq(path, 1, n)) # Missing}
        deepest == CHOOSE n \in reached : \A m \in reached : m <= n
        node == GetPathValue(overrides, SubSeq(path, 1, deepest))
    IN  IF deepest = Len(path) THEN node
        ELSE IF node.kind = "map" THEN GetPathValue(DefaultConfig, path) ELSE Missing

(* The effective value of every leaf is the one the layers give it, for    *)
(* every tree of overrides a sequence of requests can leave (mergeMaps).   *)
EffectiveLookup == \A path \in LeafPaths : Get(path, overrides) = Shadowing(path)

(* As long as every accepted change was one validateValue and              *)
(* validateCacheConstraintsForPath look at, the capacity check of a        *)
(* prepare job can load its settings, in whatever order the two            *)
(* watermarks were moved and whatever writes failed half way.              *)
SettingsLoad == ~unchecked => LoadCapacitySettings(overrides) /\ LoadCapacitySettings(file)
=============================================================================
