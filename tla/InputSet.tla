------------------------------ MODULE InputSet ------------------------------
(***************************************************************************)
(* The input set of a psql, pgbench or Liquibase invocation                *)
(* (internal/inputset of the command line): the entry sources named by the *)
(* arguments and every file they reach, collected depth first; the         *)
(* validation of the same arguments by `alias check` and `alias create`,   *)
(* and their conversion when the alias is executed.                        *)
(*                                                                         *)
(* A path is <<directory, name>>; the workspace is every directory but     *)
(* "out".  An argument is [flag, at], where at is a path or one of the     *)
(* values below.  An item to collect is a record:                          *)
(*   kind   file, leaf, content (of -c or stdin): field at;                *)
(*          include, data (sqlFile, loadData, loadUpdateData), all         *)
(*          (includeAll): fields rel and name; rel: from the directory of  *)
(*          the referring file (\ir, relativeToChangelogFile).             *)
(* Files do not change while the set is collected.                         *)
(***************************************************************************)
EXTENDS Naturals, Sequences, FiniteSets, Functions, SequencesExt

CONSTANTS Cases,       \* set of [tool, args, files] to collect
          BaseDir,     \* Resolver.BaseDir: the working directory
          RootDir      \* Resolver.Root

VARIABLES tool, args,
          text,        \* [path -> sequence of items], the files there are
          frames,      \* call stack of the collection: [file, todo]
          seen, order, \* tracker.seen, the collected paths
          result

vars == <<tool, args, text, frames, seen, order, result>>

NoFile == <<"", "">>                \* the current file of -c and stdin content
NoValue == <<"?", "none">>          \* the flag is the last argument
Empty == <<"?", "empty">>
Stdin == <<"?", "stdin">>           \* "-"
Sql == <<"?", "sql">>               \* the text of -c
Remote == <<"?", "remote">>         \* classpath: or ://
Special == {NoValue, Empty, Stdin, Sql, Remote}

Dir(p) == p[1]
Exists(p) == p \in DOMAIN text
Folder(d) == \E p \in DOMAIN text : Dir(p) = d

\* Resolver.ResolvePath: a path outside of the workspace is refused.
Inside(p) == p \notin Special => Dir(p) # "out"

-----------------------------------------------------------------------------
(* The arguments.                                                          *)
PathFlags == {"--changelog-file", "--defaults-file", "--searchPath"}

\* collectEntrySources and pgbench.Collect: why an argument is refused before
\* any file is read; an empty -f is skipped.
RefusedFile(a) == a.at = NoValue \/ ~Inside(a.at)
\* collectDeclared: an empty path is refused.
RefusedDeclared(a) == a.at \in {NoValue, Empty} \/ ~Inside(a.at)
Refused(a) == IF a.flag \in PathFlags THEN RefusedDeclared(a) ELSE RefusedFile(a)

\* fileSource, commandSource: -c and "-" are content, an empty value nothing.
PsqlSource(a) ==
    IF a.at = Empty THEN <<>>
    ELSE <<[kind |-> IF a.at \in {Stdin, Sql} THEN "content" ELSE "file", at |-> a.at]>>
\* pgbench.Collect: the scripts, not stdin.
PgbenchSource(a) == IF a.at \in {Empty, Stdin} THEN <<>> ELSE <<[kind |-> "leaf", at |-> a.at]>>
\* collectInputSet: changelogs are parsed, a defaults file is a leaf, a remote
\* reference is left out.
LiquibaseSource(a) ==
    IF a.at = Remote \/ a.flag = "--searchPath" THEN <<>>
    ELSE <<[kind |-> IF a.flag = "--defaults-file" THEN "leaf" ELSE "file", at |-> a.at]>>

Source(a) == CASE tool = "psql" -> PsqlSource(a)
               [] tool = "pgbench" -> PgbenchSource(a)
               [] tool = "liquibase" -> LiquibaseSource(a)
Sources == FlattenSeq([k \in DOMAIN args |-> Source(args[k])])

\* resolveSearchPathParts
SearchPaths ==
    LET given == SelectSeq(args, LAMBDA a : a.flag = "--searchPath" /\ a.at # Remote)
    IN [k \in DOMAIN given |-> Dir(given[k].at)]

Files == {k \in DOMAIN args : args[k].flag = "-f"}

\* validateLocalFileArg: what alias check finds wrong with a script.
ValidateLocalFileArg(a) ==
    a.at = Empty \/ ~Inside(a.at) \/ (a.at \notin Special /\ ~Exists(a.at))
\* validateLocalArg, validateSearchPath: the directory of a search path.
ValidateLocalArg(a) ==
    \/ a.at = Empty \/ ~Inside(a.at)
    \/ a.at \notin Special /\ ~(IF a.flag = "--searchPath" THEN Folder(Dir(a.at)) ELSE Exists(a.at))

\* ValidateArgs of psql (which does not look at -c), pgbench and Liquibase.
ValidatePsqlArgs ==
    \E k \in Files : args[k].at = NoValue \/ ValidateLocalFileArg(args[k])
ValidatePgbenchArgs ==
    \/ \E k \in Files : args[k].at = NoValue \/ ValidateLocalFileArg(args[k])
    \/ Cardinality({k \in Files : args[k].at # NoValue}) > 1
ValidateLiquibaseArgs ==
    \E k \in DOMAIN args : args[k].at = NoValue \/ ValidateLocalArg(args[k])
ValidateArgs == CASE tool = "psql" -> ValidatePsqlArgs
                  [] tool = "pgbench" -> ValidatePgbenchArgs
                  [] tool = "liquibase" -> ValidateLiquibaseArgs

\* What executing the alias refuses: psql.NormalizeArgs (prepare) and
\* BuildRunSteps (run, which reads the scripts and has one stdin).
NormalizePsqlRefuses ==
    \E k \in Files : args[k].at \in {NoValue, Empty} \/ ~Inside(args[k].at)
BuildRunStepsRefuses ==
    \/ NormalizePsqlRefuses
    \/ \E k \in DOMAIN args : args[k].flag = "-c" /\ args[k].at = NoValue
    \/ \E k \in Files : args[k].at \notin Special /\ ~Exists(args[k].at)
    \/ Cardinality({k \in Files : args[k].at = Stdin}) > 1
\* rewriteFileValue and pgbench.MaterializeArgs: one script, stdin included.
MaterializeRefuses ==
    \/ NormalizePsqlRefuses
    \/ Cardinality(Files) > 1
    \/ \E k \in Files : args[k].at \notin Special /\ ~Exists(args[k].at)
\* rewriteValue, rewriteSearchPath in liquibase.NormalizeArgs.
NormalizeLiquibaseRefuses ==
    \E k \in DOMAIN args : args[k].at \in {NoValue, Empty} \/ ~Inside(args[k].at)
ExecutionRefuses == CASE tool = "psql" -> NormalizePsqlRefuses \/ BuildRunStepsRefuses
                      [] tool = "pgbench" -> MaterializeRefuses
                      [] tool = "liquibase" -> NormalizeLiquibaseRefuses

-----------------------------------------------------------------------------
(* Resolution of one reference from file `cur`.                            *)
\* psql: \i from the base directory, \ir from the including file.
ResolveInclude(r, cur) == <<IF r.rel /\ cur # NoFile THEN Dir(cur) ELSE BaseDir, r.name>>

\* Liquibase: relative to the changelog, else the first search path that has
\* the file (or the directory), else the root.
ResolveIncludePath(r, cur) ==
    LET has(d) == IF r.kind = "all" THEN Folder(d) ELSE Exists(<<d, r.name>>)
        there == {k \in DOMAIN SearchPaths : has(SearchPaths[k])}
    IN IF r.rel THEN <<Dir(cur), r.name>>
       ELSE IF there # {} THEN <<SearchPaths[CHOOSE k \in there : \A m \in there : k <= m], r.name>>
       ELSE <<RootDir, r.name>>

Resolve(r, cur) == IF tool = "psql" THEN ResolveInclude(r, cur) ELSE ResolveIncludePath(r, cur)

\* collectIncludeAll: the changelogs of the directory, by name.
IncludeAll(r, cur) ==
    LET names == {p \in DOMAIN text : Dir(p) = Dir(ResolveIncludePath(r, cur))}
    IN SetToSortSeq(names, LAMBDA p, q : p[2] = "a" /\ q[2] # "a")

\* parseChangelogRefs: the includes of a changelog, then its includeAlls,
\* then the files its change sets name; psql goes line by line.
Parse(p) ==
    LET of(K) == SelectSeq(text[p], LAMBDA r : r.kind = K)
    IN IF tool = "psql" THEN text[p] ELSE of("include") \o of("all") \o of("data")

-----------------------------------------------------------------------------
Init ==
    /\ \E c \in Cases : tool = c.tool /\ args = c.args /\ text = c.files
    /\ frames = <<>> /\ seen = {} /\ order = <<>>
    /\ result = "arguments"

\* Collect / CollectInvocationInputs up to the first file.
Start ==
    /\ result = "arguments"
    /\ IF \E k \in DOMAIN args : Refused(args[k])
       THEN result' = "usage" /\ UNCHANGED frames
       ELSE result' = "collecting" /\ frames' = <<[file |-> NoFile, todo |-> Sources]>>
    /\ UNCHANGED <<tool, args, text, seen, order>>

Top == frames[Len(frames)]
Below == SubSeq(frames, 1, Len(frames) - 1)
Stack == {frames[k].file : k \in 2..Len(frames)}
Rest == Append(Below, [Top EXCEPT !.todo = Tail(@)])

Fail == result' = "error" /\ UNCHANGED <<frames, seen, order>>
Skip == frames' = Rest /\ UNCHANGED <<seen, order, result>>
Add(p, below) == seen' = seen \cup {p} /\ order' = Append(order, p) /\ frames' = below /\ UNCHANGED result

\* tracker.addLeaf
AddLeaf_Again(p) == IF ~Exists(p) THEN Fail ELSE Add(p, Rest)    \* mutant: tracker.seen is not looked at
AddLeaf(p) ==
    IF p \in seen THEN Skip
    ELSE IF ~Exists(p) THEN Fail
    ELSE Add(p, Rest)

\* tracker.collect: psql refuses a file that includes itself, a file
\* collected before is skipped, a missing one is an error.
Cyclic(p) == tool = "psql" /\ p \in Stack

Collect_NoFollow(p) == AddLeaf(p)    \* mutant: the file is listed and not parsed
Collect(p) ==
    IF Cyclic(p) THEN Fail
    ELSE IF p \in seen THEN Skip
    ELSE IF ~Exists(p) THEN Fail
    ELSE Add(p, Append(Rest, [file |-> p, todo |-> Parse(p)]))

\* One item of the innermost file.  Content is read in place, an includeAll
\* becomes the files of the directory; without one it is an error.
Step ==
    /\ result = "collecting" /\ frames # <<>> /\ Top.todo # <<>>
    /\ LET r == Head(Top.todo) IN
       CASE r.kind = "file" -> Collect(r.at)
         [] r.kind = "leaf" -> AddLeaf(r.at)
         [] r.kind = "include" -> Collect(Resolve(r, Top.file))
         [] r.kind = "data" -> AddLeaf(Resolve(r, Top.file))
         [] r.kind = "content" ->
              frames' = Append(Below, [Top EXCEPT !.todo = text[r.at] \o Tail(@)])
              /\ UNCHANGED <<seen, order, result>>
         [] r.kind = "all" ->
              LET all == IncludeAll(r, Top.file)
                  items == [k \in DOMAIN all |-> [kind |-> "file", at |-> all[k]]]
              IN IF all = <<>> THEN Fail
                 ELSE frames' = Append(Below, [Top EXCEPT !.todo = items \o Tail(@)])
                      /\ UNCHANGED <<seen, order, result>>
    /\ UNCHANGED <<tool, args, text>>

Return ==
    /\ result = "collecting" /\ frames # <<>> /\ Top.todo = <<>>
    /\ frames' = Below
    /\ UNCHANGED <<tool, args, text, seen, order, result>>

\* buildInputSet
BuildInputSet ==
    /\ result = "collecting" /\ frames = <<>>
    /\ result' = "ok"
    /\ UNCHANGED <<tool, args, text, frames, seen, order>>

Next == Start \/ Step \/ Return \/ BuildInputSet

Spec == Init /\ [][Next]_vars

-----------------------------------------------------------------------------
(* Reference: what the tool itself would read, as a least fixed point.     *)
Target(r, cur) ==
    CASE r.kind \in {"file", "leaf"} -> {r.at}
      [] r.kind = "content" -> {Resolve(i, cur) : i \in ToSet(text[r.at])}
      [] r.kind = "all" -> ToSet(IncludeAll(r, cur))
      [] OTHER -> {Resolve(r, cur)}
Targets(items, cur) == UNION {Target(r, cur) : r \in ToSet(items)}
\* Files whose own references count: not those only named as data files.
Followed(items, cur) == Targets(SelectSeq(items, LAMBDA r : r.kind \notin {"leaf", "data"}), cur)

Refs(p) == IF Exists(p) THEN text[p] ELSE <<>>
Closure(S) ==
    LET n == Cardinality(DOMAIN text) + 1
        R[k \in 0..n] == IF k = 0 THEN S
                         ELSE R[k - 1] \cup UNION {Followed(Refs(p), p) : p \in R[k - 1]}
    IN R[n]
Reached == Closure(Followed(Sources, NoFile))
Reads == Targets(Sources, NoFile) \cup Reached \cup UNION {Targets(Refs(p), p) : p \in Reached}
OnCycle(p) == p \in Closure(Followed(Refs(p), p))

\* A file that is both parsed and named as data: it is skipped as a changelog
\* once it was seen as a leaf.
BothWays ==
    \E p \in Reached :
        \/ \E r \in ToSet(Sources) : r.kind = "leaf" /\ r.at = p
        \/ \E q \in Reached : \E r \in ToSet(Refs(q)) : r.kind = "data" /\ Resolve(r, q) = p

\* Types of the variables.
TypeOK ==
    /\ tool \in {"psql", "pgbench", "liquibase"}
    /\ result \in {"arguments", "usage", "collecting", "ok", "error"}
    /\ ToSet(order) = seen /\ IsInjective(order)
    /\ frames # <<>> => frames[1].file = NoFile

\* The set reported by collectResolvedSources and collectInputSet is exactly
\* what the tool reads, for any include graph with diamonds, mixed \i and \ir,
\* includeAll and search paths (no changelog being also named as a data file).
ClosureExact == result = "ok" /\ ~BothWays => ToSet(order) = Reads

\* tracker.collect refuses a set exactly when a file or a directory is missing
\* or, for psql, an include cycle is reached: a diamond is not refused, and
\* neither are Liquibase changelogs that include each other.
Broken ==
    \/ \E p \in Reads : ~Exists(p)
    \/ \E p \in Reached : \E r \in ToSet(Refs(p)) : r.kind = "all" /\ IncludeAll(r, p) = <<>>
    \/ tool = "psql" /\ \E p \in Reached : OnCycle(p)
RefusesBroken == result \in {"ok", "error"} /\ ~BothWays => (result = "error" <=> Broken)

\* An alias whose arguments ValidateArgs accepts is not refused for them when
\* it is collected or executed (a -c without a value and a second stdin file
\* of psql are the exceptions: nothing validates them).
CheckedArgsUsable ==
    LET excepted == \/ \E k \in DOMAIN args : args[k].flag = "-c" /\ args[k].at = NoValue
                    \/ tool = "psql" /\ Cardinality({k \in Files : args[k].at = Stdin}) > 1
    IN ~ValidateArgs /\ ~excepted => result # "usage" /\ ~ExecutionRefuses
=============================================================================
