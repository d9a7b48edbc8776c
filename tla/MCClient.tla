------------------------------- MODULE MCClient -------------------------------
(***************************************************************************)
(* Safety of the parts of the command line (CommandLine, extended), and of *)
(* what the engine derives from the files a command names, in one run: to  *)
(* the parts of CommandLine come the identities of states (PrepareContent) *)
(* and the collection of input files (InputSet).  They share no state, so  *)
(* a behaviour is one of them.                                             *)
(***************************************************************************)
EXTENDS CommandLine, TLC

CONSTANTS c1, c2    \* two commands at a time, four in all, with tokens that expire

\* The workspace of SourceSync: a script that lists a directory and, in its second
\* version, includes a file of it.
MCContentOf == [f \in SourceFiles |-> IF f = "a" THEN <<"list", "incl">> ELSE <<"leaf", "leaf2">>]
MCIncludes == [c \in {"list", "incl", "leaf", "leaf2"} |-> IF c = "incl" THEN {"b"} ELSE {}]

-----------------------------------------------------------------------------
\* Two psql jobs over the same script, one with a command after it, and a Liquibase job.
\* Script a includes b, b includes c; the user edits c or the changelog l, whatever is
\* locked, as on Unix.
File(n) == <<"d", n>>
Line(inc, n) == [inc |-> inc, name |-> n]
Token(flag, n) == [flag |-> flag, file |-> n]
Content == INSTANCE PrepareContent WITH
  Jobs <- {"j1", "j2", "j3"},
  Args <- [j1 |-> <<Token("f", File("a")), Token("c", <<"none", "none">>)>>,
           j2 |-> <<Token("f", File("a"))>>, j3 |-> <<Token("lb", File("l"))>>],
  Files <- {File(n) : n \in {"a", "b", "c", "l"}},
  Lines <- (File("a") :> <<Line("no", "text"), Line("i", "b")>>)
           @@ (File("b") :> <<Line("ir", "c"), Line("no", "text")>>)
           @@ (File("c") :> <<Line("no", "text")>>)
           @@ (File("l") :> <<Line("no", "text"), Line("no", "text")>>),
  Editable <- {File("c"), File("l")}, LocksBind <- FALSE, MaxEdits <- 1, MaxFaults <- 1,
  version <- r1, db <- r2, pc <- r3, sig <- r4, tasks <- r5, done <- r6, planning <- r7,
  held <- r8, rt <- r9, out <- r10, drift <- r11, count <- r12

-----------------------------------------------------------------------------
\* Include graphs over three files in two directories, and argument lists of up to two
\* arguments with every kind of value.
Inc(rel, n) == [kind |-> "include", rel |-> rel, name |-> n]
PsqlRefs == [kind : {"include"}, rel : BOOLEAN, name : {"a", "b"}]
LiquibaseRefs == PsqlRefs \cup [kind : {"all"}, rel : BOOLEAN, name : {"*"}]
                          \cup [kind : {"data"}, rel : BOOLEAN, name : {"b"}]
DeepRefs == {r \in LiquibaseRefs : r.kind = "data" \/ r.rel}
UpTo(n, S) == UNION {[1..k -> S] : k \in 0..n}
Special(kind) == <<"?", kind>>
RA == <<"r", "a">>
SA == <<"s", "a">>
SB == <<"s", "b">>
Arg(flag, p) == [flag |-> flag, at |-> p]
Graph(x, y, z) == (RA :> x) @@ (SA :> y) @@ (SB :> z)
                  @@ (Special("sql") :> <<Inc(FALSE, "a")>>) @@ (Special("stdin") :> <<Inc(TRUE, "b")>>)
PsqlArgs == {<<Arg("-f", RA)>>, <<Arg("-f", SA), Arg("-c", Special("sql"))>>,
             <<Arg("-f", Special("stdin")), Arg("-f", SB)>>}
LiquibaseArgs == {<<Arg("--changelog-file", RA), Arg("--searchPath", <<"s", "*">>)>>,
                  <<Arg("--defaults-file", SB), Arg("--changelog-file", SA)>>}
ArgLists(flags, more) ==
  UpTo(2, [flag : flags, at : {RA, <<"r", "b">>, <<"out", "a">>, Special("none"), Special("empty")} \cup more])
Case(t, g, f) == [tool |-> t, args |-> g, files |-> f]
NoRefs == Graph(<<>>, <<>>, <<>>)
AllCases ==
  {Case("psql", g, Graph(x, y, z)) :
     g \in PsqlArgs, x \in UpTo(1, PsqlRefs), y \in UpTo(2, PsqlRefs), z \in UpTo(1, PsqlRefs)}
  \cup {Case("liquibase", g, Graph(x, y, z)) :
     g \in LiquibaseArgs, x \in UpTo(2, LiquibaseRefs), y \in UpTo(1, DeepRefs), z \in UpTo(1, DeepRefs)}
  \cup {Case(t, g, NoRefs) : t \in {"psql", "pgbench"}, g \in ArgLists({"-f"}, {Special("stdin")})}
  \cup {Case("psql", <<Arg("-f", RA), Arg("-c", Special(v))>>, NoRefs) : v \in {"none", "empty", "sql"}}
  \cup {Case("liquibase", g, NoRefs) :
     g \in ArgLists({"--changelog-file", "--defaults-file", "--searchPath"}, {Special("remote")})}

Inputs == INSTANCE InputSet WITH
  Cases <- AllCases, BaseDir <- "r", RootDir <- "r",
  tool <- r1, args <- r2, text <- r3, frames <- r4, seen <- r5, order <- r6, result <- r7

-----------------------------------------------------------------------------
\* The two commands of EngineProcess and of AuthSession are interchangeable.
Symmetry == Permutations({c1, c2})

InContent == part = "content"
InDaemon  == part = "daemon"
InInputs  == part = "inputs"

\* The variables a part leaves alone.
over17 == <<part, vars, r18>>
over15 == <<r16, r17, over17>>
over14 == <<r15, over15>>
over12 == <<r13, r14, over14>>
over7  == <<r8, r9, r10, r11, r12, over12>>
Unused15 == r16 = 0 /\ r17 = 0 /\ r18 = 0
Unused14 == r15 = 0 /\ Unused15
Unused12 == r13 = 0 /\ r14 = 0 /\ Unused14
Unused7  == r8 = 0 /\ r9 = 0 /\ r10 = 0 /\ r11 = 0 /\ r12 = 0 /\ Unused12

ClientInit ==
  /\ Init
  /\ \/ /\ InDaemon /\ r1 = 0 /\ r2 = 0 /\ r3 = 0 /\ r4 = 0 /\ r5 = 0 /\ r6 = 0 /\ r7 = 0
        /\ Unused7
     \/ InContent /\ Content!Init /\ Unused12
     \/ InAuth /\ Auth!Init /\ Unused15
     \/ InSync /\ Sync!Init /\ Unused14
     \/ InStage /\ Stage!Init /\ Unused14
     \/ InLocal /\ Local!Init /\ r18 = 0
     \/ InWSL /\ WSL!Init
     \/ InInputs /\ Inputs!Init /\ Unused7

DaemonStep  == InDaemon /\ Next /\ UNCHANGED <<part, regs>>
ContentStep == InContent /\ Content!Next /\ UNCHANGED over12
AuthStep    == InAuth /\ Auth!Next /\ UNCHANGED over15
SyncStep    == InSync /\ Sync!Next /\ UNCHANGED over14
StageStep   == InStage /\ Stage!Next /\ UNCHANGED over14
LocalStep   == InLocal /\ Local!Next /\ UNCHANGED over17
WSLStep     == InWSL /\ WSL!Next /\ UNCHANGED <<part, vars>>
InputsStep  == InInputs /\ Inputs!Next /\ UNCHANGED over7

ClientNext ==
  \/ ContentStep \/ DaemonStep \/ AuthStep \/ SyncStep \/ StageStep \/ LocalStep
  \/ WSLStep \/ InputsStep

ClientSpec == ClientInit /\ [][ClientNext]_all

\* StateFaithful says nothing once a file has changed under a job that does not notice.
NoDrift == InContent => r11 = {}

-----------------------------------------------------------------------------
\* Every variable of the part under way has its type.
TypesOK ==
  /\ TypeOK
  /\ InContent => Content!TypeOK
  /\ InAuth => Auth!TypeOK
  /\ InSync => Sync!TypeOK
  /\ InStage => Stage!TypeOK
  /\ InLocal => Local!TypeOK
  /\ InWSL => WSL!TypeOK
  /\ InInputs => Inputs!TypeOK

\* Every cached state holds what its id says, whoever else built a prefix, after any crash,
\* and whatever was edited, except under the plan of a job with several steps or of a
\* Liquibase job, and except a file between the digest and the execution of a step: the
\* content lock on it is advisory on Unix (content_lock_unix.go).
StateFaithful == InContent => Content!StateFaithful

\* The collected input set is what the tool reads; it is refused exactly when a file is
\* missing or psql would include in a circle; and an alias whose arguments pass validation
\* is not refused for them later.
InputsSound ==
  InInputs => Inputs!ClosureExact /\ Inputs!RefusesBroken /\ Inputs!CheckedArgsUsable
=============================================================================
