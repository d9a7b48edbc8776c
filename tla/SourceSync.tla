----------------------------- MODULE SourceSync -----------------------------
(***************************************************************************)
(* Sending the local files a remote prepare job needs                      *)
(* (src/frontend/cli-go/internal/remotesource/sync.go).  The server knows   *)
(* which files a request reads; each refused request names manifest        *)
(* entries (file hashes, directory listings) and blobs it lacks.  The      *)
(* client reads them, adds them to the manifest, uploads the blobs and     *)
(* sends the request again.  The user may edit files while that goes on,   *)
(* and the server may drop blobs it held.                                  *)
(***************************************************************************)
EXTENDS Integers, FiniteSets

CONSTANTS
    Files,       \* the files of the workspace
    DirFiles,    \* the files of the one directory scripts may list
    Root,        \* the file the request names
    Versions,    \* the versions an edit chooses from
    ContentOf,   \* ContentOf[f][v]: what version v of file f holds
    Includes,    \* Includes[c]: the files a script of content c reads
    Lists,       \* contents of scripts that list the directory
    MaxRounds,   \* sourceSync.maxRounds
    MaxEdits, MaxLosses, MaxFaults   \* bounds on what goes wrong

VARIABLES
    ver,         \* the version of each file, 0 when it does not exist
    files, dirs, uploaded,   \* roundState: hashes, listings, digests sent
    changed,     \* applyMissing made a change in this round
    round, pc, why,          \* Execute: the round, its step, how it ended
    ask,         \* what the last answer asked for and is still to be applied
    sent,        \* the manifest of the request under way
    blobs,       \* blobs on the server: digest -> content
    edits, losses, faults

vars == <<ver, files, dirs, uploaded, changed, round, pc, why, ask, sent, blobs,
          edits, losses, faults>>

None     == "none"
Contents == UNION {{ContentOf[f][v] : v \in Versions} : f \in Files}
NoAsk    == [entries |-> {}, dir |-> FALSE, blobs |-> {}]

\* The content of a file now; its hash is taken to be the content itself.
Content(f) == IF ver[f] = 0 THEN None ELSE ContentOf[f][ver[f]]
Listing    == {f \in DirFiles : ver[f] # 0}

\* The manifest has files' hashes and, when asked for, the directory's listing.
Manifest == [files |-> files, dirs |-> dirs]

\* Files, the manifest, the rounds and the server.
TypeOK ==
    /\ ver \in [Files -> Versions \cup {0}]
    /\ files \in [Files -> Contents \cup {None}]
    /\ dirs \in SUBSET SUBSET DirFiles /\ uploaded \in SUBSET Contents
    /\ changed \in BOOLEAN /\ round \in 1..(MaxRounds + 2)
    /\ pc \in {"send", "answer", "apply", "done", "failed"}
    /\ why \in {None, "request", "rounds", "progress", "read", "changed", "upload"}
    /\ ask \in [entries : SUBSET Files, dir : BOOLEAN, blobs : SUBSET (Files \X Contents)]
    /\ sent \in [files : [Files -> Contents \cup {None}], dirs : SUBSET SUBSET DirFiles]
    /\ blobs \in [Contents -> Contents \cup {None}]
    /\ edits \in 0..MaxEdits /\ losses \in 0..MaxLosses /\ faults \in 0..MaxFaults

Init ==
    /\ ver = [f \in Files |-> 1]
    /\ files = [f \in Files |-> None] /\ dirs = {} /\ uploaded = {}
    /\ changed = FALSE /\ round = 1 /\ pc = "send" /\ why = None
    /\ ask = NoAsk /\ sent = [files |-> [f \in Files |-> None], dirs |-> {}]
    /\ blobs = [c \in Contents |-> None]
    /\ edits = 0 /\ losses = 0 /\ faults = 0

-----------------------------------------------------------------------------
\* The request goes out with the manifest gathered so far.
Send ==
    /\ pc = "send" /\ pc' = "answer" /\ sent' = Manifest
    /\ UNCHANGED <<ver, files, dirs, uploaded, changed, round, why, ask, blobs, edits,
                   losses, faults>>

\* The files the server can tell it needs: the root, and what the scripts read
\* whose blobs it holds, a listed directory's files included.
Readable(fs) == {f \in fs : sent.files[f] # None /\ blobs[sent.files[f]] # None}
ListsDir(fs) == \E f \in Readable(fs) : blobs[sent.files[f]] \in Lists
Reads(fs) ==
    fs \cup (UNION {Includes[blobs[sent.files[f]]] : f \in Readable(fs)})
       \cup (IF ListsDir(fs) THEN UNION sent.dirs ELSE {})
Needed == Reads(Reads(Reads({Root})))

\* The server (external): it accepts a request that lacks nothing, and refuses
\* any other with the entries and blobs it could name.
Lacks ==
    [entries |-> {f \in Needed : sent.files[f] = None},
     dir     |-> ListsDir(Needed) /\ sent.dirs = {},
     blobs   |-> {<<f, sent.files[f]>> : f \in {g \in Needed :
                       sent.files[g] # None /\ blobs[sent.files[g]] = None}}]

\* The job is accepted, or the answer is the last one, or it is applied.
Answered ==
    \/ Lacks = NoAsk /\ pc' = "done" /\ UNCHANGED <<ask, why, changed>>
    \/ /\ Lacks # NoAsk /\ round > MaxRounds
       /\ pc' = "failed" /\ why' = "rounds" /\ UNCHANGED <<ask, changed>>
    \/ /\ Lacks # NoAsk /\ round <= MaxRounds
       /\ pc' = "apply" /\ ask' = Lacks /\ changed' = FALSE /\ UNCHANGED why

\* Execute reads the answer; an error that names no missing inputs ends it.  The
\* bound on the rounds is looked at only after a refusal, so MaxRounds + 1
\* requests go out.
Answer ==
    /\ pc = "answer"
    /\ \/ /\ faults < MaxFaults /\ faults' = faults + 1
          /\ pc' = "failed" /\ why' = "request" /\ UNCHANGED <<ask, changed>>
       \/ UNCHANGED faults /\ Answered
    /\ UNCHANGED <<ver, files, dirs, uploaded, round, sent, blobs, edits, losses>>

\* The sync ends with an error.
Stop(w) ==
    /\ pc' = "failed" /\ why' = w
    /\ UNCHANGED <<files, dirs, uploaded, changed, ask, blobs>>

\* addFileHash: a hash is added once; a file whose hash differs from the one
\* the manifest already has ends the sync.
AddFileHash(f) ==
    /\ pc = "apply" /\ f \in ask.entries
    /\ CASE Content(f) = None -> Stop("read")
         [] Content(f) # None /\ files[f] \notin {None, Content(f)} -> Stop("changed")
         [] OTHER ->
              /\ changed' = (changed \/ files[f] = None)
              /\ files' = [files EXCEPT ![f] = Content(f)]
              /\ ask' = [ask EXCEPT !.entries = @ \ {f}]
              /\ UNCHANGED <<pc, why, dirs, uploaded, blobs>>
    /\ UNCHANGED <<ver, round, sent, edits, losses, faults>>

\* addDirectoryListing, likewise.
AddDirectoryListing ==
    /\ pc = "apply" /\ ask.dir
    /\ IF dirs \notin {{}, {Listing}}
       THEN Stop("changed")
       ELSE /\ changed' = (changed \/ dirs = {})
            /\ dirs' = {Listing} /\ ask' = [ask EXCEPT !.dir = FALSE]
            /\ UNCHANGED <<pc, why, files, uploaded, blobs>>
    /\ UNCHANGED <<ver, round, sent, edits, losses, faults>>

\* Mutant: the file is read for the upload and not compared again.
StillAsked_Unchecked(f, h) == Content(f) # None

\* The file read for the upload has the hash the server asked for and the hash
\* the manifest has.
StillAsked(f, h) == Content(f) = h /\ files[f] \in {None, h}

\* A new manifest entry or an upload is progress.
Progress(f, h) == files[f] = None \/ h \notin uploaded

\* uploadBlob, after the manifest entries are done: the file is read again and
\* must have the hash asked for; a digest sent before is not sent again.
UploadBlob(f, h) ==
    /\ pc = "apply" /\ ask.entries = {} /\ ~ ask.dir /\ <<f, h>> \in ask.blobs
    /\ \/ /\ Content(f) = None /\ Stop("read") /\ UNCHANGED faults
       \/ /\ Content(f) # None /\ ~ StillAsked(f, h) /\ Stop("changed")
          /\ UNCHANGED faults
       \/ /\ StillAsked(f, h) /\ h \notin uploaded /\ faults < MaxFaults
          /\ faults' = faults + 1 /\ Stop("upload")
       \/ /\ StillAsked(f, h)
          /\ files' = [files EXCEPT ![f] = Content(f)]
          /\ changed' = (changed \/ Progress(f, h))
          /\ blobs' = IF h \in uploaded THEN blobs ELSE [blobs EXCEPT ![h] = Content(f)]
          /\ uploaded' = uploaded \cup {h}
          /\ ask' = [ask EXCEPT !.blobs = @ \ {<<f, h>>}]
          /\ UNCHANGED <<pc, why, dirs, faults>>
    /\ UNCHANGED <<ver, round, sent, edits, losses>>

\* Everything asked for is applied: the next round, unless nothing changed.
NextRound ==
    /\ pc = "apply" /\ ask = NoAsk
    /\ IF changed THEN pc' = "send" /\ round' = round + 1 /\ UNCHANGED why
                  ELSE pc' = "failed" /\ why' = "progress" /\ UNCHANGED round
    /\ UNCHANGED <<ver, files, dirs, uploaded, changed, ask, sent, blobs, edits, losses,
                   faults>>

\* The user edits or removes a file while the sync runs.
Edit(f, v) ==
    /\ pc \notin {"done", "failed"} /\ edits < MaxEdits /\ v # ver[f]
    /\ ver' = [ver EXCEPT ![f] = v] /\ edits' = edits + 1
    /\ UNCHANGED <<files, dirs, uploaded, changed, round, pc, why, ask, sent, blobs,
                   losses, faults>>

\* The server drops a blob, as a cache may.
Lose(h) ==
    /\ pc \notin {"done", "failed"} /\ losses < MaxLosses /\ blobs[h] # None
    /\ blobs' = [blobs EXCEPT ![h] = None] /\ losses' = losses + 1
    /\ UNCHANGED <<ver, files, dirs, uploaded, changed, round, pc, why, ask, sent, edits,
                   faults>>

Next ==
    \/ Send \/ Answer \/ AddDirectoryListing \/ NextRound
    \/ \E f \in Files :
          \/ AddFileHash(f)
          \/ \E h \in Contents : UploadBlob(f, h)
          \/ \E v \in Versions \cup {0} : Edit(f, v)
    \/ \E h \in Contents : Lose(h)

Spec == Init /\ [][Next]_vars

-----------------------------------------------------------------------------
\* A job the server accepted runs on exactly the files of the manifest: every
\* file it reads has a hash there, and the blob stored under that hash has that
\* content, whatever was edited between the hashing, the upload and the retry.
AcceptedFaithful ==
    pc = "done" =>
        \A f \in Needed : sent.files[f] # None /\ blobs[sent.files[f]] = sent.files[f]

\* When nobody edits a file, the server keeps its blobs and the uploads succeed,
\* the sync can only fail for its bound on rounds: each answer is progress.
OnlyRoundsFail ==
    pc = "failed" /\ edits = 0 /\ losses = 0 /\ faults = 0 => why = "rounds"

\* What keeps AcceptedFaithful: only a content is stored under its hash, and the
\* server accepted a request that lacked nothing.
BlobsFaithful ==
    /\ \A h \in Contents : blobs[h] \in {None, h}
    /\ pc = "done" => Lacks = NoAsk

\* What keeps OnlyRoundsFail: as long as nothing goes wrong the files are as they
\* were, the manifest says so, what was uploaded is on the server, the answer asks
\* for nothing the manifest has otherwise, and until a first change in a round it
\* asks for what the request lacked.
Undisturbed ==
    /\ ver = [f \in Files |-> 1] /\ dirs \in {{}, {Listing}}
    /\ \A f \in Files : files[f] \in {None, Content(f)} /\ sent.files[f] \in {None, files[f]}
    /\ \A h \in uploaded : blobs[h] # None
    /\ pc = "answer" => sent = Manifest
    /\ pc = "apply" => \A b \in ask.blobs : files[b[1]] = b[2] /\ b[2] # None
    /\ pc = "apply" /\ ~ changed => sent = Manifest /\ ask = Lacks /\ Lacks # NoAsk

IInv ==
    /\ TypeOK /\ BlobsFaithful
    /\ pc = "apply" => round <= MaxRounds
    /\ edits = 0 /\ losses = 0 /\ faults = 0 => Undisturbed /\ OnlyRoundsFail
=============================================================================
