------------------------------ MODULE MCJobsLive ------------------------------
(***************************************************************************)
(* PrepareJobs with fairness, from two starting points in one run: jobs a  *)
(* and b, one of them plan_only, that run and are retained at the same     *)
(* time on an engine whose requests and refused events lie in the past;    *)
(* and job a alone, after job b was deleted, where a cancel and a delete   *)
(* request, a refused event and a crash may all hit it.                    *)
(***************************************************************************)
EXTENDS MCPrepareJobs

\* The pair starts with the requests used up, and one cancel more as a mark.
PairInit == Empty /\ lost = MaxLost
            /\ used = [jobs |-> {}, cancels |-> MaxCancels + 1, deletes |-> MaxDeletes]
LoneInit == Empty /\ lost = 0 /\ used = [jobs |-> {b}, cancels |-> 0, deletes |-> 0]
Paired == used.cancels > MaxCancels

LiveSpec == (PairInit \/ LoneInit) /\ [][Next]_vars /\ Fairness

-----------------------------------------------------------------------------
\* A submitted job ends: through cancellation, deletion, a refused event, a crash and
\* recovery, beside another job and its retention, it reaches a terminal status or is
\* deleted, unless it polls for ever for a lock file that a dead engine has left and
\* nobody cancels it (execution.go:1301-1317).
EventuallyEnds == Open(a) ~> (~Open(a) \/ []MayWait(a))

\* Without cancel and delete requests the rows that runJob, Recover and retention write
\* implement the abstract life cycle, whatever the interleaving and wherever the engine
\* dies: status moves forward only, a terminal status is final, a deleted job stays deleted.
PairLifecycle == INSTANCE JobLifecycle WITH
  status <- IF Paired THEN JobStatus ELSE [j \in Jobs |-> "new"]
ImplementsLifecycle == PairLifecycle!Spec
=============================================================================
