---------------------------- MODULE JobLifecycle -----------------------------
(***************************************************************************)
(* What a client of the prepare API may assume about the status of a job,  *)
(* whatever goes on inside the engine: a job is submitted once, its status *)
(* only moves forward, and a terminal status is final until the job is     *)
(* deleted.                                                                *)
(***************************************************************************)
CONSTANT Jobs

VARIABLE status   \* "new", "queued", "running", "succeeded", "failed", "deleted"

Open == {"queued", "running"}

Move(j, from, to) == /\ status[j] \in from
                     /\ \E s \in to : status' = [status EXCEPT ![j] = s]

Submit(j) == Move(j, {"new"}, {"queued"})
Start(j)  == Move(j, {"queued"}, {"running"})
Fail(j)   == Move(j, Open, {"failed"})
Finish(j) == Move(j, {"running"}, {"succeeded"})
Delete(j) == Move(j, Open \cup {"succeeded", "failed"}, {"deleted"})
End(j)    == Fail(j) \/ Finish(j)

Init == status = [j \in Jobs |-> "new"]
Next == \E j \in Jobs : Submit(j) \/ Start(j) \/ End(j) \/ Delete(j)
Spec == Init /\ [][Next]_status
=============================================================================
