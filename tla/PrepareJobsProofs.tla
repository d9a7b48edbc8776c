-------------------------- MODULE PrepareJobsProofs --------------------------
(***************************************************************************)
(* The theorems of PrepareJobs, for any set of jobs, any signatures, any   *)
(* retention limit and any number of crashes, cancel and delete requests:  *)
(* types, refinement of JobLifecycle and what a job may never undo; then   *)
(* that a succeeded job keeps its usable instance, the running engine      *)
(* loses no container that it could stop, and a plan_only job creates no   *)
(* instance; last that concurrent retention passes leave no more jobs than *)
(* they should.                                                            *)
(***************************************************************************)
EXTENDS PrepareJobs, FiniteSetTheorems, WellFoundedInduction, TLAPS

-----------------------------------------------------------------------------
(* Types.                                                                  *)

\* Writing one task's status keeps the type of the task table, whatever task
\* is written.
LEMMA SetTaskType ==
  ASSUME TypeDb, NEW j \in Jobs, NEW t, NEW s \in TaskStatus, SetTask(j, t, s)
  PROVE  task' \in [Jobs -> [TaskIds -> TaskStatus]]
<1>1. [task[j] EXCEPT ![t] = s] \in [TaskIds -> TaskStatus]
  BY DEF TypeDb
<1>2. task' = [task EXCEPT ![j] = [task[j] EXCEPT ![t] = s]]
  BY DEF SetTask, TypeDb
<1> QED
  BY <1>1, <1>2 DEF TypeDb

\* Retention lists jobs only.
LEMMA TrimListType ==
  ASSUME TypeTrim, NEW x \in Actors, NEW j \in Jobs, TrimList(x, j)
  PROVE  TypeTrim'
<1>1. Excess(j) \in SUBSET Jobs
  BY DEF Excess, Completed
<1> QED
  BY <1>1 DEF TrimList, TypeTrim

\* The initial state is well typed.
LEMMA TypeInit == Init => TypeOK
  BY JobsAssumption
     DEF Init, Empty, TypeOK, TypeDb, TypeWorld, TypeRunner, TypeTrim, TypeReqs, NoTasks,
         NoTrim, RowStatus, TaskStatus, TaskIds, Points, Epochs, Actors, Runs

\* Every step of the service keeps the types.
LEMMA TypeStep == TypeOK /\ [Next]_vars => TypeOK'
<1> SUFFICES ASSUME TypeOK, [Next]_vars PROVE TypeOK'
  OBVIOUS
<1> USE JobsAssumption
<1>1. ASSUME NEW j \in Jobs, Submit(j) PROVE TypeOK'
  <2>1. pc' \in [Jobs -> Points]
    BY <1>1 DEF Submit, Goto, Points, TypeOK
  <2>2. TypeDb'
    BY <1>1 DEF Submit, RowStatus, TypeOK, TypeDb
  <2>3. TypeReqs'
    BY <1>1 DEF Submit, TypeOK, TypeReqs, reqs
  <2>4. TypeWorld' /\ TypeRunner' /\ TypeTrim'
    BY <1>1 DEF Submit, TypeOK, TypeWorld, world, proc, TypeRunner, local,
       TypeTrim
  <2> QED
    BY <2>1, <2>2, <2>3, <2>4 DEF TypeOK
<1>2. ASSUME NEW j \in Jobs, RegisterRunner(j) PROVE TypeOK'
  <2>1. pc' \in [Jobs -> Points]
    BY <1>2 DEF RegisterRunner, Goto, Points, TypeOK
  <2>2. TypeRunner'
    BY <1>2 DEF RegisterRunner, TypeOK, TypeRunner, local
  <2>3. TypeDb' /\ TypeWorld' /\ TypeTrim' /\ TypeReqs'
    BY <1>2 DEF RegisterRunner, TypeOK, TypeDb, db, TypeWorld, world, proc,
       TypeTrim, TypeReqs, reqs
  <2> QED
    BY <2>1, <2>2, <2>3 DEF TypeOK
<1>3. ASSUME NEW j \in Jobs, LoadJob(j) PROVE TypeOK'
  <2>1. pc' \in [Jobs -> Points]
    BY <1>3 DEF LoadJob, Goto, Points, TypeOK
  <2>2. TypeDb' /\ TypeWorld' /\ TypeRunner' /\ TypeTrim' /\ TypeReqs'
    BY <1>3 DEF LoadJob, TypeOK, TypeDb, db, TypeWorld, world, proc,
       TypeRunner, local, TypeTrim, TypeReqs, reqs
  <2> QED
    BY <2>1, <2>2 DEF TypeOK
<1>4. ASSUME NEW j \in Jobs, StartJob(j) PROVE TypeOK'
  <2>1. pc' \in [Jobs -> Points]
    BY <1>4 DEF StartJob, Goto, Points, TypeOK
  <2>2. TypeDb'
    BY <1>4 DEF StartJob, SetRow, RowStatus, TypeOK, TypeDb
  <2>3. TypeWorld' /\ TypeRunner' /\ TypeTrim' /\ TypeReqs'
    BY <1>4 DEF StartJob, TypeOK, TypeWorld, world, proc, TypeRunner, local,
       TypeTrim, TypeReqs, reqs
  <2> QED
    BY <2>1, <2>2, <2>3 DEF TypeOK
<1>5. ASSUME NEW j \in Jobs, PlanFresh(j) PROVE TypeOK'
  <2>1. pc' \in [Jobs -> Points]
    BY <1>5 DEF PlanFresh, Goto, Points, TypeOK
  <2>2. TypeDb'
    BY <1>5 DEF PlanFresh, TypeOK, TypeDb
  <2>3. TypeWorld'
    BY <1>5 DEF PlanFresh, ReleasePlanRuntime, CleanupRuntime, StopContainer, Here, Runs, TypeOK,
       TypeWorld, world, proc
  <2>4. TypeRunner'
    BY <1>5 DEF PlanFresh, ReleasePlanRuntime, CleanupRuntime, StopContainer, FullPlan, TaskStatus,
       TaskIds, TypeOK, TypeRunner, local
  <2>5. TypeTrim' /\ TypeReqs'
    BY <1>5 DEF PlanFresh, TypeOK, TypeTrim, TypeReqs, reqs
  <2> QED
    BY <2>1, <2>2, <2>3, <2>4, <2>5 DEF TypeOK
<1>6. ASSUME NEW j \in Jobs, PlanDrifted(j) PROVE TypeOK'
  <2>1. pc' \in [Jobs -> Points]
    BY <1>6 DEF PlanDrifted, Goto, Points, TypeOK
  <2>2. TypeDb'
    BY <1>6 DEF PlanDrifted, NoTasks, TaskStatus, TaskIds, TypeOK, TypeDb
  <2>3. TypeWorld'
    BY <1>6 DEF PlanDrifted, ReleasePlanRuntime, CleanupRuntime, StopContainer, Here, Runs, TypeOK,
       TypeWorld, world, proc
  <2>4. TypeRunner'
    BY <1>6 DEF PlanDrifted, ReleasePlanRuntime, CleanupRuntime, StopContainer, FullPlan, TaskStatus,
       TaskIds, TypeOK, TypeRunner, local
  <2>5. TypeTrim' /\ TypeReqs'
    BY <1>6 DEF PlanDrifted, TypeOK, TypeTrim, TypeReqs, reqs
  <2> QED
    BY <2>1, <2>2, <2>3, <2>4, <2>5 DEF TypeOK
<1>7. ASSUME NEW j \in Jobs, PlanStored(j) PROVE TypeOK'
  <2>1. pc' \in [Jobs -> Points]
    BY <1>7 DEF PlanStored, Goto, Points, TypeOK
  <2>2. TypeDb'
    BY <1>7 DEF PlanStored, TaskStatus, TaskIds, TypeOK, TypeDb
  <2>3. TypeRunner'
    BY <1>7 DEF PlanStored, TypeDb, TaskStatus, TaskIds, TypeOK, TypeRunner,
       local
  <2>4. TypeWorld' /\ TypeTrim' /\ TypeReqs'
    BY <1>7 DEF PlanStored, TypeOK, TypeWorld, world, proc, TypeTrim,
       TypeReqs, reqs
  <2> QED
    BY <2>1, <2>2, <2>3, <2>4 DEF TypeOK
<1>8. ASSUME NEW j \in Jobs, PlanFails(j) PROVE TypeOK'
  <2>1. pc' \in [Jobs -> Points]
    BY <1>8 DEF PlanFails, Goto, Points, TypeOK
  <2>2. TypeDb'
    BY <1>8 DEF PlanFails, TaskWritable, TypeOK, TypeDb
  <2>3. TypeWorld'
    BY <1>8 DEF PlanFails, ReleasePlanRuntime, CleanupRuntime, StopContainer, Here, Runs, TypeOK,
       TypeWorld, world, proc
  <2>4. TypeRunner'
    BY <1>8 DEF PlanFails, ReleasePlanRuntime, CleanupRuntime, StopContainer, TypeOK, TypeRunner,
       local
  <2>5. TypeTrim' /\ TypeReqs'
    BY <1>8 DEF PlanFails, TypeOK, TypeTrim, TypeReqs, reqs
  <2> QED
    BY <2>1, <2>2, <2>3, <2>4, <2>5 DEF TypeOK
<1>9. ASSUME NEW j \in Jobs, StoreTask(j) PROVE TypeOK'
  <2>1. pc' \in [Jobs -> Points]
    BY <1>9 DEF StoreTask, Goto, Points, TypeOK
  <2>2. TypeDb'
    <3>1. "queued" \in TaskStatus
      BY DEF TaskStatus
    <3> QED
      BY <1>9, <3>1, SetTaskType DEF StoreTask, TypeOK, TypeDb
  <2>3. TypeRunner'
    BY <1>9 DEF StoreTask, NextTask, TaskIds, TypeOK, TypeRunner, local
  <2>4. TypeWorld' /\ TypeTrim' /\ TypeReqs'
    BY <1>9 DEF StoreTask, TypeOK, TypeWorld, world, proc, TypeTrim, TypeReqs,
       reqs
  <2> QED
    BY <2>1, <2>2, <2>3, <2>4 DEF TypeOK
<1>10. ASSUME NEW j \in Jobs, PlanStoredAll(j) PROVE TypeOK'
  <2>1. pc' \in [Jobs -> Points]
    BY <1>10 DEF PlanStoredAll, Goto, Points, TypeOK
  <2>2. TypeTrim'
    <3>1. UNCHANGED trim \/ TrimList(j, j)
      BY <1>10 DEF PlanStoredAll, TrimForJob
    <3> QED
      BY <3>1, TrimListType DEF TypeOK, TypeTrim, Actors
  <2>3. TypeDb' /\ TypeWorld' /\ TypeRunner' /\ TypeReqs'
    BY <1>10 DEF PlanStoredAll, TypeOK, TypeDb, db, TypeWorld, world, proc,
       TypeRunner, local, TypeReqs, reqs
  <2> QED
    BY <2>1, <2>2, <2>3 DEF TypeOK
<1>11. ASSUME NEW j \in Jobs, PlanTrimmed(j) PROVE TypeOK'
  <2>1. pc' \in [Jobs -> Points]
    BY <1>11 DEF PlanTrimmed, Goto, Points, TypeOK
  <2>2. TypeRunner'
    BY <1>11 DEF PlanTrimmed, TaskIds, TypeOK, TypeRunner, local
  <2>3. TypeTrim'
    BY <1>11 DEF PlanTrimmed, NoTrim, Actors, TypeOK, TypeTrim
  <2>4. TypeDb' /\ TypeWorld' /\ TypeReqs'
    BY <1>11 DEF PlanTrimmed, TypeOK, TypeDb, db, TypeWorld, world, proc,
       TypeReqs, reqs
  <2> QED
    BY <2>1, <2>2, <2>3, <2>4 DEF TypeOK
<1>12. ASSUME NEW j \in Jobs, MarkTask(j) PROVE TypeOK'
  <2>1. pc' \in [Jobs -> Points]
    BY <1>12 DEF MarkTask, Goto, Points, TypeOK
  <2>2. TypeDb'
    <3>1. "succeeded" \in TaskStatus
      BY DEF TaskStatus
    <3> QED
      BY <1>12, <3>1, SetTaskType DEF MarkTask, TypeOK, TypeDb
  <2>3. TypeRunner'
    BY <1>12 DEF MarkTask, NextTask, TaskIds, TypeOK, TypeRunner, local
  <2>4. TypeWorld' /\ TypeTrim' /\ TypeReqs'
    BY <1>12 DEF MarkTask, TypeOK, TypeWorld, world, proc, TypeTrim, TypeReqs,
       reqs
  <2> QED
    BY <2>1, <2>2, <2>3, <2>4 DEF TypeOK
<1>13. ASSUME NEW j \in Jobs, BeginTask(j) PROVE TypeOK'
  <2>1. pc' \in [Jobs -> Points]
    BY <1>13 DEF BeginTask, Goto, Points, TypeOK
  <2>2. TypeDb'
    <3>1. "running" \in TaskStatus /\ "succeeded" \in TaskStatus
      BY DEF TaskStatus
    <3> QED
      BY <1>13, <3>1, SetTaskType DEF BeginTask, TypeOK, TypeDb
  <2>3. TypeRunner'
    BY <1>13 DEF BeginTask, NextTask, TaskIds, TypeOK, TypeRunner, local
  <2>4. TypeWorld' /\ TypeTrim' /\ TypeReqs'
    BY <1>13 DEF BeginTask, TypeOK, TypeWorld, world, proc, TypeTrim,
       TypeReqs, reqs
  <2> QED
    BY <2>1, <2>2, <2>3, <2>4 DEF TypeOK
<1>14. ASSUME NEW j \in Jobs, EndOfTasks(j) PROVE TypeOK'
  <2>1. pc' \in [Jobs -> Points]
    BY <1>14 DEF EndOfTasks, Goto, Points, TypeOK
  <2>2. TypeDb' /\ TypeWorld' /\ TypeRunner' /\ TypeTrim' /\ TypeReqs'
    BY <1>14 DEF EndOfTasks, TypeOK, TypeDb, db, TypeWorld, world, proc,
       TypeRunner, local, TypeTrim, TypeReqs, reqs
  <2> QED
    BY <2>1, <2>2 DEF TypeOK
<1>15. ASSUME NEW j \in Jobs, WorkPlan(j) PROVE TypeOK'
  <2>1. pc' \in [Jobs -> Points]
    BY <1>15 DEF WorkPlan, Goto, Points, TypeOK
  <2>2. TypeDb' /\ TypeWorld' /\ TypeRunner' /\ TypeTrim' /\ TypeReqs'
    BY <1>15 DEF WorkPlan, TypeOK, TypeDb, db, TypeWorld, world, proc,
       TypeRunner, local, TypeTrim, TypeReqs, reqs
  <2> QED
    BY <2>1, <2>2 DEF TypeOK
<1>16. ASSUME NEW j \in Jobs, WorkExec(j) PROVE TypeOK'
  <2>1. pc' \in [Jobs -> Points]
    BY <1>16 DEF WorkExec, Goto, Points, TypeOK
  <2>2. TypeWorld'
    BY <1>16 DEF WorkExec, CleanupRuntime, StopContainer, Here, Runs, TypeOK,
       TypeWorld, world, proc
  <2>3. TypeRunner'
    BY <1>16 DEF WorkExec, CleanupRuntime, StopContainer, TypeOK, TypeRunner,
       local
  <2>4. TypeDb' /\ TypeTrim' /\ TypeReqs'
    BY <1>16 DEF WorkExec, TypeOK, TypeDb, db, TypeTrim, TypeReqs, reqs
  <2> QED
    BY <2>1, <2>2, <2>3, <2>4 DEF TypeOK
<1>17. ASSUME NEW j \in Jobs, WorkInstance(j) PROVE TypeOK'
  <2>1. pc' \in [Jobs -> Points]
    BY <1>17 DEF WorkInstance, Goto, Points, TypeOK
  <2>2. TypeWorld'
    BY <1>17 DEF WorkInstance, TypeOK, TypeWorld,
       world, proc
  <2>3. TypeRunner'
    BY <1>17 DEF WorkInstance, TypeOK, TypeRunner, local
  <2>4. TypeDb' /\ TypeTrim' /\ TypeReqs'
    BY <1>17 DEF WorkInstance, TypeOK, TypeDb, db, TypeTrim, TypeReqs, reqs
  <2> QED
    BY <2>1, <2>2, <2>3, <2>4 DEF TypeOK
<1>18. ASSUME NEW j \in Jobs, InsertInstance(j) PROVE TypeOK'
  <2>1. pc' \in [Jobs -> Points]
    BY <1>18 DEF InsertInstance, Goto, Points, TypeOK
  <2>2. TypeWorld'
    BY <1>18 DEF InsertInstance, Here, Runs, TypeOK, TypeWorld, world, proc
  <2>3. TypeDb' /\ TypeRunner' /\ TypeTrim' /\ TypeReqs'
    BY <1>18 DEF InsertInstance, TypeOK, TypeDb, db, TypeRunner, local,
       TypeTrim, TypeReqs, reqs
  <2> QED
    BY <2>1, <2>2, <2>3 DEF TypeOK
<1>19. ASSUME NEW j \in Jobs, FinishTask(j) PROVE TypeOK'
  <2>1. pc' \in [Jobs -> Points]
    BY <1>19 DEF FinishTask, Goto, Points, TypeOK
  <2>2. TypeDb'
    <3>1. "succeeded" \in TaskStatus
      BY DEF TaskStatus
    <3> QED
      BY <1>19, <3>1, SetTaskType DEF FinishTask, TypeOK, TypeDb
  <2>3. TypeRunner'
    BY <1>19 DEF FinishTask, NextTask, TaskIds, TypeOK, TypeRunner, local
  <2>4. TypeWorld' /\ TypeTrim' /\ TypeReqs'
    BY <1>19 DEF FinishTask, TypeOK, TypeWorld, world, proc, TypeTrim,
       TypeReqs, reqs
  <2> QED
    BY <2>1, <2>2, <2>3, <2>4 DEF TypeOK
<1>20. ASSUME NEW j \in Jobs, FailTask(j) PROVE TypeOK'
  <2>1. pc' \in [Jobs -> Points]
    BY <1>20 DEF FailTask, Goto, Points, TypeOK
  <2>2. TypeDb'
    <3>1. "failed" \in TaskStatus
      BY DEF TaskStatus
    <3> QED
      BY <1>20, <3>1, SetTaskType DEF FailTask, TypeOK, TypeDb
  <2>3. TypeWorld' /\ TypeRunner' /\ TypeTrim' /\ TypeReqs'
    BY <1>20 DEF FailTask, TypeOK, TypeWorld, world, proc, TypeRunner, local,
       TypeTrim, TypeReqs, reqs
  <2> QED
    BY <2>1, <2>2, <2>3 DEF TypeOK
<1>21. ASSUME NEW j \in Jobs, Succeed(j) PROVE TypeOK'
  <2>1. pc' \in [Jobs -> Points]
    BY <1>21 DEF Succeed, Goto, Points, TypeOK
  <2>2. TypeDb'
    BY <1>21 DEF Succeed, SetFinished, SetRow, RowStatus, TypeOK, TypeDb
  <2>3. TypeWorld' /\ TypeRunner' /\ TypeTrim' /\ TypeReqs'
    BY <1>21 DEF Succeed, TypeOK, TypeWorld, world, proc, TypeRunner, local,
       TypeTrim, TypeReqs, reqs
  <2> QED
    BY <2>1, <2>2, <2>3 DEF TypeOK
<1>22. ASSUME NEW j \in Jobs, SucceedEvents(j) PROVE TypeOK'
  <2>1. pc' \in [Jobs -> Points]
    BY <1>22 DEF SucceedEvents, Goto, Points, TypeOK
  <2>2. TypeRunner'
    BY <1>22 DEF SucceedEvents, TypeOK, TypeRunner, local
  <2>3. TypeTrim'
    <3>1. UNCHANGED trim \/ TrimList(j, j)
      BY <1>22 DEF SucceedEvents, TrimForJob
    <3> QED
      BY <3>1, TrimListType DEF TypeOK, TypeTrim, Actors
  <2>4. TypeDb' /\ TypeWorld' /\ TypeReqs'
    BY <1>22 DEF SucceedEvents, TypeOK, TypeDb, db, TypeWorld, world, proc,
       TypeReqs, reqs
  <2> QED
    BY <2>1, <2>2, <2>3, <2>4 DEF TypeOK
<1>23. ASSUME NEW j \in Jobs, FailJob(j) PROVE TypeOK'
  <2>1. pc' \in [Jobs -> Points]
    BY <1>23 DEF FailJob, Goto, Points, TypeOK
  <2>2. TypeDb'
    BY <1>23 DEF FailJob, SetFinished, SetRow, RowStatus, TypeOK, TypeDb
  <2>3. TypeWorld' /\ TypeRunner' /\ TypeTrim' /\ TypeReqs'
    BY <1>23 DEF FailJob, TypeOK, TypeWorld, world, proc, TypeRunner, local,
       TypeTrim, TypeReqs, reqs
  <2> QED
    BY <2>1, <2>2, <2>3 DEF TypeOK
<1>24. ASSUME NEW j \in Jobs, FailEvents(j) PROVE TypeOK'
  <2>1. pc' \in [Jobs -> Points]
    BY <1>24 DEF FailEvents, Goto, Points, TypeOK
  <2>2. TypeTrim'
    <3>1. UNCHANGED trim \/ TrimList(j, j)
      BY <1>24 DEF FailEvents, TrimForJob
    <3> QED
      BY <3>1, TrimListType DEF TypeOK, TypeTrim, Actors
  <2>3. TypeDb' /\ TypeWorld' /\ TypeRunner' /\ TypeReqs'
    BY <1>24 DEF FailEvents, TypeOK, TypeDb, db, TypeWorld, world, proc,
       TypeRunner, local, TypeReqs, reqs
  <2> QED
    BY <2>1, <2>2, <2>3 DEF TypeOK
<1>25. ASSUME NEW j \in Jobs, EventRefused(j) PROVE TypeOK'
  <2>1. pc' \in [Jobs -> Points]
    BY <1>25 DEF EventRefused, Goto, Points, TypeOK
  <2>2. TypeWorld'
    BY <1>25 DEF EventRefused, world, TypeOK, TypeWorld, proc
  <2>3. TypeDb' /\ TypeRunner' /\ TypeTrim' /\ TypeReqs'
    BY <1>25 DEF EventRefused, TypeOK, TypeDb, db, TypeRunner, local,
       TypeTrim, TypeReqs, reqs
  <2> QED
    BY <2>1, <2>2, <2>3 DEF TypeOK
<1>26. ASSUME NEW j \in Jobs, EndTrimmed(j) PROVE TypeOK'
  <2>1. pc' \in [Jobs -> Points]
    BY <1>26 DEF EndTrimmed, Goto, Points, TypeOK
  <2>2. TypeDb' /\ TypeWorld' /\ TypeRunner' /\ TypeTrim' /\ TypeReqs'
    BY <1>26 DEF EndTrimmed, TypeOK, TypeDb, db, TypeWorld, world, proc,
       TypeRunner, local, TypeTrim, TypeReqs, reqs
  <2> QED
    BY <2>1, <2>2 DEF TypeOK
<1>27. ASSUME NEW j \in Jobs, Exit(j) PROVE TypeOK'
  <2>1. pc' \in [Jobs -> Points]
    BY <1>27 DEF Exit, Goto, Points, TypeOK
  <2>2. TypeWorld'
    BY <1>27 DEF Exit, CleanupRuntime, StopContainer, Here, Runs, TypeOK, TypeWorld, world,
       proc
  <2>3. TypeRunner'
    BY <1>27 DEF Exit, CleanupRuntime, StopContainer, TypeOK, TypeRunner, local
  <2>4. TypeDb' /\ TypeTrim' /\ TypeReqs'
    BY <1>27 DEF Exit, TypeOK, TypeDb, db, TypeTrim, TypeReqs, reqs
  <2> QED
    BY <2>1, <2>2, <2>3, <2>4 DEF TypeOK
<1>28. ASSUME NEW j \in Jobs, Unregister(j) PROVE TypeOK'
  <2>1. pc' \in [Jobs -> Points]
    BY <1>28 DEF Unregister, Goto, Points, TypeOK
  <2>2. TypeRunner'
    BY <1>28 DEF Unregister, NoTasks, TaskStatus, TaskIds, TypeOK, TypeRunner,
       local
  <2>3. TypeDb' /\ TypeWorld' /\ TypeTrim' /\ TypeReqs'
    BY <1>28 DEF Unregister, TypeOK, TypeDb, db, TypeWorld, world, proc,
       TypeTrim, TypeReqs, reqs
  <2> QED
    BY <2>1, <2>2, <2>3 DEF TypeOK
<1>29. ASSUME NEW j \in Jobs, CancelLookup(j) PROVE TypeOK'
  <2>1. TypeReqs'
    BY <1>29 DEF CancelLookup, TypeOK, TypeReqs, reqs
  <2>2. pc' \in [Jobs -> Points] /\ TypeDb' /\ TypeWorld' /\ TypeRunner' /\ TypeTrim'
    BY <1>29 DEF CancelLookup, TypeOK, TypeDb, db, TypeWorld, world, proc,
       TypeRunner, local, TypeTrim
  <2> QED
    BY <2>1, <2>2 DEF TypeOK
<1>30. ASSUME NEW j \in Jobs, NEW force \in BOOLEAN, DeleteLookup(j, force)
      PROVE  TypeOK'
  <2>1. TypeReqs'
    BY <1>30 DEF DeleteLookup, TypeOK, TypeReqs, reqs
  <2>2. pc' \in [Jobs -> Points] /\ TypeDb' /\ TypeWorld' /\ TypeRunner' /\ TypeTrim'
    BY <1>30 DEF DeleteLookup, TypeOK, TypeDb, db, TypeWorld, world, proc,
       TypeRunner, local, TypeTrim
  <2> QED
    BY <2>1, <2>2 DEF TypeOK
<1>31. CASE CancelRunner
  <2>1. TypeRunner'
    BY <1>31 DEF CancelRunner, TypeReqs, TypeOK, TypeRunner, local
  <2>2. TypeReqs'
    BY <1>31 DEF CancelRunner, TypeOK, TypeReqs, reqs
  <2>3. pc' \in [Jobs -> Points] /\ TypeDb' /\ TypeWorld' /\ TypeTrim'
    BY <1>31 DEF CancelRunner, TypeOK, TypeDb, db, TypeWorld, world, proc,
       TypeTrim
  <2> QED
    BY <2>1, <2>2, <2>3 DEF TypeOK
<1>32. CASE CancelFail
  <2>1. TypeDb'
    BY <1>32 DEF CancelFail, TypeReqs, SetFinished, SetRow, RowStatus, TypeOK,
       TypeDb
  <2>2. TypeReqs'
    BY <1>32 DEF CancelFail, TypeOK, TypeReqs, reqs
  <2>3. pc' \in [Jobs -> Points] /\ TypeWorld' /\ TypeRunner' /\ TypeTrim'
    BY <1>32 DEF CancelFail, TypeOK, TypeWorld, world, proc, TypeRunner,
       local, TypeTrim
  <2> QED
    BY <2>1, <2>2, <2>3 DEF TypeOK
<1>33. CASE CancelEvents
  <2>1. TypeTrim'
    <3>1. UNCHANGED trim \/ TrimList(Canceller, cancel.job)
      BY <1>33 DEF CancelEvents, TrimForJob
    <3> QED
      BY <3>1, TrimListType, <1>33 DEF TypeOK, TypeTrim, Actors, TypeReqs,
         CancelEvents
  <2>2. TypeReqs'
    BY <1>33 DEF CancelEvents, TypeOK, TypeReqs, reqs
  <2>3. pc' \in [Jobs -> Points] /\ TypeDb' /\ TypeWorld' /\ TypeRunner'
    BY <1>33 DEF CancelEvents, TypeOK, TypeDb, db, TypeWorld, world, proc,
       TypeRunner, local
  <2> QED
    BY <2>1, <2>2, <2>3 DEF TypeOK
<1>34. CASE CancelReturn
  <2>1. TypeReqs'
    BY <1>34 DEF CancelReturn, TypeOK, TypeReqs, reqs
  <2>2. pc' \in [Jobs -> Points] /\ TypeDb' /\ TypeWorld' /\ TypeRunner' /\ TypeTrim'
    BY <1>34 DEF CancelReturn, TypeOK, TypeDb, db, TypeWorld, world, proc,
       TypeRunner, local, TypeTrim
  <2> QED
    BY <2>1, <2>2 DEF TypeOK
<1>35. CASE DeleteCancel
  <2>1. TypeRunner'
    BY <1>35 DEF DeleteCancel, TypeOK, TypeRunner, local, TypeReqs
  <2>2. TypeReqs'
    BY <1>35 DEF DeleteCancel, TypeOK, TypeReqs, reqs
  <2>3. pc' \in [Jobs -> Points] /\ TypeDb' /\ TypeWorld' /\ TypeTrim'
    BY <1>35 DEF DeleteCancel, TypeOK, TypeDb, db, TypeWorld, world, proc,
       TypeTrim
  <2> QED
    BY <2>1, <2>2, <2>3 DEF TypeOK
<1>36. CASE DeleteWait
  <2>1. TypeReqs'
    BY <1>36 DEF DeleteWait, TypeOK, TypeReqs, reqs
  <2>2. pc' \in [Jobs -> Points] /\ TypeDb' /\ TypeWorld' /\ TypeRunner' /\ TypeTrim'
    BY <1>36 DEF DeleteWait, TypeOK, TypeDb, db, TypeWorld, world, proc,
       TypeRunner, local, TypeTrim
  <2> QED
    BY <2>1, <2>2 DEF TypeOK
<1>37. CASE DeleteRow
  <2>1. TypeDb'
    BY <1>37 DEF DeleteRow, DropRow, NoTasks, TaskStatus, TaskIds, RowStatus,
       TypeOK, TypeDb, TypeReqs
  <2>2. TypeReqs'
    BY <1>37 DEF DeleteRow, TypeOK, TypeReqs, reqs
  <2>3. pc' \in [Jobs -> Points] /\ TypeWorld' /\ TypeRunner' /\ TypeTrim'
    BY <1>37 DEF DeleteRow, TypeOK, TypeWorld, world, proc, TypeRunner, local,
       TypeTrim
  <2> QED
    BY <2>1, <2>2, <2>3 DEF TypeOK
<1>38. CASE DeleteDir
  <2>1. TypeWorld'
    BY <1>38 DEF DeleteDir, RemoveJobDir, TypeOK, TypeWorld, world, proc,
       TypeReqs
  <2>2. TypeReqs'
    BY <1>38 DEF DeleteDir, TypeOK, TypeReqs, reqs
  <2>3. pc' \in [Jobs -> Points] /\ TypeDb' /\ TypeRunner' /\ TypeTrim'
    BY <1>38 DEF DeleteDir, TypeOK, TypeDb, db, TypeRunner, local, TypeTrim
  <2> QED
    BY <2>1, <2>2, <2>3 DEF TypeOK
<1>39. ASSUME NEW x \in Actors, TrimRow(x) PROVE TypeOK'
  <2>1. TypeDb'
    BY <1>39 DEF TrimRow, TypeTrim, DropRow, NoTasks, TaskStatus, TaskIds,
       RowStatus, TypeOK, TypeDb
  <2>2. TypeTrim'
    BY <1>39 DEF TrimRow, TypeOK, TypeTrim
  <2>3. pc' \in [Jobs -> Points] /\ TypeWorld' /\ TypeRunner' /\ TypeReqs'
    BY <1>39 DEF TrimRow, TypeOK, TypeWorld, world, proc, TypeRunner, local,
       TypeReqs, reqs
  <2> QED
    BY <2>1, <2>2, <2>3 DEF TypeOK
<1>40. ASSUME NEW x \in Actors, TrimDir(x) PROVE TypeOK'
  <2>1. TypeWorld'
    BY <1>40 DEF TrimDir, TypeTrim, RemoveJobDir, TypeOK, TypeWorld, world,
       proc
  <2>2. TypeTrim'
    BY <1>40 DEF TrimDir, TypeOK, TypeTrim
  <2>3. pc' \in [Jobs -> Points] /\ TypeDb' /\ TypeRunner' /\ TypeReqs'
    BY <1>40 DEF TrimDir, TypeOK, TypeDb, db, TypeRunner, local, TypeReqs,
       reqs
  <2> QED
    BY <2>1, <2>2, <2>3 DEF TypeOK
<1>41. CASE Crash
  <2>1. pc' \in [Jobs -> Points]
    BY <1>41 DEF Crash, Goto, Points, TypeOK
  <2>2. TypeWorld'
    BY <1>41 DEF Crash, world, TypeOK, TypeWorld, proc
  <2>3. TypeRunner'
    BY <1>41 DEF Crash, NoTasks, TaskStatus, TaskIds, TypeOK, TypeRunner,
       local
  <2>4. TypeTrim'
    BY <1>41 DEF Crash, NoTrim, TypeOK, TypeTrim
  <2>5. TypeReqs'
    BY <1>41 DEF Crash, TypeOK, TypeReqs, reqs
  <2>6. TypeDb'
    BY <1>41 DEF Crash, TypeOK, TypeDb, db
  <2> QED
    BY <2>1, <2>2, <2>3, <2>4, <2>5, <2>6 DEF TypeOK
<1>42. CASE Recover
  <2>1. pc' \in [Jobs -> Points]
    BY <1>42 DEF Recover, Goto, Points, TypeOK
  <2>2. TypeWorld'
    BY <1>42 DEF Recover, world, Epochs, TypeOK, TypeWorld, proc
  <2>3. TypeDb' /\ TypeRunner' /\ TypeTrim' /\ TypeReqs'
    BY <1>42 DEF Recover, TypeOK, TypeDb, db, TypeRunner, local, TypeTrim,
       TypeReqs, reqs
  <2> QED
    BY <2>1, <2>2, <2>3 DEF TypeOK
<1>44. ASSUME NEW j \in Jobs, StartRuntime(j) PROVE TypeOK'
  <2>1. TypeWorld'
    BY <1>44 DEF StartRuntime, Here, Runs, TypeOK, TypeWorld, proc
  <2>2. TypeRunner'
    BY <1>44 DEF StartRuntime, TypeOK, TypeRunner
  <2>3. pc' \in [Jobs -> Points] /\ TypeDb' /\ TypeTrim' /\ TypeReqs'
    BY <1>44 DEF StartRuntime, TypeOK, TypeDb, db, TypeTrim, TypeReqs, reqs
  <2> QED
    BY <2>1, <2>2, <2>3 DEF TypeOK
<1>45. ASSUME NEW j \in Jobs, RuntimeStarted(j) PROVE TypeOK'
  <2>1. TypeRunner'
    BY <1>45 DEF RuntimeStarted, TypeOK, TypeRunner
  <2>2. pc' \in [Jobs -> Points] /\ TypeDb' /\ TypeWorld' /\ TypeTrim' /\ TypeReqs'
    BY <1>45 DEF RuntimeStarted, TypeOK, TypeDb, db, TypeWorld, world, proc,
       TypeTrim, TypeReqs, reqs
  <2> QED
    BY <2>1, <2>2 DEF TypeOK
<1>46. ASSUME NEW j \in Jobs, StartFails(j) PROVE TypeOK'
  <2>1. pc' \in [Jobs -> Points]
    BY <1>46 DEF StartFails, Goto, Points, TypeOK
  <2>2. TypeWorld'
    BY <1>46 DEF StartFails, StopContainer, Here, Runs, TypeOK, TypeWorld, proc
  <2>3. TypeRunner'
    BY <1>46 DEF StartFails, TypeOK, TypeRunner
  <2>4. TypeDb' /\ TypeTrim' /\ TypeReqs'
    BY <1>46 DEF StartFails, TypeOK, TypeDb, db, TypeTrim, TypeReqs, reqs
  <2> QED
    BY <2>1, <2>2, <2>3, <2>4 DEF TypeOK
<1>43. CASE UNCHANGED vars
  BY <1>43 DEF vars, db, world, proc, local, reqs, TypeOK, TypeDb, TypeWorld,
     TypeRunner, TypeTrim, TypeReqs
<1> QED
  BY <1>1, <1>2, <1>3, <1>4, <1>5, <1>6, <1>7, <1>8, <1>9, <1>10, <1>11,
     <1>12, <1>13, <1>14, <1>15, <1>16, <1>17, <1>18, <1>19, <1>20, <1>21,
     <1>22, <1>23, <1>24, <1>25, <1>26, <1>27, <1>28, <1>29, <1>30, <1>31,
     <1>32, <1>33, <1>34, <1>35, <1>36, <1>37, <1>38, <1>39, <1>40, <1>41,
     <1>42, <1>43, <1>44, <1>45, <1>46 DEF Next, RunnerStep, CancelStep, DeleteStep, TrimStep

\* Every variable of the prepare service keeps its type in every execution.
THEOREM TypeCorrect == Spec => []TypeOK
  BY TypeInit, TypeStep, PTL DEF Spec

-----------------------------------------------------------------------------
(* The inductive invariant: first who may touch what.                      *)

\* Rows and runners belong to identifiers that were handed out.
Issued ==
  \A j \in Jobs : row[j] # "absent" \/ pc[j] # "idle" => j \in used.jobs

\* A job that was deleted: no row can appear for it again.
Gone(j) == row[j] = "absent" /\ j \in used.jobs

\* A job's directory is removed after its row, so the pending removal can never
\* hit the directory of a job that exists.
TrimSafe ==
  \A x \in Actors : /\ trim[x].todo \subseteq used.jobs
                    /\ trim[x].dir # None => Gone(trim[x].dir)
DeleteSafe ==
  /\ del.pc # "idle" => del.job \in used.jobs
  /\ del.pc = "dir" => Gone(del.job)

\* Without a goroutine there is no runtime, no start under way and no success flag;
\* an engine that is down has no goroutines.
Stopped ==
  /\ \A j \in Jobs : pc[j] = "idle" => ~rt[j] /\ ~boot[j] /\ ~ok[j]
  /\ ~up => \A j \in Jobs : pc[j] = "idle"

Owned == Issued /\ TrimSafe /\ DeleteSafe /\ Stopped

(* Then where a runner can be.                                             *)

\* Where the runner of a job can be once the job's status is succeeded, unless an
\* event was refused.
AfterSuccess ==
  \A j \in Jobs : lost = 0 /\ row[j] = "succeeded" =>
    \/ pc[j] \in {"succEvents", "unreg", "idle"}
    \/ pc[j] \in {"endTrim", "exit"} /\ ok[j]

\* The instance row exists from its insertion to the end of the runner, and the
\* runtime it stands for is the runner's.
Created ==
  \A j \in Jobs \ PlanOnlyJobs :
    /\ pc[j] = "insert" => rt[j]
    /\ pc[j] = "succeed" \/ (pc[j] = "finish" /\ cur[j] = "inst")
         => rt[j] /\ Here(j) \in inst
    /\ pc[j] = "succEvents" \/ ok[j] => Here(j) \in inst
    /\ pc[j] = "unreg" /\ rt[j] => ok[j]

\* A runtime is started while the runner plans or works on a task that needs one, and
\* only without another.
Booting ==
  \A j \in Jobs : boot[j] =>
    ~rt[j] /\ (pc[j] = "plan" \/ (pc[j] = "work" /\ cur[j] # "plan"))

\* A plan_only job has a runtime only while it plans and never runs a task, and only
\* a plan_only job is marked.
PlanOnly ==
  /\ \A j \in PlanOnlyJobs :
       (rt[j] => pc[j] = "plan") /\ pc[j] \notin {"begin", "work", "insert", "finish", "taskFail"}
  /\ \A j \in Jobs \ PlanOnlyJobs : pc[j] # "mark"

Control == AfterSuccess /\ Created /\ Booting /\ PlanOnly

(* Last what the runner, the container and the directory have in common.   *)

\* The runtime a runner holds or starts is the one that runs, on a directory that is
\* there as long as the job's row is.
HeldRuntime ==
  \A j \in Jobs : rt[j] \/ boot[j] =>
    Here(j) \in ctr /\ (row[j] # "absent" => dir[j] = epoch)

\* Containers come from this run of the engine or from an earlier one.
PastRuns == \A j \in Jobs, e \in Epochs : <<j, e>> \in ctr => e <= epoch

Outside ==
  /\ HeldRuntime /\ PastRuns
  /\ SucceededUsable /\ NoLeakedRuntime /\ PlanCreatesNothing

IInv == TypeOK /\ Owned /\ Control /\ Outside

-----------------------------------------------------------------------------
(* What a step does to the world outside the engine.                       *)

\* A succeeded job stays usable when its row, its container and its directory
\* are left alone.
LEMMA KeepUsable ==
  ASSUME SucceededUsable, inst \subseteq inst', lost' = 0 => lost = 0,
         \A k \in Jobs : lost' = 0 /\ row'[k] = "succeeded" =>
           /\ row[k] = "succeeded" /\ dir'[k] = dir[k]
           /\ \A e \in Epochs : <<k, e>> \in ctr => <<k, e>> \in ctr'
  PROVE  SucceededUsable'
  BY DEF SucceededUsable, AllSucceededUsable, Usable, Epochs

\* Steps that change no row, no container, no directory and no held runtime.
LEMMA FrameStep ==
  ASSUME Outside, UNCHANGED <<row, inst, dir, ctr, stuck, epoch, up, lost, rt, boot>>
  PROVE  Outside'
<1>1. SucceededUsable'
  BY KeepUsable DEF Outside
<1> QED
  BY <1>1 DEF Outside, HeldRuntime, PastRuns, NoLeakedRuntime, HasOwner, PlanCreatesNothing,
     Here

\* Starting the runtime of a job that has not succeeded.
LEMMA StartStep ==
  ASSUME TypeOK, Outside, NEW j \in Jobs, lost = 0 => row[j] # "succeeded",
         StartRuntime(j)
  PROVE  Outside'
<1> USE DEF StartRuntime, Here, db, proc
<1>t. /\ boot \in [Jobs -> BOOLEAN] /\ dir \in [Jobs -> Epochs \cup {None}]
      /\ epoch \in Epochs /\ Epochs \subseteq Nat
  BY JobsAssumption DEF TypeOK, TypeRunner, TypeWorld, Epochs
<1>1. SucceededUsable'
  BY <1>t, KeepUsable DEF Outside
<1>2. HeldRuntime'
  BY <1>t DEF Outside, HeldRuntime
<1>3. PastRuns'
  BY <1>t DEF Outside, PastRuns, Epochs
<1>4. NoLeakedRuntime'
  BY <1>t DEF Outside, NoLeakedRuntime, HasOwner
<1>5. PlanCreatesNothing'
  BY DEF Outside, PlanCreatesNothing
<1> QED
  BY <1>1, <1>2, <1>3, <1>4, <1>5 DEF Outside

\* The start returns, and the runner has the runtime.
LEMMA StartedStep ==
  ASSUME TypeOK, Outside, NEW j \in Jobs, RuntimeStarted(j)
  PROVE  Outside'
<1> USE DEF RuntimeStarted, Here, db, world, proc
<1>t. boot \in [Jobs -> BOOLEAN] /\ rt \in [Jobs -> BOOLEAN]
  BY DEF TypeOK, TypeRunner
<1>1. SucceededUsable'
  BY KeepUsable DEF Outside
<1> QED
  BY <1>t, <1>1 DEF Outside, HeldRuntime, PastRuns, NoLeakedRuntime, HasOwner,
     PlanCreatesNothing

\* Stopping the container of a job that has not succeeded and removing its
\* directory leaves the rest of the world alone.
LEMMA StopStep ==
  ASSUME TypeOK, Outside, NEW j \in Jobs, lost = 0 => row[j] # "succeeded",
         NEW done \in BOOLEAN, StopContainer(j, done), dir' = [dir EXCEPT ![j] = None],
         ~rt'[j], ~boot'[j], \A k \in Jobs \ {j} : rt'[k] = rt[k] /\ boot'[k] = boot[k],
         UNCHANGED <<row, inst, epoch, up, lost>>
  PROVE  Outside'
<1> USE DEF StopContainer, Here
<1>t. dir \in [Jobs -> Epochs \cup {None}]
  BY DEF TypeOK, TypeWorld
<1>1. SucceededUsable'
  BY <1>t, KeepUsable DEF Outside
<1>2. HeldRuntime'
  BY <1>t DEF Outside, HeldRuntime
<1>3. PastRuns'
  BY DEF Outside, PastRuns, Epochs
<1>4. NoLeakedRuntime'
  BY <1>t DEF Outside, NoLeakedRuntime, HasOwner
<1>5. PlanCreatesNothing'
  BY DEF Outside, PlanCreatesNothing
<1> QED
  BY <1>1, <1>2, <1>3, <1>4, <1>5 DEF Outside

\* A start that fails.
LEMMA StartFailsStep ==
  ASSUME TypeOK, Outside, NEW j \in Jobs, lost = 0 => row[j] # "succeeded", ~rt[j],
         StartFails(j)
  PROVE  Outside'
<1>1. /\ boot \in [Jobs -> BOOLEAN] /\ cancelled[j] \in BOOLEAN
  BY DEF TypeOK, TypeRunner
<1>2. /\ StopContainer(j, cancelled[j]) /\ dir' = [dir EXCEPT ![j] = None]
      /\ boot' = [boot EXCEPT ![j] = FALSE]
      /\ UNCHANGED <<row, inst, epoch, up, lost, rt>>
  BY DEF StartFails, db, proc
<1> QED
  BY <1>1, <1>2, StopStep

\* Releasing the runtime of a job that has not succeeded.
LEMMA CleanupStep ==
  ASSUME TypeOK, Outside, NEW j \in Jobs, lost = 0 => row[j] # "succeeded",
         CleanupRuntime(j), ~boot[j], UNCHANGED <<row, inst, epoch, up, lost, boot>>
  PROVE  Outside' /\ rt' = [rt EXCEPT ![j] = FALSE]
<1>1. /\ rt \in [Jobs -> BOOLEAN] /\ rt' = [rt EXCEPT ![j] = FALSE]
  BY DEF TypeOK, TypeRunner, CleanupRuntime
<1>2. CASE rt[j]
  <2>1. StopContainer(j, FALSE) /\ dir' = [dir EXCEPT ![j] = None]
    BY <1>2 DEF CleanupRuntime
  <2> QED
    BY <1>1, <2>1, StopStep
<1>3. CASE ~rt[j]
  BY <1>1, <1>3, FrameStep DEF CleanupRuntime
<1> QED
  BY <1>1, <1>2, <1>3

\* Removing the directory of a job that is gone.
LEMMA RemoveDirStep ==
  ASSUME TypeOK, Outside, NEW j \in Jobs, row[j] = "absent", RemoveJobDir(j),
         UNCHANGED <<row, inst, ctr, stuck, epoch, up, lost, rt, boot>>
  PROVE  Outside'
<1> USE DEF RemoveJobDir, Here
<1>t. dir \in [Jobs -> Epochs \cup {None}]
  BY DEF TypeOK, TypeWorld
<1>1. SucceededUsable'
  BY <1>t, KeepUsable DEF Outside
<1>2. HeldRuntime'
  BY <1>t DEF Outside, HeldRuntime
<1> QED
  BY <1>1, <1>2 DEF Outside, PastRuns, NoLeakedRuntime, HasOwner, PlanCreatesNothing

\* Writing a status other than succeeded, or deleting the row.
LEMMA RowStep ==
  ASSUME TypeOK, Outside, NEW j \in Jobs, NEW s, s # "succeeded",
         row' = [row EXCEPT ![j] = s], s = "absent" \/ row[j] # "absent" \/ (~rt[j] /\ ~boot[j]),
         UNCHANGED <<inst, dir, ctr, stuck, epoch, up, lost, rt, boot>>
  PROVE  Outside'
<1>t. row \in [Jobs -> RowStatus]
  BY DEF TypeOK, TypeDb
<1>1. SucceededUsable'
  BY <1>t, KeepUsable DEF Outside
<1>2. HeldRuntime'
  BY <1>t DEF Outside, HeldRuntime, Here
<1> QED
  BY <1>1, <1>2 DEF Outside, PastRuns, NoLeakedRuntime, HasOwner, PlanCreatesNothing, Here

\* A list that retention reads, or leaves alone, names issued jobs.
LEMMA TrimListSafe ==
  ASSUME TypeOK, Issued, TrimSafe, NEW x \in Actors, NEW j \in Jobs,
         TrimList(x, j) \/ UNCHANGED trim, UNCHANGED <<row, used>>
  PROVE  TrimSafe'
<1>1. Excess(j) \subseteq used.jobs
  BY DEF Excess, Completed, Terminal, Issued
<1> QED
  BY <1>1 DEF TrimList, TrimSafe, Gone, TypeOK, TypeTrim

-----------------------------------------------------------------------------
\* Every step of the service keeps the inductive invariant.
LEMMA SafetyStep == IInv /\ [Next]_vars => IInv'
<1> SUFFICES ASSUME IInv, [Next]_vars PROVE IInv'
  OBVIOUS
<1>t. TypeOK'
  BY TypeStep DEF IInv
<1>f. /\ TypeOK /\ Owned /\ Control /\ Outside
      /\ row \in [Jobs -> RowStatus] /\ pc \in [Jobs -> Points]
      /\ rt \in [Jobs -> BOOLEAN] /\ boot \in [Jobs -> BOOLEAN] /\ ok \in [Jobs -> BOOLEAN]
      /\ cur \in [Jobs -> TaskIds \cup {"end"}]
      /\ trim \in [Actors -> [todo : SUBSET Jobs, dir : Jobs \cup {None}]]
      /\ PlanOnlyJobs \subseteq Jobs
  BY JobsAssumption DEF IInv, TypeOK, TypeDb, TypeRunner, TypeTrim
<1>1. ASSUME NEW j \in Jobs, Submit(j) PROVE IInv'
  <2>1. Owned'
    <3>1. used'.jobs = used.jobs \cup {j} /\ j \notin used.jobs
      BY <1>1, <1>f DEF Submit, TypeOK, TypeReqs
    <3>2. /\ row' = [row EXCEPT ![j] = "queued"] /\ pc' = [pc EXCEPT ![j] = "spawned"]
          /\ UNCHANGED <<up, rt, boot, ok, trim, del>>
      BY <1>1 DEF Submit, Goto, proc, local
    <3>3. \A k \in Jobs : Gone(k) => Gone(k)'
      BY <1>f, <3>1, <3>2 DEF Gone
    <3>4. TrimSafe'
      BY <1>f, <3>1, <3>2, <3>3 DEF Owned, TrimSafe
    <3>5. DeleteSafe'
      BY <1>f, <3>1, <3>2, <3>3 DEF Owned, DeleteSafe, TypeOK, TypeReqs
    <3>6. Issued'
      BY <1>f, <3>1, <3>2 DEF Owned, Issued
    <3>7. Stopped'
      BY <1>1, <1>f, <3>2 DEF Submit, Serving, Owned, Stopped
    <3> QED
      BY <3>4, <3>5, <3>6, <3>7 DEF Owned
  <2>2. Control'
    <3>1. pc[j] = "idle" /\ ~boot[j]
      BY <1>1, <1>f DEF Submit, Owned, Issued, Stopped
    <3> QED
      BY <1>1, <1>f, <3>1 DEF Submit, Goto, db, world, proc, local, reqs, Control,
         AfterSuccess, Created, Booting, PlanOnly, Here
  <2>3. Outside'
    BY <1>1, <1>f, FrameStep, CleanupStep, RemoveDirStep, RowStep
       DEF Submit, Goto, db, world, proc, local, reqs, Owned, Issued, Stopped,
       TrimSafe, DeleteSafe, Gone, Control, AfterSuccess, Booting
  <2> QED
    BY <1>t, <2>1, <2>2, <2>3 DEF IInv
<1>2. ASSUME NEW j \in Jobs, RegisterRunner(j) PROVE IInv'
  <2>1. Owned'
    BY <1>2, <1>f DEF RegisterRunner, Goto, db, world, proc, local, reqs,
       Owned, Issued, TrimSafe, DeleteSafe, Gone, Stopped
  <2>2. Control'
    BY <1>2, <1>f DEF RegisterRunner, Goto, db, world, proc, local, reqs,
       Control, AfterSuccess, Created, Booting, PlanOnly, Here
  <2>3. Outside'
    BY <1>2, <1>f, FrameStep DEF RegisterRunner, db, world, proc, local, reqs
  <2> QED
    BY <1>t, <2>1, <2>2, <2>3 DEF IInv
<1>3. ASSUME NEW j \in Jobs, LoadJob(j) PROVE IInv'
  <2>1. Owned'
    BY <1>3, <1>f DEF LoadJob, Goto, db, world, proc, local, reqs, Owned,
       Issued, TrimSafe, DeleteSafe, Gone, Stopped
  <2>2. Control'
    BY <1>3, <1>f DEF LoadJob, Goto, SkipRun, Terminal, db, world, proc,
       local, reqs, Control, AfterSuccess, Created, Booting, PlanOnly, Here
  <2>3. Outside'
    BY <1>3, <1>f, FrameStep DEF LoadJob, db, world, proc, local, reqs
  <2> QED
    BY <1>t, <2>1, <2>2, <2>3 DEF IInv
<1>4. ASSUME NEW j \in Jobs, StartJob(j) PROVE IInv'
  <2>1. Owned'
    <3>1. /\ row' = row \/ row' = [row EXCEPT ![j] = IF @ = "absent" THEN @ ELSE "running"]
          /\ UNCHANGED <<up, rt, boot, ok, trim, del, used>>
      BY <1>4 DEF StartJob, SetRow, proc, local, reqs
    <3>2. pc[j] # "idle" /\ \E p \in {"plan", "fail"} : pc' = [pc EXCEPT ![j] = p]
      BY <1>4 DEF StartJob, Goto
    <3>3. \A k \in Jobs : Gone(k)' = Gone(k)
      BY <1>f, <3>1 DEF Gone
    <3>4. TrimSafe' /\ DeleteSafe'
      BY <1>f, <3>1, <3>3 DEF Owned, TrimSafe, DeleteSafe, TypeOK, TypeReqs
    <3>5. Issued' /\ Stopped'
      BY <1>f, <3>1, <3>2 DEF Owned, Issued, Stopped
    <3> QED
      BY <3>4, <3>5 DEF Owned
  <2>2. Control'
    BY <1>4, <1>f DEF StartJob, Goto, SetRow, db, world, proc, local, reqs,
       Control, AfterSuccess, Created, Booting, PlanOnly, Here
  <2>3. Outside'
    BY <1>4, <1>f, FrameStep, CleanupStep, RemoveDirStep, RowStep
       DEF StartJob, Goto, SetRow, db, world, proc, local, reqs, Owned,
       Issued, Stopped, TrimSafe, DeleteSafe, Gone, Control, AfterSuccess, Booting
  <2> QED
    BY <1>t, <2>1, <2>2, <2>3 DEF IInv
<1>5. ASSUME NEW j \in Jobs, PlanFresh(j) PROVE IInv'
  <2>1. Owned'
    BY <1>5, <1>f DEF PlanFresh, Goto, ReleasePlanRuntime, CleanupRuntime, StopContainer, db, world,
       proc, local, reqs, Owned, Issued, TrimSafe, DeleteSafe, Gone, Stopped
  <2>2. Control'
    BY <1>5, <1>f DEF PlanFresh, Goto, ReleasePlanRuntime, CleanupRuntime, StopContainer, db, world,
       proc, local, reqs, Control, AfterSuccess, Created, Booting, PlanOnly, Here
  <2>3. Outside'
    BY <1>5, <1>f, FrameStep, CleanupStep, RemoveDirStep, RowStep
       DEF PlanFresh, Goto, ReleasePlanRuntime, CleanupRuntime, StopContainer, db, world, proc,
       local, reqs, Owned, Issued, Stopped, TrimSafe, DeleteSafe, Gone,
       Control, AfterSuccess, Booting
  <2> QED
    BY <1>t, <2>1, <2>2, <2>3 DEF IInv
<1>6. ASSUME NEW j \in Jobs, PlanDrifted(j) PROVE IInv'
  <2>1. Owned'
    BY <1>6, <1>f DEF PlanDrifted, Goto, ReleasePlanRuntime, CleanupRuntime, StopContainer, db,
       world, proc, local, reqs, Owned, Issued, TrimSafe, DeleteSafe, Gone,
       Stopped
  <2>2. Control'
    BY <1>6, <1>f DEF PlanDrifted, Goto, ReleasePlanRuntime, CleanupRuntime, StopContainer, db,
       world, proc, local, reqs, Control, AfterSuccess, Created, Booting, PlanOnly,
       Here
  <2>3. Outside'
    BY <1>6, <1>f, FrameStep, CleanupStep, RemoveDirStep, RowStep
       DEF PlanDrifted, Goto, ReleasePlanRuntime, CleanupRuntime, StopContainer, db, world, proc,
       local, reqs, Owned, Issued, Stopped, TrimSafe, DeleteSafe, Gone,
       Control, AfterSuccess, Booting
  <2> QED
    BY <1>t, <2>1, <2>2, <2>3 DEF IInv
<1>7. ASSUME NEW j \in Jobs, PlanStored(j) PROVE IInv'
  <2>1. Owned'
    BY <1>7, <1>f DEF PlanStored, Goto, db, world, proc, local, reqs, Owned,
       Issued, TrimSafe, DeleteSafe, Gone, Stopped
  <2>2. Control'
    BY <1>7, <1>f DEF PlanStored, Goto, db, world, proc, local, reqs, Control,
       AfterSuccess, Created, Booting, PlanOnly, Here
  <2>3. Outside'
    BY <1>7, <1>f, FrameStep DEF PlanStored, db, world, proc, local, reqs
  <2> QED
    BY <1>t, <2>1, <2>2, <2>3 DEF IInv
<1>8. ASSUME NEW j \in Jobs, PlanFails(j) PROVE IInv'
  <2>1. Owned'
    BY <1>8, <1>f DEF PlanFails, Goto, ReleasePlanRuntime, CleanupRuntime, StopContainer, db, world,
       proc, local, reqs, Owned, Issued, TrimSafe, DeleteSafe, Gone, Stopped
  <2>2. Control'
    BY <1>8, <1>f DEF PlanFails, Goto, ReleasePlanRuntime, CleanupRuntime, StopContainer, db, world,
       proc, local, reqs, Control, AfterSuccess, Created, Booting, PlanOnly, Here
  <2>3. Outside'
    BY <1>8, <1>f, FrameStep, CleanupStep, RemoveDirStep, RowStep
       DEF PlanFails, Goto, ReleasePlanRuntime, CleanupRuntime, StopContainer, db, world, proc,
       local, reqs, Owned, Issued, Stopped, TrimSafe, DeleteSafe, Gone,
       Control, AfterSuccess, Booting
  <2> QED
    BY <1>t, <2>1, <2>2, <2>3 DEF IInv
<1>9. ASSUME NEW j \in Jobs, StoreTask(j) PROVE IInv'
  <2>1. Owned'
    BY <1>9, <1>f DEF StoreTask, Goto, db, world, proc, local, reqs, Owned,
       Issued, TrimSafe, DeleteSafe, Gone, Stopped
  <2>2. Control'
    BY <1>9, <1>f DEF StoreTask, Goto, db, world, proc, local, reqs, Control,
       AfterSuccess, Created, Booting, PlanOnly, Here
  <2>3. Outside'
    BY <1>9, <1>f, FrameStep DEF StoreTask, db, world, proc, local, reqs
  <2> QED
    BY <1>t, <2>1, <2>2, <2>3 DEF IInv
<1>10. ASSUME NEW j \in Jobs, PlanStoredAll(j) PROVE IInv'
  <2>1. Owned'
    <3>1. TrimList(j, j) \/ UNCHANGED trim
      BY <1>10 DEF PlanStoredAll, TrimForJob
    <3>2. TrimSafe'
      BY <1>10, <3>1, <1>f, TrimListSafe DEF PlanStoredAll, db, world, proc,
         local, reqs, Owned, Actors
    <3> QED
      BY <1>10, <3>2, <1>f DEF PlanStoredAll, Goto, db, world, proc, local,
         reqs, Owned, Issued, DeleteSafe, Gone, Stopped
  <2>2. Control'
    BY <1>10, <1>f DEF PlanStoredAll, Goto, db, world, proc, local, reqs,
       Control, AfterSuccess, Created, Booting, PlanOnly, Here
  <2>3. Outside'
    BY <1>10, <1>f, FrameStep DEF PlanStoredAll, db, world, proc, local, reqs
  <2> QED
    BY <1>t, <2>1, <2>2, <2>3 DEF IInv
<1>11. ASSUME NEW j \in Jobs, PlanTrimmed(j) PROVE IInv'
  <2>1. Owned'
    BY <1>11, <1>f DEF PlanTrimmed, Goto, NoTrim, db, world, proc, local,
       reqs, Owned, Issued, TrimSafe, DeleteSafe, Gone, Stopped
  <2>2. Control'
    BY <1>11, <1>f DEF PlanTrimmed, Goto, db, world, proc, local, reqs,
       Control, AfterSuccess, Created, Booting, PlanOnly, Here
  <2>3. Outside'
    BY <1>11, <1>f, FrameStep DEF PlanTrimmed, db, world, proc, local, reqs
  <2> QED
    BY <1>t, <2>1, <2>2, <2>3 DEF IInv
<1>12. ASSUME NEW j \in Jobs, MarkTask(j) PROVE IInv'
  <2>1. Owned'
    BY <1>12, <1>f DEF MarkTask, Goto, db, world, proc, local, reqs, Owned,
       Issued, TrimSafe, DeleteSafe, Gone, Stopped
  <2>2. Control'
    BY <1>12, <1>f DEF MarkTask, Goto, db, world, proc, local, reqs, Control,
       AfterSuccess, Created, Booting, PlanOnly, Here
  <2>3. Outside'
    BY <1>12, <1>f, FrameStep DEF MarkTask, db, world, proc, local, reqs
  <2> QED
    BY <1>t, <2>1, <2>2, <2>3 DEF IInv
<1>13. ASSUME NEW j \in Jobs, BeginTask(j) PROVE IInv'
  <2>1. Owned'
    BY <1>13, <1>f DEF BeginTask, Goto, db, world, proc, local, reqs, Owned,
       Issued, TrimSafe, DeleteSafe, Gone, Stopped
  <2>2. Control'
    BY <1>13, <1>f DEF BeginTask, Goto, NextTask, db, world, proc, local,
       reqs, Control, AfterSuccess, Created, Booting, PlanOnly, Here
  <2>3. Outside'
    BY <1>13, <1>f, FrameStep DEF BeginTask, db, world, proc, local, reqs
  <2> QED
    BY <1>t, <2>1, <2>2, <2>3 DEF IInv
<1>14. ASSUME NEW j \in Jobs, EndOfTasks(j) PROVE IInv'
  <2>1. Owned'
    BY <1>14, <1>f DEF EndOfTasks, Goto, db, world, proc, local, reqs, Owned,
       Issued, TrimSafe, DeleteSafe, Gone, Stopped
  <2>2. Control'
    BY <1>14, <1>f DEF EndOfTasks, Goto, db, world, proc, local, reqs,
       Control, AfterSuccess, Created, Booting, PlanOnly, Here
  <2>3. Outside'
    BY <1>14, <1>f, FrameStep DEF EndOfTasks, db, world, proc, local, reqs
  <2> QED
    BY <1>t, <2>1, <2>2, <2>3 DEF IInv
<1>15. ASSUME NEW j \in Jobs, WorkPlan(j) PROVE IInv'
  <2>1. Owned'
    BY <1>15, <1>f DEF WorkPlan, Goto, db, world, proc, local, reqs, Owned,
       Issued, TrimSafe, DeleteSafe, Gone, Stopped
  <2>2. Control'
    BY <1>15, <1>f DEF WorkPlan, Goto, db, world, proc, local, reqs, Control,
       AfterSuccess, Created, Booting, PlanOnly, Here
  <2>3. Outside'
    BY <1>15, <1>f, FrameStep DEF WorkPlan, db, world, proc, local, reqs
  <2> QED
    BY <1>t, <2>1, <2>2, <2>3 DEF IInv
<1>16. ASSUME NEW j \in Jobs, WorkExec(j) PROVE IInv'
  <2>1. Owned'
    BY <1>16, <1>f DEF WorkExec, Goto, CleanupRuntime, StopContainer, db,
       world, proc, local, reqs, Owned, Issued, TrimSafe, DeleteSafe, Gone,
       Stopped
  <2>2. Control'
    <3>1. /\ pc[j] = "work" /\ cur[j] = "exec" /\ ~boot[j]
          /\ UNCHANGED <<row, inst, epoch, lost, cur, boot, ok>>
          /\ \E p \in {"finish", "taskFail"} : pc' = [pc EXCEPT ![j] = p]
          /\ rt' = [rt EXCEPT ![j] = FALSE] \/ rt' = rt
      BY <1>16 DEF WorkExec, Goto, CleanupRuntime, db, proc
    <3> QED
      BY <1>f, <3>1 DEF Control, AfterSuccess, Created, Booting, PlanOnly, Here
  <2>3. Outside'
    <3>1. /\ UNCHANGED <<row, inst, epoch, up, lost, boot>> /\ ~boot[j]
          /\ CleanupRuntime(j) \/ UNCHANGED <<ctr, dir, stuck, rt>>
          /\ lost = 0 => row[j] # "succeeded"
      BY <1>16, <1>f DEF WorkExec, db, proc, Control, AfterSuccess
    <3> QED
      BY <1>f, <3>1, FrameStep, CleanupStep
  <2> QED
    BY <1>t, <2>1, <2>2, <2>3 DEF IInv
<1>17. ASSUME NEW j \in Jobs, WorkInstance(j) PROVE IInv'
  <2>1. Owned'
    BY <1>17, <1>f DEF WorkInstance, Goto, db, world, proc,
       local, reqs, Owned, Issued, TrimSafe, DeleteSafe, Gone, Stopped
  <2>2. Control'
    BY <1>17, <1>f DEF WorkInstance, Goto, db, world, proc,
       local, reqs, Control, AfterSuccess, Created, Booting, PlanOnly, Here
  <2>3. Outside'
    BY <1>17, <1>f, FrameStep, CleanupStep, RemoveDirStep, RowStep
       DEF WorkInstance, Goto, db, world, proc, local, reqs,
       Owned, Issued, Stopped, TrimSafe, DeleteSafe, Gone, Control,
       AfterSuccess
  <2> QED
    BY <1>t, <2>1, <2>2, <2>3 DEF IInv
<1>18. ASSUME NEW j \in Jobs, InsertInstance(j) PROVE IInv'
  <2>1. Owned'
    BY <1>18, <1>f DEF InsertInstance, Goto, db, world, proc, local, reqs,
       Owned, Issued, TrimSafe, DeleteSafe, Gone, Stopped
  <2>2. Control'
    BY <1>18, <1>f DEF InsertInstance, Goto, db, world, proc, local, reqs,
       Control, AfterSuccess, Created, Booting, PlanOnly, Here
  <2>3. Outside'
    <3>1. inst \subseteq inst' /\ UNCHANGED <<row, dir, ctr, stuck, epoch, up, lost, rt, boot>>
      BY <1>18 DEF InsertInstance, db, proc, local
    <3>2. SucceededUsable'
      BY <1>f, <3>1, KeepUsable DEF Outside
    <3>3. PlanCreatesNothing'
      BY <1>18, <1>f DEF InsertInstance, Outside, PlanCreatesNothing, Here, Control, PlanOnly
    <3> QED
      BY <1>f, <3>1, <3>2, <3>3 DEF Outside, HeldRuntime, PastRuns, NoLeakedRuntime, HasOwner, Here
  <2> QED
    BY <1>t, <2>1, <2>2, <2>3 DEF IInv
<1>19. ASSUME NEW j \in Jobs, FinishTask(j) PROVE IInv'
  <2>1. Owned'
    BY <1>19, <1>f DEF FinishTask, Goto, db, world, proc, local, reqs, Owned,
       Issued, TrimSafe, DeleteSafe, Gone, Stopped
  <2>2. Control'
    BY <1>19, <1>f DEF FinishTask, Goto, NextTask, db, world, proc, local,
       reqs, Control, AfterSuccess, Created, Booting, PlanOnly, Here
  <2>3. Outside'
    BY <1>19, <1>f, FrameStep DEF FinishTask, db, world, proc, local, reqs
  <2> QED
    BY <1>t, <2>1, <2>2, <2>3 DEF IInv
<1>20. ASSUME NEW j \in Jobs, FailTask(j) PROVE IInv'
  <2>1. Owned'
    BY <1>20, <1>f DEF FailTask, Goto, db, world, proc, local, reqs, Owned,
       Issued, TrimSafe, DeleteSafe, Gone, Stopped
  <2>2. Control'
    BY <1>20, <1>f DEF FailTask, Goto, db, world, proc, local, reqs, Control,
       AfterSuccess, Created, Booting, PlanOnly, Here
  <2>3. Outside'
    BY <1>20, <1>f, FrameStep DEF FailTask, db, world, proc, local, reqs
  <2> QED
    BY <1>t, <2>1, <2>2, <2>3 DEF IInv
<1>21. ASSUME NEW j \in Jobs, Succeed(j) PROVE IInv'
  <2>1. Owned'
    BY <1>21, <1>f DEF Succeed, Goto, SetFinished, SetRow, db, world, proc,
       local, reqs, Owned, Issued, TrimSafe, DeleteSafe, Gone, Stopped
  <2>2. Control'
    BY <1>21, <1>f DEF Succeed, Goto, SetFinished, SetRow, db, world, proc,
       local, reqs, Control, AfterSuccess, Created, Booting, PlanOnly, Here
  <2>3. Outside'
    <3>1. UNCHANGED <<inst, dir, ctr, stuck, epoch, up, lost, rt, boot>>
      BY <1>21 DEF Succeed, world, proc, local
    <3>2. row' = [row EXCEPT ![j] = IF @ = "absent" THEN @ ELSE "succeeded"]
      BY <1>21 DEF Succeed, SetFinished, SetRow
    <3>3. j \notin PlanOnlyJobs /\ row[j] # "absent" => Usable(j, epoch)
      BY <1>21, <1>f DEF Succeed, Control, Created, Outside, HeldRuntime, Usable, Here
    <3>4. epoch \in Epochs
      BY <1>f DEF TypeOK, TypeWorld
    <3>5. SucceededUsable'
      BY <1>f, <3>1, <3>2, <3>3, <3>4 DEF Outside, SucceededUsable, AllSucceededUsable, Usable, Epochs
    <3> QED
      BY <1>f, <3>1, <3>2, <3>5
      DEF Outside, HeldRuntime, PastRuns, NoLeakedRuntime, HasOwner, PlanCreatesNothing, Here
  <2> QED
    BY <1>t, <2>1, <2>2, <2>3 DEF IInv
<1>22. ASSUME NEW j \in Jobs, SucceedEvents(j) PROVE IInv'
  <2>1. Owned'
    <3>1. TrimList(j, j) \/ UNCHANGED trim
      BY <1>22 DEF SucceedEvents, TrimForJob
    <3>2. TrimSafe'
      BY <1>22, <3>1, <1>f, TrimListSafe DEF SucceedEvents, db, world, proc,
         local, reqs, Owned, Actors
    <3> QED
      BY <1>22, <3>2, <1>f DEF SucceedEvents, Goto, db, world, proc, local,
         reqs, Owned, Issued, DeleteSafe, Gone, Stopped
  <2>2. Control'
    BY <1>22, <1>f DEF SucceedEvents, Goto, db, world, proc, local, reqs,
       Control, AfterSuccess, Created, Booting, PlanOnly, Here
  <2>3. Outside'
    BY <1>22, <1>f, FrameStep DEF SucceedEvents, db, world, proc, local, reqs
  <2> QED
    BY <1>t, <2>1, <2>2, <2>3 DEF IInv
<1>23. ASSUME NEW j \in Jobs, FailJob(j) PROVE IInv'
  <2>1. Owned'
    BY <1>23, <1>f DEF FailJob, Goto, SetFinished, SetRow, db, world, proc,
       local, reqs, Owned, Issued, TrimSafe, DeleteSafe, Gone, Stopped
  <2>2. Control'
    BY <1>23, <1>f DEF FailJob, Goto, SetFinished, SetRow, db, world, proc,
       local, reqs, Control, AfterSuccess, Created, Booting, PlanOnly, Here
  <2>3. Outside'
    BY <1>23, <1>f, FrameStep, CleanupStep, RemoveDirStep, RowStep
       DEF FailJob, Goto, SetFinished, SetRow, db, world, proc, local, reqs,
       Owned, Issued, Stopped, TrimSafe, DeleteSafe, Gone, Control,
       AfterSuccess
  <2> QED
    BY <1>t, <2>1, <2>2, <2>3 DEF IInv
<1>24. ASSUME NEW j \in Jobs, FailEvents(j) PROVE IInv'
  <2>1. Owned'
    <3>1. TrimList(j, j) \/ UNCHANGED trim
      BY <1>24 DEF FailEvents, TrimForJob
    <3>2. TrimSafe'
      BY <1>24, <3>1, <1>f, TrimListSafe DEF FailEvents, db, world, proc,
         local, reqs, Owned, Actors
    <3> QED
      BY <1>24, <3>2, <1>f DEF FailEvents, Goto, db, world, proc, local, reqs,
         Owned, Issued, DeleteSafe, Gone, Stopped
  <2>2. Control'
    BY <1>24, <1>f DEF FailEvents, Goto, db, world, proc, local, reqs,
       Control, AfterSuccess, Created, Booting, PlanOnly, Here
  <2>3. Outside'
    BY <1>24, <1>f, FrameStep DEF FailEvents, db, world, proc, local, reqs
  <2> QED
    BY <1>t, <2>1, <2>2, <2>3 DEF IInv
<1>25. ASSUME NEW j \in Jobs, EventRefused(j) PROVE IInv'
  <2>1. Owned'
    BY <1>25, <1>f DEF EventRefused, Goto, db, world, proc, local, reqs,
       Owned, Issued, TrimSafe, DeleteSafe, Gone, Stopped
  <2>2. Control'
    <3>1. lost' # 0
      BY <1>25, <1>f DEF EventRefused, TypeOK, TypeWorld
    <3> QED
      BY <1>25, <1>f, <3>1 DEF EventRefused, Goto, db, world, local, Control, AfterSuccess,
         Created, Booting, PlanOnly, Here
  <2>3. Outside'
    <3>1. UNCHANGED <<row, inst, dir, ctr, stuck, epoch, up, rt, boot>> /\ lost' # 0
      BY <1>25, <1>f DEF EventRefused, db, world, local, TypeOK, TypeWorld
    <3>2. SucceededUsable'
      BY <3>1 DEF SucceededUsable
    <3> QED
      BY <1>f, <3>1, <3>2
      DEF Outside, HeldRuntime, PastRuns, NoLeakedRuntime, HasOwner, PlanCreatesNothing, Here
  <2> QED
    BY <1>t, <2>1, <2>2, <2>3 DEF IInv
<1>26. ASSUME NEW j \in Jobs, EndTrimmed(j) PROVE IInv'
  <2>1. Owned'
    BY <1>26, <1>f DEF EndTrimmed, Goto, db, world, proc, local, reqs, Owned,
       Issued, TrimSafe, DeleteSafe, Gone, Stopped
  <2>2. Control'
    BY <1>26, <1>f DEF EndTrimmed, Goto, db, world, proc, local, reqs,
       Control, AfterSuccess, Created, Booting, PlanOnly, Here
  <2>3. Outside'
    BY <1>26, <1>f, FrameStep DEF EndTrimmed, db, world, proc, local, reqs
  <2> QED
    BY <1>t, <2>1, <2>2, <2>3 DEF IInv
<1>27. ASSUME NEW j \in Jobs, Exit(j) PROVE IInv'
  <2>1. Owned'
    BY <1>27, <1>f DEF Exit, Goto, CleanupRuntime, StopContainer, db, world, proc, local,
       reqs, Owned, Issued, TrimSafe, DeleteSafe, Gone, Stopped
  <2>2. Control'
    BY <1>27, <1>f DEF Exit, Goto, CleanupRuntime, StopContainer, db, world, proc, local,
       reqs, Control, AfterSuccess, Created, Booting, PlanOnly, Here
  <2>3. Outside'
    <3>1. /\ UNCHANGED <<row, inst, epoch, up, lost, boot>> /\ ~boot[j]
          /\ \/ CleanupRuntime(j) /\ (lost = 0 => row[j] # "succeeded")
             \/ UNCHANGED <<ctr, dir, stuck, rt>>
      BY <1>27, <1>f DEF Exit, db, proc, Control, AfterSuccess, Booting
    <3> QED
      BY <1>f, <3>1, FrameStep, CleanupStep
  <2> QED
    BY <1>t, <2>1, <2>2, <2>3 DEF IInv
<1>28. ASSUME NEW j \in Jobs, Unregister(j) PROVE IInv'
  <2>1. Owned'
    BY <1>28, <1>f DEF Unregister, Goto, db, world, proc, local, reqs, Owned,
       Issued, TrimSafe, DeleteSafe, Gone, Stopped
  <2>2. Control'
    BY <1>28, <1>f DEF Unregister, Goto, db, world, proc, local, reqs,
       Control, AfterSuccess, Created, Booting, PlanOnly, Here
  <2>3. Outside'
    <3>1. /\ UNCHANGED <<row, inst, dir, ctr, stuck, epoch, up, lost>>
          /\ rt' = [rt EXCEPT ![j] = FALSE] /\ boot' = [boot EXCEPT ![j] = FALSE]
          /\ boot \in [Jobs -> BOOLEAN] /\ ~boot[j]
      BY <1>28, <1>f DEF Unregister, db, world, proc, TypeOK, TypeRunner, Control, Booting
    <3>2. rt[j] => Here(j) \in inst
      BY <1>28, <1>f DEF Unregister, Control, Created, PlanOnly
    <3>3. SucceededUsable'
      BY <1>f, <3>1, KeepUsable DEF Outside
    <3> QED
      BY <1>f, <3>1, <3>2, <3>3
      DEF Outside, HeldRuntime, PastRuns, NoLeakedRuntime, HasOwner, PlanCreatesNothing, Here
  <2> QED
    BY <1>t, <2>1, <2>2, <2>3 DEF IInv
<1>29. ASSUME NEW j \in Jobs, CancelLookup(j) PROVE IInv'
  <2>1. Owned'
    BY <1>29, <1>f DEF CancelLookup, Goto, db, world, proc, local, reqs,
       Owned, Issued, TrimSafe, DeleteSafe, Gone, Stopped
  <2>2. Control'
    BY <1>29, <1>f DEF CancelLookup, Goto, db, world, proc, local, reqs,
       Control, AfterSuccess, Created, Booting, PlanOnly, Here
  <2>3. Outside'
    BY <1>29, <1>f, FrameStep DEF CancelLookup, db, world, proc, local, reqs
  <2> QED
    BY <1>t, <2>1, <2>2, <2>3 DEF IInv
<1>30. ASSUME NEW j \in Jobs, NEW force \in BOOLEAN, DeleteLookup(j, force)
      PROVE  IInv'
  <2>1. Owned'
    BY <1>30, <1>f DEF DeleteLookup, Goto, db, world, proc, local, reqs,
       Owned, Issued, TrimSafe, DeleteSafe, Gone, Stopped
  <2>2. Control'
    BY <1>30, <1>f DEF DeleteLookup, Goto, db, world, proc, local, reqs,
       Control, AfterSuccess, Created, Booting, PlanOnly, Here
  <2>3. Outside'
    BY <1>30, <1>f, FrameStep DEF DeleteLookup, db, world, proc, local, reqs
  <2> QED
    BY <1>t, <2>1, <2>2, <2>3 DEF IInv
<1>31. CASE CancelRunner
  <2>1. Owned'
    BY <1>31, <1>f DEF CancelRunner, Goto, db, world, proc, local, reqs,
       Owned, Issued, TrimSafe, DeleteSafe, Gone, Stopped
  <2>2. Control'
    BY <1>31, <1>f DEF CancelRunner, Goto, db, world, proc, local, reqs,
       Control, AfterSuccess, Created, Booting, PlanOnly, Here
  <2>3. Outside'
    BY <1>31, <1>f, FrameStep DEF CancelRunner, db, world, proc, local, reqs
  <2> QED
    BY <1>t, <2>1, <2>2, <2>3 DEF IInv
<1>32. CASE CancelFail
  <2>1. Owned'
    BY <1>32, <1>f DEF CancelFail, Goto, SetFinished, SetRow, db, world, proc,
       local, reqs, Owned, Issued, TrimSafe, DeleteSafe, Gone, Stopped
  <2>2. Control'
    BY <1>32, <1>f DEF CancelFail, Goto, SetFinished, SetRow, db, world, proc,
       local, reqs, Control, AfterSuccess, Created, Booting, PlanOnly, Here
  <2>3. Outside'
    <3>1. cancel.job \in Jobs
      BY <1>32, <1>f DEF CancelFail, TypeOK, TypeReqs
    <3> QED
      BY <1>32, <1>f, <3>1, RowStep DEF CancelFail, SetFinished, SetRow, world, proc, local
  <2> QED
    BY <1>t, <2>1, <2>2, <2>3 DEF IInv
<1>33. CASE CancelEvents
  <2>1. Owned'
    <3>1. TrimList(Canceller, cancel.job) \/ UNCHANGED trim
      BY <1>33 DEF CancelEvents, TrimForJob
    <3>2. TrimSafe'
      BY <1>33, <3>1, <1>f, TrimListSafe DEF CancelEvents, db, world, proc,
         local, reqs, Owned, Actors, TypeReqs, TypeOK
    <3> QED
      BY <1>33, <3>2, <1>f DEF CancelEvents, Goto, db, world, proc, local,
         reqs, Owned, Issued, DeleteSafe, Gone, Stopped
  <2>2. Control'
    BY <1>33, <1>f DEF CancelEvents, Goto, db, world, proc, local, reqs,
       Control, AfterSuccess, Created, Booting, PlanOnly, Here
  <2>3. Outside'
    BY <1>33, <1>f, FrameStep DEF CancelEvents, db, world, proc, local, reqs
  <2> QED
    BY <1>t, <2>1, <2>2, <2>3 DEF IInv
<1>34. CASE CancelReturn
  <2>1. Owned'
    BY <1>34, <1>f DEF CancelReturn, Goto, db, world, proc, local, reqs,
       Owned, Issued, TrimSafe, DeleteSafe, Gone, Stopped
  <2>2. Control'
    BY <1>34, <1>f DEF CancelReturn, Goto, db, world, proc, local, reqs,
       Control, AfterSuccess, Created, Booting, PlanOnly, Here
  <2>3. Outside'
    BY <1>34, <1>f, FrameStep DEF CancelReturn, db, world, proc, local, reqs
  <2> QED
    BY <1>t, <2>1, <2>2, <2>3 DEF IInv
<1>35. CASE DeleteCancel
  <2>1. Owned'
    BY <1>35, <1>f DEF DeleteCancel, Goto, TypeOK, TypeReqs, db, world, proc,
       local, reqs, Owned, Issued, TrimSafe, DeleteSafe, Gone, Stopped
  <2>2. Control'
    BY <1>35, <1>f DEF DeleteCancel, Goto, db, world, proc, local, reqs,
       Control, AfterSuccess, Created, Booting, PlanOnly, Here
  <2>3. Outside'
    BY <1>35, <1>f, FrameStep DEF DeleteCancel, db, world, proc, local, reqs
  <2> QED
    BY <1>t, <2>1, <2>2, <2>3 DEF IInv
<1>36. CASE DeleteWait
  <2>1. Owned'
    BY <1>36, <1>f DEF DeleteWait, Goto, db, world, proc, local, reqs, Owned,
       Issued, TrimSafe, DeleteSafe, Gone, Stopped
  <2>2. Control'
    BY <1>36, <1>f DEF DeleteWait, Goto, db, world, proc, local, reqs,
       Control, AfterSuccess, Created, Booting, PlanOnly, Here
  <2>3. Outside'
    BY <1>36, <1>f, FrameStep DEF DeleteWait, db, world, proc, local, reqs
  <2> QED
    BY <1>t, <2>1, <2>2, <2>3 DEF IInv
<1>37. CASE DeleteRow
  <2>1. Owned'
    BY <1>37, <1>f DEF DeleteRow, Goto, DropRow, TypeOK, TypeReqs, db, world,
       proc, local, reqs, Owned, Issued, TrimSafe, DeleteSafe, Gone, Stopped
  <2>2. Control'
    BY <1>37, <1>f DEF DeleteRow, Goto, DropRow, db, world, proc, local, reqs,
       Control, AfterSuccess, Created, Booting, PlanOnly, Here
  <2>3. Outside'
    BY <1>37, <1>f, FrameStep, CleanupStep, RemoveDirStep, RowStep
       DEF DeleteRow, Goto, DropRow, db, world, proc, local, reqs, Owned,
       Issued, Stopped, TrimSafe, DeleteSafe, Gone, Control, AfterSuccess, Booting
  <2> QED
    BY <1>t, <2>1, <2>2, <2>3 DEF IInv
<1>38. CASE DeleteDir
  <2>1. Owned'
    BY <1>38, <1>f DEF DeleteDir, Goto, db, world, proc, local, reqs, Owned,
       Issued, TrimSafe, DeleteSafe, Gone, Stopped
  <2>2. Control'
    BY <1>38, <1>f DEF DeleteDir, Goto, db, world, proc, local, reqs, Control,
       AfterSuccess, Created, Booting, PlanOnly, Here
  <2>3. Outside'
    <3>1. del.job \in Jobs /\ row[del.job] = "absent"
      BY <1>38, <1>f DEF DeleteDir, TypeOK, TypeReqs, Owned, DeleteSafe, Gone
    <3> QED
      BY <1>38, <1>f, <3>1, RemoveDirStep DEF DeleteDir, db, proc, local
  <2> QED
    BY <1>t, <2>1, <2>2, <2>3 DEF IInv
<1>39. ASSUME NEW x \in Actors, TrimRow(x) PROVE IInv'
  <2>1. Owned'
    BY <1>39, <1>f DEF TrimRow, Goto, DropRow, db, world, proc, local, reqs,
       Owned, Issued, TrimSafe, DeleteSafe, Gone, Stopped
  <2>2. Control'
    BY <1>39, <1>f DEF TrimRow, Goto, DropRow, db, world, proc, local, reqs,
       Control, AfterSuccess, Created, Booting, PlanOnly, Here
  <2>3. Outside'
    <3>1. PICK k \in Jobs : row' = [row EXCEPT ![k] = "absent"]
      BY <1>39, <1>f DEF TrimRow, DropRow
    <3>2. UNCHANGED <<inst, dir, ctr, stuck, epoch, up, lost, rt, boot>>
      BY <1>39 DEF TrimRow, world, proc, local
    <3> QED
      BY <1>f, <3>1, <3>2, RowStep
  <2> QED
    BY <1>t, <2>1, <2>2, <2>3 DEF IInv
<1>40. ASSUME NEW x \in Actors, TrimDir(x) PROVE IInv'
  <2>1. Owned'
    BY <1>40, <1>f DEF TrimDir, Goto, db, world, proc, local, reqs, Owned,
       Issued, TrimSafe, DeleteSafe, Gone, Stopped
  <2>2. Control'
    BY <1>40, <1>f DEF TrimDir, Goto, db, world, proc, local, reqs, Control,
       AfterSuccess, Created, Booting, PlanOnly, Here
  <2>3. Outside'
    BY <1>40, <1>f, FrameStep, CleanupStep, RemoveDirStep, RowStep
       DEF TrimDir, Goto, db, world, proc, local, reqs, Owned, Issued,
       Stopped, TrimSafe, DeleteSafe, Gone, Control, AfterSuccess, Booting
  <2> QED
    BY <1>t, <2>1, <2>2, <2>3 DEF IInv
<1>41. CASE Crash
  <2>1. Owned'
    BY <1>41, <1>f DEF Crash, Goto, NoTrim, db, world, proc, local, reqs,
       Owned, Issued, TrimSafe, DeleteSafe, Gone, Stopped
  <2>2. Control'
    BY <1>41, <1>f DEF Crash, Goto, db, world, proc, local, reqs, Control,
       AfterSuccess, Created, Booting, PlanOnly, Here
  <2>3. Outside'
    <3>1. UNCHANGED <<row, inst, dir, ctr, epoch, lost>> /\ ~up'
      BY <1>41 DEF Crash, db, world
    <3>2. \A k \in Jobs : ~rt'[k] /\ ~boot'[k]
      BY <1>41 DEF Crash
    <3>3. SucceededUsable'
      BY <1>f, <3>1, KeepUsable DEF Outside
    <3> QED
      BY <1>f, <3>1, <3>2, <3>3
      DEF Outside, HeldRuntime, PastRuns, NoLeakedRuntime, HasOwner, PlanCreatesNothing, Here
  <2> QED
    BY <1>t, <2>1, <2>2, <2>3 DEF IInv
<1>42. CASE Recover
  <2>1. Owned'
    BY <1>42, <1>f DEF Recover, Goto, db, world, proc, local, reqs, Owned,
       Issued, TrimSafe, DeleteSafe, Gone, Stopped
  <2>2. Control'
    <3>1. /\ UNCHANGED <<row, rt, boot, ok, lost>>
          /\ \A k \in Jobs : ~rt[k] /\ ~boot[k] /\ ~ok[k]
      BY <1>42, <1>f DEF Recover, db, local, Owned, Stopped
    <3>2. \A k \in Jobs : /\ pc'[k] \in {"fail", "spawned", "idle"}
                          /\ row[k] = "succeeded" => pc'[k] = "idle"
      BY <1>42 DEF Recover
    <3> QED
      BY <1>f, <3>1, <3>2 DEF Control, AfterSuccess, Created, Booting, PlanOnly
  <2>3. Outside'
    <3>1. UNCHANGED <<row, inst, dir, ctr, stuck, lost, rt, boot>> /\ epoch' = epoch + 1
      BY <1>42 DEF Recover, db, world, local
    <3>2. \A k \in Jobs : ~rt[k] /\ ~boot[k]
      BY <1>42, <1>f DEF Recover, Owned, Stopped
    <3>3. SucceededUsable'
      BY <1>f, <3>1, KeepUsable DEF Outside
    <3>4. epoch \in Nat /\ epoch' \in Epochs /\ Epochs \subseteq Nat
      BY <1>f, <1>t, JobsAssumption DEF TypeOK, TypeWorld, Epochs
    <3>5. PastRuns' /\ \A k \in Jobs : <<k, epoch'>> \notin ctr
      BY <1>f, <3>1, <3>4 DEF Outside, PastRuns, Epochs
    <3> QED
      BY <1>f, <3>1, <3>2, <3>3, <3>5
      DEF Outside, HeldRuntime, NoLeakedRuntime, HasOwner, PlanCreatesNothing, Here
  <2> QED
    BY <1>t, <2>1, <2>2, <2>3 DEF IInv
<1>44. ASSUME NEW j \in Jobs, StartRuntime(j) PROVE IInv'
  <2>1. Owned'
    BY <1>44, <1>f DEF StartRuntime, db, proc, reqs, Owned, Issued, TrimSafe,
       DeleteSafe, Gone, Stopped
  <2>2. Control'
    BY <1>44, <1>f DEF StartRuntime, db, proc, Control, AfterSuccess, Created,
       Booting, PlanOnly, Here
  <2>3. Outside'
    BY <1>44, <1>f, StartStep DEF StartRuntime, Control, AfterSuccess, Booting
  <2> QED
    BY <1>t, <2>1, <2>2, <2>3 DEF IInv
<1>45. ASSUME NEW j \in Jobs, RuntimeStarted(j) PROVE IInv'
  <2>1. Owned'
    BY <1>45, <1>f DEF RuntimeStarted, db, proc, reqs, Owned, Issued, TrimSafe,
       DeleteSafe, Gone, Stopped
  <2>2. Control'
    BY <1>45, <1>f DEF RuntimeStarted, db, world, proc, Control, AfterSuccess,
       Created, Booting, PlanOnly, Here
  <2>3. Outside'
    BY <1>45, <1>f, StartedStep
  <2> QED
    BY <1>t, <2>1, <2>2, <2>3 DEF IInv
<1>46. ASSUME NEW j \in Jobs, StartFails(j) PROVE IInv'
  <2>1. Owned'
    BY <1>46, <1>f DEF StartFails, Goto, db, proc, reqs, Owned, Issued, TrimSafe,
       DeleteSafe, Gone, Stopped
  <2>2. Control'
    BY <1>46, <1>f DEF StartFails, Goto, db, proc, Control, AfterSuccess, Created,
       Booting, PlanOnly, Here
  <2>3. Outside'
    BY <1>46, <1>f, StartFailsStep DEF StartFails, Control, AfterSuccess, Booting
  <2> QED
    BY <1>t, <2>1, <2>2, <2>3 DEF IInv
<1>43. CASE UNCHANGED vars
  <2>1. Outside'
    BY <1>43, <1>f, FrameStep DEF vars, db, world, proc, local
  <2> QED
    BY <1>43, <1>t, <1>f, <2>1 DEF vars, db, world, proc, local, reqs, IInv,
       Owned, Issued, TrimSafe, DeleteSafe, Gone, Stopped, Control,
       AfterSuccess, Created, Booting, PlanOnly, Here
<1> QED
  BY <1>1, <1>2, <1>3, <1>4, <1>5, <1>6, <1>7, <1>8, <1>9, <1>10, <1>11,
     <1>12, <1>13, <1>14, <1>15, <1>16, <1>17, <1>18, <1>19, <1>20, <1>21,
     <1>22, <1>23, <1>24, <1>25, <1>26, <1>27, <1>28, <1>29, <1>30, <1>31,
     <1>32, <1>33, <1>34, <1>35, <1>36, <1>37, <1>38, <1>39, <1>40, <1>41,
     <1>42, <1>43, <1>44, <1>45, <1>46 DEF Next, RunnerStep, CancelStep, DeleteStep, TrimStep

\* The inductive invariant holds in the initial state.
LEMMA SafetyInit == Init => IInv
<1> SUFFICES ASSUME Init PROVE IInv
  OBVIOUS
<1>1. TypeOK
  BY TypeInit
<1>2. Owned
  BY JobsAssumption DEF Init, Empty, Owned, Issued, TrimSafe, DeleteSafe, Stopped, NoTrim
<1>3. Control
  BY JobsAssumption DEF Init, Empty, Control, AfterSuccess, Created, Booting, PlanOnly
<1>4. Outside
  BY DEF Init, Empty, Outside, HeldRuntime, PastRuns, SucceededUsable, AllSucceededUsable,
     NoLeakedRuntime, HasOwner, PlanCreatesNothing
<1> QED
  BY <1>1, <1>2, <1>3, <1>4 DEF IInv

\* The inductive invariant holds in every execution of the service.
THEOREM Inductive == Spec => []IInv
  BY SafetyInit, SafetyStep, PTL DEF Spec

\* In every execution a job whose status is succeeded has an instance row, its
\* container and its runtime directory, whatever cleanup, retention, deletion,
\* cancellation and crashes do.
THEOREM SucceededStaysUsable == Spec => []SucceededUsable
<1>1. IInv => SucceededUsable
  BY DEF IInv, Outside
<1> QED
  BY <1>1, Inductive, PTL

\* In every execution a container that the running engine has started belongs to an
\* instance, to a runner that will stop it or to a start under way, or a call to stop
\* it was made and has left it running: docker refused, or the call had the context of
\* a cancelled job.
THEOREM NothingLeaked == Spec => []NoLeakedRuntime
<1>1. IInv => NoLeakedRuntime
  BY DEF IInv, Outside
<1> QED
  BY <1>1, Inductive, PTL

\* In every execution a plan_only job creates no instance, also when the engine
\* stops and the job is recovered.
THEOREM PlanOnlyCreatesNothing == Spec => []PlanCreatesNothing
<1>1. IInv => PlanCreatesNothing
  BY DEF IInv, Outside
<1> QED
  BY <1>1, Inductive, PTL

-----------------------------------------------------------------------------
(***************************************************************************)
(* The safety part of the life cycle (module JobLifecycle), when nobody    *)
(* cancels a job: every step of the service moves the status of one job    *)
(* forward or leaves all of them alone.  The invariant says which statuses *)
(* are possible at each control point of runJob.                           *)
(***************************************************************************)
Early == {"spawned", "load", "start", "plan", "fail"}
Middle == {"store", "restore", "planTrim", "mark", "begin", "work", "insert", "finish",
           "taskFail", "succeed"}

\* The row of a job whose runner is at point p.
RowAt(j, p) ==
  /\ p \in Early => row[j] \in {"queued", "running", "absent"}
  /\ p = "plan" /\ row[j] = "queued" => cancelled[j]
  /\ p \in Middle => row[j] \in {"running", "absent"}

Forward == cancel.pc = "idle" /\ \A j \in Jobs : RowAt(j, pc[j])

\* A step that leaves rows, cancellations and identifiers alone and moves one runner.
LEMMA Passes ==
  ASSUME TypeOK, Forward, NEW j \in Jobs, NEW p, RowAt(j, p), pc' = [pc EXCEPT ![j] = p],
         UNCHANGED <<row, cancelled, cancel, used>>
  PROVE  Forward' /\ JobStatus' = JobStatus
<1>1. pc \in [Jobs -> Points]
  BY DEF TypeOK
<1>2. ASSUME NEW k \in Jobs PROVE RowAt(k, pc[k])'
  <2>1. RowAt(k, pc[k])
    BY DEF Forward
  <2>2. CASE k = j
    BY <1>1, <2>2 DEF RowAt
  <2>3. CASE k # j
    BY <1>1, <2>1, <2>3 DEF RowAt
  <2> QED BY <2>2, <2>3
<1> QED BY <1>2 DEF Forward, JobStatus

\* A step that moves no runner either.
LEMMA Stays ==
  ASSUME Forward, UNCHANGED <<pc, row, cancel, used>>,
         \A k \in Jobs : cancelled[k] => cancelled'[k]
  PROVE  Forward' /\ JobStatus' = JobStatus
BY DEF Forward, RowAt, JobStatus

\* The status of one job changes with its row.
LEMMA StatusOf ==
  ASSUME TypeOK, Issued, NEW j \in Jobs, NEW s \in RowStatus, row' = [row EXCEPT ![j] = s],
         UNCHANGED used, row[j] = "absent" => s = "absent"
  PROVE  /\ JobStatus \in [Jobs -> {"new", "queued", "running", "succeeded", "failed", "deleted"}]
         /\ row[j] # "absent" => JobStatus[j] = row[j]
         /\ row[j] = "absent" => JobStatus' = JobStatus
         /\ row[j] # "absent" =>
              JobStatus' = [JobStatus EXCEPT ![j] = IF s = "absent" THEN "deleted" ELSE s]
<1>1. row \in [Jobs -> RowStatus]
  BY DEF TypeOK, TypeDb
<1>2. \A k \in Jobs : row'[k] = IF k = j THEN s ELSE row[k]
  BY <1>1
<1>3. row[j] # "absent" => j \in used.jobs
  BY DEF Issued
<1>4. JobStatus \in [Jobs -> {"new", "queued", "running", "succeeded", "failed", "deleted"}]
  BY <1>1 DEF JobStatus, RowStatus
<1>5. row[j] # "absent" => JobStatus[j] = row[j]
  BY DEF JobStatus
<1>6. row[j] = "absent" => JobStatus' = JobStatus
  <2>1. row[j] = "absent" => row' = row
    BY <1>1
  <2> QED BY <2>1 DEF JobStatus
<1>7. ASSUME row[j] # "absent"
      PROVE  JobStatus' = [JobStatus EXCEPT ![j] = IF s = "absent" THEN "deleted" ELSE s]
  BY <1>2, <1>3, <1>7 DEF JobStatus
<1> QED BY <1>4, <1>5, <1>6, <1>7

\* The rows a runner's point allows only depend on its own job.
LEMMA RowChange ==
  ASSUME TypeOK, Forward, NEW j \in Jobs, NEW s \in RowStatus, row' = [row EXCEPT ![j] = s],
         NEW p, pc' = [pc EXCEPT ![j] = p], UNCHANGED <<cancelled, cancel>>,
         /\ p \in Early => s \in {"queued", "running", "absent"}
         /\ p = "plan" /\ s = "queued" => cancelled[j]
         /\ p \in Middle => s \in {"running", "absent"}
  PROVE  Forward'
<1>1. pc \in [Jobs -> Points] /\ row \in [Jobs -> RowStatus]
  BY DEF TypeOK, TypeDb
<1>2. ASSUME NEW k \in Jobs PROVE RowAt(k, pc[k])'
  <2>1. RowAt(k, pc[k])
    BY DEF Forward
  <2>2. CASE k = j
    BY <1>1, <2>2 DEF RowAt
  <2>3. CASE k # j
    BY <1>1, <2>1, <2>3 DEF RowAt
  <2> QED BY <2>2, <2>3
<1> QED BY <1>2 DEF Forward

\* A row that is deleted, by retention or by request: the job's status becomes deleted, or it
\* was deleted already.
LEMMA Drops ==
  ASSUME TypeOK, Issued, Forward, NEW j \in Jobs, DropRow(j), UNCHANGED <<pc, cancelled, cancel, used>>
  PROVE  Forward' /\ [Lifecycle!Next]_JobStatus
<1>1. pc \in [Jobs -> Points] /\ row \in [Jobs -> RowStatus]
  BY DEF TypeOK, TypeDb
<1>2. row' = [row EXCEPT ![j] = "absent"] /\ pc' = [pc EXCEPT ![j] = pc[j]]
  BY <1>1 DEF DropRow
<1>3. Forward'
  BY <1>2, RowChange DEF RowStatus
<1>4. CASE row[j] = "absent"
  BY <1>2, <1>3, <1>4, StatusOf DEF RowStatus
<1>5. CASE row[j] # "absent"
  <2>1. JobStatus[j] = row[j] /\ JobStatus' = [JobStatus EXCEPT ![j] = "deleted"]
    BY <1>2, <1>5, StatusOf DEF RowStatus
  <2>2. JobStatus[j] \in Lifecycle!Open \cup {"succeeded", "failed"}
    BY <1>1, <1>5, <2>1 DEF RowStatus, Lifecycle!Open
  <2>3. Lifecycle!Delete(j)
    BY <2>1, <2>2 DEF Lifecycle!Delete, Lifecycle!Move
  <2> QED BY <1>3, <2>3 DEF Lifecycle!Next
<1> QED BY <1>4, <1>5

\* Every step of a runner moves its job's status forward, or leaves it.
LEMMA RunnerForward ==
  ASSUME TypeOK, Issued, Booting, Forward, NEW j \in Jobs, RunnerStep(j)
  PROVE  Forward' /\ [Lifecycle!Next]_JobStatus
<1> USE DEF Goto
<1>t. /\ pc \in [Jobs -> Points] /\ row \in [Jobs -> RowStatus] /\ RowAt(j, pc[j])
      /\ cancelled \in [Jobs -> BOOLEAN] /\ cancel.pc = "idle"
  BY DEF TypeOK, TypeDb, TypeRunner, Forward
<1>q. ASSUME NEW p, RowAt(j, p), pc' = [pc EXCEPT ![j] = p], UNCHANGED <<row, cancelled, cancel, used>>
      PROVE  Forward' /\ [Lifecycle!Next]_JobStatus
  BY <1>q, Passes
<1>s. ASSUME UNCHANGED <<pc, row, cancelled, cancel, used>>
      PROVE  Forward' /\ [Lifecycle!Next]_JobStatus
  BY <1>s, Stays
<1>m. ASSUME pc[j] \in Middle, NEW p, p # "plan" PROVE RowAt(j, p)
  BY <1>t, <1>m DEF RowAt
<1>l. ASSUME NEW p, p \notin Early \cup Middle PROVE RowAt(j, p)
  BY <1>l DEF RowAt, Early
<1>e. ASSUME pc[j] \in Early, NEW p \in Early \ {"plan"} PROVE RowAt(j, p)
  BY <1>t, <1>e DEF RowAt, Early, Middle
<1>p. ASSUME pc[j] = "plan", ~cancelled[j], NEW p \in Middle PROVE RowAt(j, p)
  BY <1>t, <1>p DEF RowAt, Early, Middle
<1> USE DEF local, reqs, Middle, Early
<1>1. CASE RegisterRunner(j)
  <2>1. RowAt(j, "load")
    BY <1>1, <1>e DEF RegisterRunner
  <2>2. UNCHANGED <<row, cancelled, cancel, used>> /\ pc' = [pc EXCEPT ![j] = "load"]
    BY <1>1 DEF RegisterRunner, db
  <2> QED BY <1>q, <2>1, <2>2
<1>2. CASE LoadJob(j)
  <2>1. row' = row /\ cancelled' = cancelled /\ cancel' = cancel /\ used' = used /\ pc[j] = "load"
    BY <1>2 DEF LoadJob, db
  <2>2. \E p \in {"exit", "fail", "start"} : pc' = [pc EXCEPT ![j] = p]
    BY <1>2 DEF LoadJob
  <2>3. \A p \in {"exit", "fail", "start"} : RowAt(j, p)
    BY <1>e, <1>l, <2>1
  <2> QED BY <1>q, <2>1, <2>2, <2>3
<1>4. CASE PlanFresh(j)
  BY <1>4, <1>q, <1>p DEF PlanFresh
<1>5. CASE PlanDrifted(j)
  BY <1>5, <1>q, <1>p DEF PlanDrifted
<1>6. CASE PlanStored(j)
  <2>1. UNCHANGED <<row, cancelled, cancel, used>> /\ \E p \in {"mark", "begin"} : pc' = [pc EXCEPT ![j] = p]
    BY <1>6 DEF PlanStored
  <2>2. \A p \in {"mark", "begin"} : RowAt(j, p)
    BY <1>6, <1>p DEF PlanStored
  <2> QED BY <1>q, <2>1, <2>2
<1>7. CASE PlanFails(j)
  <2>1. RowAt(j, "fail")
    BY <1>7, <1>e DEF PlanFails
  <2>2. UNCHANGED <<row, cancelled, cancel, used>> /\ pc' = [pc EXCEPT ![j] = "fail"]
    BY <1>7 DEF PlanFails
  <2> QED BY <1>q, <2>1, <2>2
<1>g. ASSUME pc[j] \in Middle, UNCHANGED <<row, cancelled, cancel, used>>,
             \/ UNCHANGED pc
             \/ \E p \in Points \ {"plan"} : pc' = [pc EXCEPT ![j] = p]
      PROVE  Forward' /\ [Lifecycle!Next]_JobStatus
  BY <1>g, <1>m, <1>q, <1>s
<1> USE DEF Points
<1>8. CASE StoreTask(j)
  <2>1. UNCHANGED <<row, cancelled, cancel, used>> /\ pc[j] \in Middle
    BY <1>8 DEF StoreTask
  <2>2. UNCHANGED pc \/ pc' = [pc EXCEPT ![j] = "fail"]
    BY <1>8 DEF StoreTask
  <2> QED BY <1>g, <2>1, <2>2
<1>9. CASE PlanStoredAll(j)
  BY <1>9, <1>g DEF PlanStoredAll, db
<1>10. CASE PlanTrimmed(j)
  BY <1>10, <1>g DEF PlanTrimmed, db
<1>11. CASE MarkTask(j)
  <2>1. UNCHANGED <<row, cancelled, cancel, used>> /\ pc[j] \in Middle
    BY <1>11 DEF MarkTask
  <2>2. \/ UNCHANGED pc
        \/ \E p \in {"fail", "succeed"} : pc' = [pc EXCEPT ![j] = p]
    BY <1>11 DEF MarkTask
  <2> QED BY <1>g, <2>1, <2>2
<1>12. CASE BeginTask(j)
  <2>1. UNCHANGED <<row, cancelled, cancel, used>> /\ pc[j] \in Middle
    BY <1>12 DEF BeginTask
  <2>2. \/ UNCHANGED pc
        \/ \E p \in {"fail", "work"} : pc' = [pc EXCEPT ![j] = p]
    BY <1>12 DEF BeginTask
  <2> QED BY <1>g, <2>1, <2>2
<1>13. CASE EndOfTasks(j)
  <2>1. UNCHANGED <<row, cancelled, cancel, used>> /\ pc[j] \in Middle
    BY <1>13 DEF EndOfTasks, db
  <2>2. \E p \in {"fail", "work"} : pc' = [pc EXCEPT ![j] = p]
    BY <1>13 DEF EndOfTasks
  <2> QED BY <1>g, <2>1, <2>2
<1>14. CASE WorkPlan(j)
  BY <1>14, <1>g DEF WorkPlan, db
<1>15. CASE WorkExec(j)
  BY <1>15, <1>g DEF WorkExec, db
<1>16. CASE WorkInstance(j)
  BY <1>16, <1>g DEF WorkInstance, db
<1>17. CASE InsertInstance(j)
  <2>1. UNCHANGED <<row, cancelled, cancel, used>> /\ pc[j] \in Middle
    BY <1>17 DEF InsertInstance, db
  <2>2. \E p \in {"succeed", "finish", "taskFail"} : pc' = [pc EXCEPT ![j] = p]
    BY <1>17 DEF InsertInstance
  <2> QED BY <1>g, <2>1, <2>2
<1>18. CASE FinishTask(j)
  <2>1. UNCHANGED <<row, cancelled, cancel, used>> /\ pc[j] \in Middle
    BY <1>18 DEF FinishTask
  <2>2. \E p \in {"succeed", "begin", "fail"} : pc' = [pc EXCEPT ![j] = p]
    BY <1>18 DEF FinishTask
  <2> QED BY <1>g, <2>1, <2>2
<1>19. CASE FailTask(j)
  BY <1>19, <1>g DEF FailTask
<1>h. ASSUME UNCHANGED <<row, cancelled, cancel, used>>,
             \E p \in {"exit", "endTrim", "unreg"} : pc' = [pc EXCEPT ![j] = p]
      PROVE  Forward' /\ [Lifecycle!Next]_JobStatus
  BY <1>h, <1>l, <1>q
<1>21. CASE SucceedEvents(j)
  BY <1>21, <1>h DEF SucceedEvents, db
<1>23. CASE FailEvents(j)
  BY <1>23, <1>h DEF FailEvents, db
<1>24. CASE EventRefused(j)
  BY <1>24, <1>h DEF EventRefused, db
<1>25. CASE EndTrimmed(j)
  BY <1>25, <1>h DEF EndTrimmed, db
<1>26. CASE Exit(j)
  BY <1>26, <1>h DEF Exit, db
<1>27. CASE Unregister(j)
  <2>1. /\ UNCHANGED <<row, cancel, used>> /\ pc' = [pc EXCEPT ![j] = "idle"]
        /\ \A k \in Jobs \ {j} : cancelled'[k] = cancelled[k]
    BY <1>27, <1>t DEF Unregister, db
  <2>2. ASSUME NEW k \in Jobs PROVE RowAt(k, pc[k])'
    <3>1. RowAt(k, pc[k])
      BY DEF Forward
    <3> QED BY <1>t, <2>1, <3>1 DEF RowAt
  <2> QED BY <2>1, <2>2 DEF Forward, JobStatus
\* The steps that write the row.
<1>3. CASE StartJob(j)
  <2>0. /\ UNCHANGED <<cancelled, cancel, used>> /\ pc[j] = "start"
        /\ row[j] \in {"queued", "running", "absent"}
    BY <1>3, <1>t DEF StartJob, RowAt
  <2>1. CASE cancelled[j]
    <3>1. \A p \in {"plan", "fail"} : RowAt(j, p)
      BY <2>0, <2>1 DEF RowAt
    <3>2. row' = row /\ \E p \in {"plan", "fail"} : pc' = [pc EXCEPT ![j] = p]
      BY <1>3, <2>1 DEF StartJob
    <3> QED BY <1>q, <2>0, <3>1, <3>2
  <2>2. CASE ~cancelled[j]
    <3> DEFINE s == IF row[j] = "absent" THEN "absent" ELSE "running"
    <3>1. s \in {"absent", "running"} /\ s \in RowStatus /\ (row[j] = "absent" => s = "absent")
          /\ (row[j] # "absent" => s = "running")
      BY DEF RowStatus
    <3>2. row' = [row EXCEPT ![j] = s]
      BY <1>3, <1>t, <2>2 DEF StartJob, SetRow
    <3> HIDE DEF s
    <3>3. Forward'
      <4>1. \E p \in {"plan", "fail"} : pc' = [pc EXCEPT ![j] = p]
        BY <1>3 DEF StartJob
      <4> QED BY <2>0, <3>1, <3>2, <4>1, RowChange
    <3>4. CASE row[j] # "queued"
      <4>1. row' = row
        BY <1>t, <2>0, <3>1, <3>2, <3>4
      <4> QED BY <2>0, <3>3, <4>1 DEF JobStatus
    <3>5. CASE row[j] = "queued"
      <4>1. JobStatus[j] = "queued" /\ JobStatus' = [JobStatus EXCEPT ![j] = "running"]
        BY <2>0, <3>1, <3>2, <3>5, StatusOf
      <4>2. Lifecycle!Start(j)
        BY <4>1 DEF Lifecycle!Start, Lifecycle!Move
      <4> QED BY <3>3, <4>2 DEF Lifecycle!Next
    <3> QED BY <3>4, <3>5
  <2> QED BY <2>1, <2>2
<1>f. ASSUME NEW s \in Terminal, NEW p \in {"succEvents", "failEvents"}, SetFinished(j, s),
             pc' = [pc EXCEPT ![j] = p], UNCHANGED <<cancelled, cancel, used>>,
             row[j] \in {"running", "absent"} \/ (s = "failed" /\ row[j] = "queued")
      PROVE  Forward' /\ [Lifecycle!Next]_JobStatus
  <2> DEFINE r == IF row[j] = "absent" THEN "absent" ELSE s
  <2>1. r \in RowStatus /\ (row[j] = "absent" => r = "absent") /\ (row[j] # "absent" => r = s /\ r # "absent")
    BY DEF RowStatus, Terminal
  <2>2. row' = [row EXCEPT ![j] = r]
    BY <1>f, <1>t DEF SetFinished, SetRow
  <2> HIDE DEF r
  <2>3. Forward'
    BY <1>f, <2>1, <2>2, RowChange
  <2>4. CASE row[j] = "absent"
    BY <1>f, <2>1, <2>2, <2>3, <2>4, StatusOf
  <2>5. CASE row[j] # "absent"
    <3>1. JobStatus[j] = row[j] /\ JobStatus' = [JobStatus EXCEPT ![j] = s]
      BY <1>f, <2>1, <2>2, <2>5, StatusOf
    <3>2. Lifecycle!Fail(j) \/ Lifecycle!Finish(j)
      BY <1>f, <2>5, <3>1 DEF Lifecycle!Fail, Lifecycle!Finish, Lifecycle!Move, Lifecycle!Open, Terminal
    <3> QED BY <2>3, <3>2 DEF Lifecycle!Next, Lifecycle!End
  <2> QED BY <2>4, <2>5
<1>28. CASE StartRuntime(j)
  BY <1>28, <1>s DEF StartRuntime, db
<1>29. CASE RuntimeStarted(j)
  BY <1>29, <1>s DEF RuntimeStarted, db
<1>30. CASE StartFails(j)
  <2>1. UNCHANGED <<row, cancelled, cancel, used>> /\ pc[j] \in {"plan", "work"}
    BY <1>30 DEF StartFails, db, Booting
  <2>2. CASE pc[j] = "plan"
    <3>1. RowAt(j, "fail") /\ pc' = [pc EXCEPT ![j] = "fail"]
      BY <1>30, <1>e, <2>2 DEF StartFails
    <3> QED BY <1>q, <2>1, <3>1
  <2>3. CASE pc[j] = "work"
    <3>1. pc' = [pc EXCEPT ![j] = "taskFail"]
      BY <1>30, <2>3 DEF StartFails
    <3> QED BY <1>g, <2>1, <2>3, <3>1
  <2> QED BY <2>1, <2>2, <2>3
<1>20. CASE Succeed(j)
  BY <1>20, <1>t, <1>f DEF Succeed, RowAt, Terminal
<1>22. CASE FailJob(j)
  BY <1>22, <1>t, <1>f DEF FailJob, RowAt, Terminal
<1> QED
  BY <1>1, <1>2, <1>3, <1>4, <1>5, <1>6, <1>7, <1>8, <1>9, <1>10, <1>11, <1>12, <1>13,
     <1>14, <1>15, <1>16, <1>17, <1>18, <1>19, <1>20, <1>21, <1>22, <1>23, <1>24, <1>25,
     <1>26, <1>27, <1>28, <1>29, <1>30 DEF RunnerStep

\* When nobody cancels, every step of the service is a step of the life cycle.
LEMMA LifeStep ==
  ASSUME MaxCancels = 0, IInv, Forward, [Next]_vars
  PROVE  Forward' /\ [Lifecycle!Next]_JobStatus
<1>f. TypeOK /\ Issued /\ Booting /\ used.cancels \in Nat /\ cancel.pc = "idle"
  BY DEF IInv, Owned, Control, TypeOK, TypeReqs, Forward
<1>t. pc \in [Jobs -> Points] /\ row \in [Jobs -> RowStatus] /\ cancelled \in [Jobs -> BOOLEAN]
  BY <1>f DEF TypeOK, TypeDb, TypeRunner
<1>s. ASSUME UNCHANGED <<pc, row, cancel, used>>, \A k \in Jobs : cancelled[k] => cancelled'[k]
      PROVE  Forward' /\ [Lifecycle!Next]_JobStatus
  BY <1>s, Stays
<1>1. ASSUME NEW j \in Jobs, Submit(j) PROVE Forward' /\ [Lifecycle!Next]_JobStatus
  <2>1. /\ row' = [row EXCEPT ![j] = "queued"] /\ pc' = [pc EXCEPT ![j] = "spawned"]
        /\ UNCHANGED <<cancelled, cancel>> /\ j \notin used.jobs
        /\ used' = [used EXCEPT !.jobs = used.jobs \cup {j}]
    BY <1>1 DEF Submit, Goto, local
  <2>2. Forward'
    BY <1>f, <2>1, RowChange DEF RowStatus, Early, Middle
  <2>3. row[j] = "absent" /\ used'.jobs = used.jobs \cup {j}
    BY <1>f, <2>1 DEF Issued, TypeOK, TypeReqs
  <2>4. JobStatus[j] = "new"
    BY <2>1, <2>3 DEF JobStatus
  <2>5. JobStatus' = [JobStatus EXCEPT ![j] = "queued"]
    BY <1>t, <2>1, <2>3 DEF JobStatus
  <2>6. Lifecycle!Submit(j)
    BY <2>4, <2>5 DEF Lifecycle!Submit, Lifecycle!Move
  <2> QED BY <2>2, <2>6 DEF Lifecycle!Next
<1>2. ASSUME NEW j \in Jobs, RunnerStep(j) PROVE Forward' /\ [Lifecycle!Next]_JobStatus
  BY <1>2, <1>f, RunnerForward
<1>3. ASSUME NEW j \in Jobs, CancelLookup(j) PROVE FALSE
  BY <1>3, <1>f DEF CancelLookup
<1>4. ASSUME NEW j \in Jobs, NEW force \in BOOLEAN, DeleteLookup(j, force)
      PROVE  Forward' /\ [Lifecycle!Next]_JobStatus
  <2>1. /\ UNCHANGED <<pc, row, cancelled, cancel>> /\ used'.jobs = used.jobs
    BY <1>4, <1>f DEF DeleteLookup, db, local, TypeOK, TypeReqs
  <2> QED BY <2>1 DEF Forward, RowAt, JobStatus
<1>5. CASE CancelStep
  BY <1>5, <1>f DEF CancelStep, CancelRunner, CancelFail, CancelEvents, CancelReturn
<1>6. CASE DeleteCancel
  <2>1. UNCHANGED <<pc, row, cancel, used>>
    BY <1>6 DEF DeleteCancel, db
  <2>2. \A k \in Jobs : cancelled[k] => cancelled'[k]
    BY <1>6, <1>t DEF DeleteCancel
  <2> QED BY <1>s, <2>1, <2>2
<1>7. CASE DeleteWait
  BY <1>7, <1>s DEF DeleteWait, db, local
<1>8. CASE DeleteRow
  <2>1. del.job \in Jobs
    BY <1>8, <1>f DEF DeleteRow, TypeOK, TypeReqs
  <2> QED BY <1>8, <1>f, <2>1, Drops DEF DeleteRow, local
<1>9. CASE DeleteDir
  BY <1>9, <1>s DEF DeleteDir, db, local
<1>10. ASSUME NEW x \in Actors, TrimRow(x) PROVE Forward' /\ [Lifecycle!Next]_JobStatus
  <2>1. trim[x].todo \subseteq Jobs
    BY <1>f DEF TypeOK, TypeTrim
  <2>2. UNCHANGED <<pc, cancelled, cancel, used>> /\ \E k \in trim[x].todo : DropRow(k)
    BY <1>10 DEF TrimRow, local, reqs
  <2> QED BY <1>f, <2>1, <2>2, Drops
<1>11. ASSUME NEW x \in Actors, TrimDir(x) PROVE Forward' /\ [Lifecycle!Next]_JobStatus
  BY <1>11, <1>s DEF TrimDir, db, local, reqs
<1>12. CASE Crash
  <2>1. UNCHANGED <<row, used>> /\ cancel'.pc = "idle" /\ \A k \in Jobs : pc'[k] = "idle"
    BY <1>12 DEF Crash, db
  <2> QED BY <2>1 DEF Forward, RowAt, Early, Middle, JobStatus
<1>13. CASE Recover
  <2>1. UNCHANGED <<row, used, cancel>>
    BY <1>13 DEF Recover, db, reqs
  <2>2. \A k \in Jobs : \/ pc'[k] = "idle"
                        \/ pc'[k] \in {"fail", "spawned"} /\ row[k] \in {"queued", "running"}
    BY <1>13 DEF Recover
  <2>3. ASSUME NEW k \in Jobs PROVE RowAt(k, pc[k])'
    BY <2>1, <2>2 DEF RowAt, Early, Middle
  <2> QED BY <1>f, <2>1, <2>3 DEF Forward, JobStatus
<1>14. CASE UNCHANGED vars
  BY <1>14, <1>s DEF vars, db, local, reqs
<1> QED
  BY <1>1, <1>2, <1>3, <1>4, <1>5, <1>6, <1>7, <1>8, <1>9, <1>10, <1>11, <1>12, <1>13, <1>14
  DEF Next, DeleteStep, TrimStep

\* When nobody cancels a job, the statuses that runJob, Recover, retention and deletion write
\* implement the safety part of the abstract life cycle: a job is submitted once, its status
\* only moves forward, a terminal status is final and a deleted job stays deleted, through
\* deletions that race the runner, refused events and any number of crashes.
THEOREM LifecycleRefined ==
  MaxCancels = 0 => (Spec => Lifecycle!Init /\ [][Lifecycle!Next]_JobStatus)
<1> SUFFICES ASSUME MaxCancels = 0
             PROVE  Spec => Lifecycle!Init /\ [][Lifecycle!Next]_JobStatus
  OBVIOUS
<1>1. Init => Forward /\ Lifecycle!Init
  BY DEF Init, Empty, Forward, RowAt, Early, Middle, JobStatus, Lifecycle!Init
<1>2. IInv /\ Forward /\ [Next]_vars => Forward' /\ [Lifecycle!Next]_JobStatus
  BY LifeStep
<1> QED BY <1>1, <1>2, Inductive, PTL DEF Spec

-----------------------------------------------------------------------------
(***************************************************************************)
(* Retention, as long as no engine died and no event was refused.  A job   *)
(* that has ended without having trimmed its signature yet (ToTrim) may be *)
(* deleted before it does, so what the passes have achieved is stated of   *)
(* the settled jobs alone: one of them that MaxIdentical settled jobs of   *)
(* its signature are newer than is on the list of a pass that nothing can  *)
(* stop.  The pass after planning is not one of those: a cancelled context *)
(* ends it.                                                                *)
(***************************************************************************)
ToTrim(k) ==
  \/ pc[k] \notin {"idle", "endTrim", "exit", "unreg"}
  \/ cancel.pc = "events" /\ cancel.job = k
Settled(k) == row[k] \in Terminal /\ signed[k] /\ ~ToTrim(k)
Newer(k) == {m \in Jobs : Settled(m) /\ Signature[m] = Signature[k] /\ fin[m] > fin[k]}
Listed(k) ==
  \/ k \in trim[Canceller].todo
  \/ \E x \in Jobs : pc[x] = "endTrim" /\ k \in trim[x].todo
Undisturbed == up /\ epoch = 0 /\ lost = 0 /\ MaxIdentical > 0
Swept ==
  Undisturbed =>
    \A k \in Jobs : Settled(k) /\ Cardinality(Newer(k)) >= MaxIdentical => Listed(k)

\* Planning signs a job, nothing before it does.
SignedByPlan ==
  \A j \in Jobs :
    (epoch = 0 /\ pc[j] \in {"spawned", "load", "start"}) \/ j \notin used.jobs => ~signed[j]

\* A Cancel request has a list of its own only while it trims.
CancellerIdle == cancel.pc # "trim" => trim[Canceller] = NoTrim

\* No two jobs have finished at the same time.
FinishOrder ==
  /\ \A j \in Jobs : fin[j] <= clock /\ (row[j] \in Terminal => fin[j] > 0)
  /\ \A j, k \in Jobs : j # k /\ fin[j] = fin[k] => fin[j] = 0

RInv == SignedByPlan /\ CancellerIdle /\ FinishOrder /\ Swept

\* A finite set of jobs that is not empty has an oldest one.
LEMMA OldestJob ==
  ASSUME TypeOK, NEW S \in SUBSET Jobs, S # {}
  PROVE  \E k \in S : \A m \in S : fin[k] <= fin[m]
<1> DEFINE Older(k) == {m \in S : fin[m] < fin[k]}
           F == {Older(k) : k \in S}
<1>1. IsFiniteSet(S)
  BY JobsAssumption, FS_Subset
<1>2. F \subseteq FiniteSubsetsOf(S) /\ F # {}
  <2>1. \A k \in S : Older(k) \in SUBSET S
    OBVIOUS
  <2>2. FiniteSubsetsOf(S) = SUBSET S
    BY <1>1, FS_FiniteSubsetsOfFinite
  <2>3. F \subseteq SUBSET S /\ F # {}
    BY <2>1
  <2> QED
    BY <2>2, <2>3
<1>3. PICK U \in F : \A V \in F : <<V, U>> \notin StrictSubsetOrdering(S)
  BY <1>2, FS_StrictSubsetOrderingWellFounded, WFMin
<1>4. PICK k \in S : U = Older(k)
  BY <1>3
<1>5. \A m \in S : fin[m] \in Nat
  BY DEF TypeOK, TypeDb
<1>6. ASSUME NEW m \in S, fin[m] < fin[k] PROVE FALSE
  <2>1. Older(m) \subseteq Older(k)
    BY <1>5, <1>6
  <2>2. m \in Older(k) /\ m \notin Older(m)
    BY <1>5, <1>6
  <2>3. <<Older(m), Older(k)>> \in StrictSubsetOrdering(S)
    BY <2>1, <2>2 DEF StrictSubsetOrdering
  <2> QED
    BY <1>3, <1>4, <2>3
<1> QED
  BY <1>5, <1>6

\* When everything is quiet nothing is listed, so nothing is in excess: the oldest
\* completed job of a signature has all the others before it.
LEMMA QuietBound == TypeOK /\ RInv => RetentionBound
<1> SUFFICES ASSUME TypeOK, RInv, Quiet, epoch = 0, lost = 0, MaxIdentical > 0, NEW j \in Jobs
             PROVE  Cardinality(Completed(j)) <= MaxIdentical
  BY DEF RetentionBound
<1>1. Completed(j) \in SUBSET Jobs /\ IsFiniteSet(Completed(j))
  BY JobsAssumption, FS_Subset DEF Completed
<1>2. CASE Completed(j) = {}
  BY <1>2, FS_EmptySet, JobsAssumption
<1>3. CASE Completed(j) # {}
  <2>1. PICK k \in Completed(j) : \A m \in Completed(j) : fin[k] <= fin[m]
    BY <1>1, <1>3, OldestJob
  <2>2. \A m \in Jobs : fin[m] \in Nat
    BY DEF TypeOK, TypeDb
  <2>3. \A m \in Completed(j) : Settled(m)
    BY DEF Completed, Settled, ToTrim, Quiet
  <2>4. \A m \in Completed(j) \ {k} : fin[m] > fin[k]
    BY <1>1, <2>1, <2>2 DEF RInv, FinishOrder, Completed
  <2>5. Completed(j) \ {k} \subseteq Newer(k)
    BY <1>1, <2>3, <2>4 DEF Newer, Completed
  <2>6. IsFiniteSet(Newer(k))
    BY JobsAssumption, FS_Subset DEF Newer
  <2>7. Cardinality(Completed(j)) - 1 <= Cardinality(Newer(k))
    <3>1. Cardinality(Completed(j) \ {k}) = Cardinality(Completed(j)) - 1
      BY <1>1, <2>1, FS_RemoveElement
    <3>2. Cardinality(Completed(j) \ {k}) <= Cardinality(Newer(k))
      BY <2>5, <2>6, FS_Subset
    <3> QED
      BY <3>1, <3>2
  <2>8. ~Listed(k)
    BY DEF Quiet, TrimIdle, NoTrim, Listed, Actors
  <2>9. Cardinality(Newer(k)) < MaxIdentical
    <3>1. Cardinality(Newer(k)) \in Nat
      BY <2>6, FS_CardinalityType
    <3>2. ~(Cardinality(Newer(k)) >= MaxIdentical)
      BY <1>1, <2>1, <2>3, <2>8 DEF RInv, Swept, Undisturbed, Quiet
    <3> QED
      BY <3>1, <3>2, JobsAssumption
  <2> QED
    BY <1>1, <2>6, <2>7, <2>9, FS_CardinalityType, JobsAssumption
<1> QED
  BY <1>2, <1>3

\* Fewer settled jobs, at the same times, and nothing unlisted that still counts.
LEMMA SweptFrame ==
  ASSUME TypeOK, Swept, Undisturbed' => Undisturbed,
         Undisturbed => \A k \in Jobs : Settled(k)' => Settled(k) /\ fin'[k] = fin[k],
         Undisturbed => \A k \in Jobs : Listed(k) /\ Settled(k)' => Listed(k)'
  PROVE  Swept'
<1> SUFFICES ASSUME Undisturbed', NEW k \in Jobs, Settled(k)',
                    Cardinality(Newer(k)') >= MaxIdentical
             PROVE  Listed(k)'
  BY DEF Swept
<1>1. IsFiniteSet(Newer(k))
  BY JobsAssumption, FS_Subset DEF Newer
<1>2. Newer(k)' \subseteq Newer(k)
  BY DEF Newer
<1>3. /\ Cardinality(Newer(k)') <= Cardinality(Newer(k))
      /\ Cardinality(Newer(k)') \in Nat /\ Cardinality(Newer(k)) \in Nat
  BY <1>1, <1>2, FS_Subset, FS_CardinalityType
<1>4. Cardinality(Newer(k)) >= MaxIdentical
  BY <1>3, JobsAssumption
<1> QED
  BY <1>4 DEF Swept

\* A job that ends reads the list again, so its signature is swept whatever it was.
LEMMA SweptAgain ==
  ASSUME TypeOK, Swept, NEW x \in Actors, NEW j \in Jobs, TrimForJob(x, j),
         x = Canceller \/ pc'[x] = "endTrim",
         UNCHANGED <<row, signed, fin, epoch, up, lost>>,
         \A k \in Jobs : k # j => (ToTrim(k)' <=> ToTrim(k)),
         \A k \in Jobs : Listed(k) => Listed(k)'
  PROVE  Swept'
<1>1. CASE ~signed[j]
  <2>1. \A k \in Jobs : Settled(k)' => Settled(k) /\ fin'[k] = fin[k]
    BY <1>1 DEF Settled
  <2> QED
    BY <2>1, SweptFrame DEF Undisturbed
<1>2. CASE signed[j]
  <2> SUFFICES ASSUME Undisturbed', NEW k \in Jobs, Settled(k)',
                      Cardinality(Newer(k)') >= MaxIdentical
               PROVE  Listed(k)'
    BY DEF Swept
  <2>1. CASE Signature[k] = Signature[j]
    <3> DEFINE After == {m \in Completed(j) : fin[m] > fin[k]}
    <3>1. k \in Completed(j)
      BY <2>1 DEF Settled, Completed
    <3>2. Newer(k)' \subseteq After
      BY <2>1 DEF Newer, Settled, Completed
    <3>3. IsFiniteSet(After)
      BY JobsAssumption, FS_Subset DEF Completed
    <3>4. /\ Cardinality(Newer(k)') <= Cardinality(After)
          /\ Cardinality(Newer(k)') \in Nat /\ Cardinality(After) \in Nat
      BY <3>2, <3>3, FS_Subset, FS_CardinalityType
    <3>5. MaxIdentical > 0 /\ Cardinality(After) >= MaxIdentical
      BY <3>4, JobsAssumption DEF Undisturbed
    <3>6. k \in Excess(j)
      BY <3>1, <3>5 DEF Excess
    <3>7. trim'[x].todo = Excess(j)
      BY <1>2 DEF TrimForJob, TrimList, TypeOK, TypeTrim
    <3> QED
      BY <3>6, <3>7 DEF Listed, Actors
  <2>2. CASE Signature[k] # Signature[j]
    <3>1. Newer(k)' = Newer(k) /\ Settled(k)
      BY <2>2 DEF Newer, Settled
    <3> QED
      BY <3>1 DEF Swept, Undisturbed
  <2> QED
    BY <2>1, <2>2
<1> QED
  BY <1>1, <1>2

\* A runner that has its last pass still to make may do what it likes to its own job.
LEMMA SweptMove ==
  ASSUME TypeOK, Swept, NEW j \in Jobs, \A k \in Jobs : k # j => pc'[k] = pc[k],
         pc'[j] \notin {"idle", "endTrim", "exit", "unreg"}, pc[j] # "endTrim",
         \A k \in Jobs : k # j => row'[k] = row[k] /\ signed'[k] = signed[k] /\ fin'[k] = fin[k],
         \A x \in Actors : x # j => trim'[x] = trim[x],
         UNCHANGED <<epoch, up, lost, cancel>>
  PROVE  Swept'
<1>1. pc \in [Jobs -> Points] /\ Canceller \notin Jobs /\ Canceller \in Actors /\ Jobs \subseteq Actors
  BY JobsAssumption DEF TypeOK, Actors
<1>2. ~Settled(j)' /\ \A k \in Jobs : k # j => (Settled(k)' <=> Settled(k))
  BY <1>1 DEF Settled, ToTrim
<1>3. \A k \in Jobs : Listed(k) => Listed(k)'
  BY <1>1 DEF Listed
<1> QED
  BY <1>2, <1>3, SweptFrame DEF Undisturbed

\* The times of finishing stay apart.
LEMMA FinishOrderKept ==
  ASSUME TypeOK, FinishOrder, UNCHANGED <<fin, clock>>,
         \A k \in Jobs : row'[k] \in Terminal => row[k] \in Terminal
  PROVE  FinishOrder'
  BY DEF FinishOrder

\* A job that finishes is the last one that did.
LEMMA FinishOrderNext ==
  ASSUME TypeOK, FinishOrder, NEW j \in Jobs, NEW s, SetFinished(j, s)
  PROVE  FinishOrder'
<1>1. /\ row \in [Jobs -> RowStatus] /\ fin \in [Jobs -> Nat] /\ clock \in Nat
      /\ "absent" \notin Terminal
  BY DEF TypeOK, TypeDb, Terminal
<1>2. CASE row[j] = "absent"
  <2>1. row' = row /\ fin' = fin /\ clock' = clock + 1
    BY <1>1, <1>2 DEF SetFinished, SetRow
  <2> QED
    BY <1>1, <2>1 DEF FinishOrder
<1>3. CASE row[j] # "absent"
  <2>1. /\ row' = [row EXCEPT ![j] = s] /\ fin' = [fin EXCEPT ![j] = clock + 1]
        /\ clock' = clock + 1
    BY <1>1, <1>3 DEF SetFinished, SetRow
  <2> QED
    BY <1>1, <2>1 DEF FinishOrder
<1> QED
  BY <1>2, <1>3

\* Steps of a runner before its last pass that change neither row nor signature.
LEMMA MoveStep ==
  ASSUME TypeOK, RInv, NEW j \in Jobs, \A k \in Jobs : k # j => pc'[k] = pc[k],
         pc'[j] \notin {"idle", "endTrim", "exit", "unreg"}, pc[j] # "endTrim",
         pc'[j] \in {"spawned", "load", "start"} => pc[j] \in {"spawned", "load", "start"},
         \A x \in Actors : x # j => trim'[x] = trim[x],
         UNCHANGED <<row, signed, fin, clock, epoch, up, lost, cancel, used>>
  PROVE  RInv'
<1>1. Swept'
  BY SweptMove DEF RInv
<1>2. FinishOrder'
  BY FinishOrderKept DEF RInv
<1>3. SignedByPlan'
  BY DEF RInv, SignedByPlan
<1>4. CancellerIdle'
  BY JobsAssumption DEF RInv, CancellerIdle, Actors
<1> QED
  BY <1>1, <1>2, <1>3, <1>4 DEF RInv

\* Steps after which no more jobs count and everything listed is still listed.
LEMMA QuietStep ==
  ASSUME TypeOK, RInv, UNCHANGED <<signed, epoch, up, lost, fin, clock>>,
         \A k \in Jobs : row'[k] \in Terminal => row[k] \in Terminal,
         \A k \in Jobs : Settled(k)' => Settled(k),
         \A k \in Jobs : Listed(k) /\ Settled(k)' => Listed(k)',
         \A k \in Jobs : pc'[k] \in {"spawned", "load", "start"} =>
           pc[k] \in {"spawned", "load", "start"} \/ k \notin used.jobs,
         used.jobs \subseteq used'.jobs, CancellerIdle'
  PROVE  RInv'
<1>1. Swept'
  BY SweptFrame DEF RInv, Undisturbed
<1>2. FinishOrder'
  BY FinishOrderKept DEF RInv
<1>3. SignedByPlan'
  BY DEF RInv, SignedByPlan
<1> QED
  BY <1>1, <1>2, <1>3 DEF RInv

-----------------------------------------------------------------------------
\* Every step of the service keeps what retention has achieved.
LEMMA SweepStep == IInv /\ RInv /\ [Next]_vars => RInv'
<1> SUFFICES ASSUME IInv, RInv, [Next]_vars PROVE RInv'
  OBVIOUS
<1>f. /\ TypeOK /\ Issued /\ SignedByPlan /\ CancellerIdle /\ FinishOrder /\ Swept
      /\ row \in [Jobs -> RowStatus] /\ signed \in [Jobs -> BOOLEAN]
      /\ fin \in [Jobs -> Nat] /\ clock \in Nat /\ epoch \in Nat
      /\ pc \in [Jobs -> Points]
      /\ trim \in [Actors -> [todo : SUBSET Jobs, dir : Jobs \cup {None}]]
      /\ Canceller \notin Jobs /\ Actors = Jobs \cup {Canceller} /\ None \notin Jobs
  BY JobsAssumption DEF IInv, RInv, Owned, TypeOK, TypeDb, TypeWorld, Epochs, TypeTrim, Actors
<1>1. ASSUME NEW j \in Jobs, Submit(j) PROVE RInv'
  <2>1. /\ row' = [row EXCEPT ![j] = "queued"] /\ pc' = [pc EXCEPT ![j] = "spawned"]
        /\ j \notin used.jobs /\ used.jobs \subseteq used'.jobs /\ used' = [used EXCEPT !.jobs = @ \cup {j}]
        /\ UNCHANGED <<signed, fin, clock, epoch, up, lost, trim, cancel>>
    BY <1>1, <1>f DEF Submit, Goto, proc, TypeOK, TypeReqs
  <2>2. \A k \in Jobs : Settled(k)' => Settled(k)
    BY <1>f, <2>1 DEF Settled, ToTrim, Terminal
  <2>3. \A k \in Jobs : Listed(k) => Listed(k)'
    BY <1>f, <2>1 DEF Listed, Issued
  <2>4. CancellerIdle'
    BY <1>f, <2>1 DEF CancellerIdle
  <2>5. \A k \in Jobs : row'[k] \in Terminal => row[k] \in Terminal
    BY <1>f, <2>1 DEF Terminal
  <2> QED
    BY <1>f, <2>1, <2>2, <2>3, <2>4, <2>5, QuietStep
<1>2. ASSUME NEW j \in Jobs, RegisterRunner(j) PROVE RInv'
  BY <1>2, <1>f, MoveStep DEF RegisterRunner, Goto, db, proc, reqs
<1>3. ASSUME NEW j \in Jobs, LoadJob(j) PROVE RInv'
  <2>1. /\ pc[j] = "load" /\ UNCHANGED <<row, signed, fin, clock, epoch, up, lost, trim, cancel, used>>
        /\ \E p \in {"exit", "fail", "start"} : pc' = [pc EXCEPT ![j] = p]
    BY <1>3 DEF LoadJob, Goto, db, proc, reqs
  <2>2. CASE pc'[j] # "exit"
    BY <1>f, <2>1, <2>2, MoveStep
  <2>3. CASE pc'[j] = "exit"
    <3>1. epoch = 0 => ~signed[j]
      BY <1>f, <2>1 DEF SignedByPlan
    <3>2. Undisturbed => \A k \in Jobs : Settled(k)' => Settled(k) /\ fin'[k] = fin[k]
      BY <1>f, <2>1, <3>1 DEF Settled, ToTrim, Undisturbed
    <3>3. \A k \in Jobs : Listed(k) => Listed(k)'
      BY <1>f, <2>1 DEF Listed
    <3>4. Swept'
      BY <1>f, <2>1, <3>2, <3>3, SweptFrame DEF Undisturbed
    <3>5. SignedByPlan' /\ CancellerIdle' /\ FinishOrder'
      BY <1>f, <2>1, <2>3, FinishOrderKept DEF SignedByPlan, CancellerIdle
    <3> QED
      BY <3>4, <3>5 DEF RInv
  <2> QED
    BY <2>2, <2>3
<1>4. ASSUME NEW j \in Jobs, StartJob(j) PROVE RInv'
  <2>1. /\ row' = row \/ row' = [row EXCEPT ![j] = IF @ = "absent" THEN @ ELSE "running"]
        /\ pc[j] = "start" /\ UNCHANGED <<signed, fin, clock, epoch, up, lost, trim, cancel, used>>
        /\ \E p \in {"plan", "fail"} : pc' = [pc EXCEPT ![j] = p]
    BY <1>4 DEF StartJob, SetRow, Goto, proc, reqs
  <2>2. Swept'
    BY <1>f, <2>1, SweptMove
  <2>3. FinishOrder'
    BY <1>f, <2>1, FinishOrderKept DEF Terminal
  <2>4. SignedByPlan' /\ CancellerIdle'
    BY <1>f, <2>1 DEF SignedByPlan, CancellerIdle
  <2> QED
    BY <2>2, <2>3, <2>4 DEF RInv
<1>5. ASSUME NEW j \in Jobs, PlanFresh(j) \/ PlanDrifted(j) \/ PlanFails(j) PROVE RInv'
  <2>1. /\ pc[j] = "plan" /\ UNCHANGED <<row, fin, clock, epoch, up, lost, trim, cancel, used>>
        /\ \E p \in {"store", "restore", "fail"} : pc' = [pc EXCEPT ![j] = p]
        /\ \E b : signed' = [signed EXCEPT ![j] = b]
    BY <1>5 DEF PlanFresh, PlanDrifted, PlanFails, Goto, proc, reqs
  <2>2. Swept'
    BY <1>f, <2>1, SweptMove
  <2>3. FinishOrder'
    BY <1>f, <2>1, FinishOrderKept
  <2>4. SignedByPlan' /\ CancellerIdle'
    BY <1>f, <2>1 DEF SignedByPlan, CancellerIdle, Issued
  <2> QED
    BY <2>2, <2>3, <2>4 DEF RInv
<1>6. ASSUME NEW j \in Jobs, PlanStored(j) PROVE RInv'
  BY <1>6, <1>f, MoveStep DEF PlanStored, Goto, proc, reqs
<1>7. ASSUME NEW j \in Jobs, StoreTask(j) PROVE RInv'
  BY <1>7, <1>f, MoveStep DEF StoreTask, Goto, proc, reqs
<1>8. ASSUME NEW j \in Jobs, PlanStoredAll(j) PROVE RInv'
  BY <1>8, <1>f, MoveStep DEF PlanStoredAll, TrimList, Goto, db, proc, reqs
<1>9. ASSUME NEW j \in Jobs, PlanTrimmed(j) PROVE RInv'
  BY <1>9, <1>f, MoveStep DEF PlanTrimmed, Goto, db, proc, reqs
<1>10. ASSUME NEW j \in Jobs, MarkTask(j) PROVE RInv'
  BY <1>10, <1>f, MoveStep DEF MarkTask, Goto, proc, reqs
<1>11. ASSUME NEW j \in Jobs, BeginTask(j) PROVE RInv'
  <2>1. /\ pc[j] = "begin" /\ UNCHANGED <<row, signed, fin, clock, epoch, up, lost, trim, cancel, used>>
        /\ \E p \in {"fail", "begin", "work"} : pc' = [pc EXCEPT ![j] = p]
    BY <1>11, <1>f DEF BeginTask, Goto, proc, reqs
  <2> QED
    BY <1>f, <2>1, MoveStep
<1>12. ASSUME NEW j \in Jobs, EndOfTasks(j) \/ WorkPlan(j) \/ WorkExec(j) \/ WorkInstance(j) PROVE RInv'
  <2>1. /\ pc[j] \in {"begin", "work"}
        /\ UNCHANGED <<row, signed, fin, clock, epoch, up, lost, trim, cancel, used>>
        /\ \E p \in {"fail", "work", "finish", "taskFail", "insert"} : pc' = [pc EXCEPT ![j] = p]
    BY <1>12 DEF EndOfTasks, WorkPlan, WorkExec, WorkInstance, Goto, db, proc, reqs
  <2> QED
    BY <1>f, <2>1, MoveStep
<1>13. ASSUME NEW j \in Jobs, InsertInstance(j) \/ FinishTask(j) \/ FailTask(j) PROVE RInv'
  <2>1. /\ pc[j] \in {"insert", "finish", "taskFail"}
        /\ UNCHANGED <<row, signed, fin, clock, epoch, up, lost, trim, cancel, used>>
        /\ \E p \in {"fail", "finish", "succeed", "begin", "taskFail"} : pc' = [pc EXCEPT ![j] = p]
    BY <1>13 DEF InsertInstance, FinishTask, FailTask, Goto, db, proc, reqs
  <2> QED
    BY <1>f, <2>1, MoveStep
<1>14. ASSUME NEW j \in Jobs, Succeed(j) \/ FailJob(j) PROVE RInv'
  <2>1. /\ pc[j] \in {"succeed", "fail"} /\ UNCHANGED <<signed, epoch, up, lost, trim, cancel, used>>
        /\ \E p \in {"succEvents", "failEvents"} : pc' = [pc EXCEPT ![j] = p]
        /\ \E s : SetFinished(j, s)
    BY <1>14 DEF Succeed, FailJob, Goto, proc, reqs
  <2>2. Swept'
    BY <1>f, <2>1, SweptMove DEF SetFinished, SetRow
  <2>3. FinishOrder'
    BY <1>f, <2>1, FinishOrderNext
  <2>4. SignedByPlan' /\ CancellerIdle'
    BY <1>f, <2>1 DEF SignedByPlan, CancellerIdle
  <2> QED
    BY <2>2, <2>3, <2>4 DEF RInv
<1>15. ASSUME NEW j \in Jobs, SucceedEvents(j) \/ FailEvents(j) PROVE RInv'
  <2>1. /\ pc[j] \in {"succEvents", "failEvents"}
        /\ UNCHANGED <<row, signed, fin, clock, epoch, up, lost, cancel, used>>
        /\ \/ row[j] = "absent" /\ pc' = [pc EXCEPT ![j] = "exit"] /\ trim' = trim
           \/ TrimForJob(j, j) /\ pc' = [pc EXCEPT ![j] = "endTrim"]
    BY <1>15 DEF SucceedEvents, FailEvents, Goto, db, proc, reqs
  <2>2. Swept'
    <3>1. CASE row[j] = "absent" /\ pc' = [pc EXCEPT ![j] = "exit"] /\ trim' = trim
      <4>1. \A k \in Jobs : Settled(k)' => Settled(k) /\ fin'[k] = fin[k]
        BY <1>f, <2>1, <3>1 DEF Settled, ToTrim, Terminal
      <4>2. \A k \in Jobs : Listed(k) => Listed(k)'
        BY <1>f, <2>1, <3>1 DEF Listed
      <4> QED
        BY <1>f, <2>1, <4>1, <4>2, SweptFrame DEF Undisturbed
    <3>2. CASE TrimForJob(j, j) /\ pc' = [pc EXCEPT ![j] = "endTrim"]
      <4>1. \A k \in Jobs : k # j => (ToTrim(k)' <=> ToTrim(k))
        BY <1>f, <2>1, <3>2 DEF ToTrim
      <4>2. \A k \in Jobs : Listed(k) => Listed(k)'
        BY <1>f, <2>1, <3>2 DEF Listed, TrimForJob, TrimList
      <4> QED
        BY <1>f, <2>1, <3>2, <4>1, <4>2, SweptAgain
    <3> QED
      BY <2>1, <3>1, <3>2
  <2>3. FinishOrder'
    BY <1>f, <2>1, FinishOrderKept
  <2>4. SignedByPlan'
    BY <1>f, <2>1 DEF SignedByPlan
  <2>5. CancellerIdle'
    BY <1>f, <2>1 DEF CancellerIdle, TrimForJob, TrimList
  <2> QED
    BY <2>2, <2>3, <2>4, <2>5 DEF RInv
<1>16. ASSUME NEW j \in Jobs, EventRefused(j) PROVE RInv'
  <2>1. /\ UNCHANGED <<row, signed, fin, clock, epoch, trim, cancel, used>>
        /\ lost' # 0 /\ pc' = [pc EXCEPT ![j] = "exit"]
    BY <1>16, <1>f DEF EventRefused, Goto, db, reqs, TypeOK, TypeWorld
  <2>2. Swept'
    BY <2>1 DEF Swept, Undisturbed
  <2>3. FinishOrder' /\ SignedByPlan' /\ CancellerIdle'
    BY <1>f, <2>1, FinishOrderKept DEF SignedByPlan, CancellerIdle
  <2> QED
    BY <2>2, <2>3 DEF RInv
<1>17. ASSUME NEW j \in Jobs, EndTrimmed(j) \/ Exit(j) \/ Unregister(j) PROVE RInv'
  <2>1. /\ pc[j] \in {"endTrim", "exit", "unreg"} /\ (pc[j] = "endTrim" => trim[j] = NoTrim)
        /\ UNCHANGED <<row, signed, fin, clock, epoch, up, lost, trim, cancel, used>>
        /\ \E p \in {"exit", "unreg", "idle"} : pc' = [pc EXCEPT ![j] = p]
    BY <1>17 DEF EndTrimmed, TrimIdle, Exit, Unregister, Goto, db, proc, reqs
  <2>2. \A k \in Jobs : Settled(k)' => Settled(k)
    BY <1>f, <2>1 DEF Settled, ToTrim
  <2>3. \A k \in Jobs : Listed(k) => Listed(k)'
    BY <1>f, <2>1 DEF Listed, NoTrim
  <2>4. CancellerIdle' /\ \A k \in Jobs : pc'[k] \in {"spawned", "load", "start"} => pc[k] = pc'[k]
    BY <1>f, <2>1 DEF CancellerIdle
  <2> QED
    BY <1>f, <2>1, <2>2, <2>3, <2>4, QuietStep
<1>18. ASSUME NEW j \in Jobs, CancelLookup(j) PROVE RInv'
  <2>1. /\ UNCHANGED <<row, signed, fin, clock, epoch, up, lost, trim, pc>> /\ used'.jobs = used.jobs
        /\ cancel.pc = "idle" /\ cancel'.pc = "runner"
    BY <1>18, <1>f DEF CancelLookup, db, proc, TypeOK, TypeReqs
  <2>2. \A k \in Jobs : (Settled(k)' => Settled(k)) /\ (Listed(k) => Listed(k)')
    BY <1>f, <2>1 DEF Settled, ToTrim, Listed
  <2>3. CancellerIdle'
    BY <1>f, <2>1 DEF CancellerIdle
  <2> QED
    BY <1>f, <2>1, <2>2, <2>3, QuietStep
<1>19. ASSUME CancelRunner \/ CancelReturn PROVE RInv'
  <2>1. /\ UNCHANGED <<row, signed, fin, clock, epoch, up, lost, trim, pc, used>>
        /\ cancel.pc \in {"runner", "trim"} /\ cancel'.pc \in {"idle", "fail"}
        /\ cancel.pc = "trim" => trim[Canceller] = NoTrim
    BY <1>19, <1>f DEF CancelRunner, CancelReturn, TrimIdle, db, proc, TypeOK, TypeReqs
  <2>2. \A k \in Jobs : (Settled(k)' => Settled(k)) /\ (Listed(k) => Listed(k)')
    BY <1>f, <2>1 DEF Settled, ToTrim, Listed
  <2>3. CancellerIdle'
    BY <1>f, <2>1 DEF CancellerIdle
  <2> QED
    BY <1>f, <2>1, <2>2, <2>3, QuietStep
<1>20. ASSUME CancelFail PROVE RInv'
  <2>1. cancel.pc = "fail" /\ cancel.job \in Jobs /\ cancel' = [cancel EXCEPT !.pc = "events"]
    BY <1>20, <1>f DEF CancelFail, TypeOK, TypeReqs
  <2>2. /\ SetFinished(cancel.job, "failed") /\ cancel'.pc = "events" /\ cancel'.job = cancel.job
        /\ UNCHANGED <<signed, epoch, up, lost, trim, pc, used>>
    BY <1>20, <1>f DEF CancelFail, proc, TypeOK, TypeReqs
  <2>3. \A k \in Jobs : k # cancel.job => row'[k] = row[k] /\ fin'[k] = fin[k]
    BY <1>f, <2>1, <2>2 DEF SetFinished, SetRow
  <2>4. \A k \in Jobs : Settled(k)' => Settled(k) /\ fin'[k] = fin[k]
    BY <1>f, <2>1, <2>2, <2>3 DEF Settled, ToTrim
  <2>5. \A k \in Jobs : Listed(k) => Listed(k)'
    BY <2>2 DEF Listed
  <2>6. Swept'
    BY <1>f, <2>2, <2>4, <2>5, SweptFrame DEF Undisturbed
  <2>7. FinishOrder'
    BY <1>f, <2>1, <2>2, FinishOrderNext
  <2>8. SignedByPlan' /\ CancellerIdle'
    BY <1>f, <2>1, <2>2 DEF SignedByPlan, CancellerIdle
  <2> QED
    BY <2>6, <2>7, <2>8 DEF RInv
<1>21. ASSUME CancelEvents PROVE RInv'
  <2>1. /\ cancel.pc = "events" /\ cancel.job \in Jobs /\ cancel'.pc = "trim"
        /\ TrimForJob(Canceller, cancel.job)
        /\ UNCHANGED <<row, signed, fin, clock, epoch, up, lost, pc, used>>
    BY <1>21, <1>f DEF CancelEvents, db, proc, TypeOK, TypeReqs
  <2>2. \A k \in Jobs : k # cancel.job => (ToTrim(k)' <=> ToTrim(k))
    BY <1>f, <2>1 DEF ToTrim
  <2>3. \A k \in Jobs : Listed(k) => Listed(k)'
    <3>1. trim[Canceller].todo = {} /\ \A x \in Jobs : trim'[x] = trim[x]
      BY <1>f, <2>1 DEF CancellerIdle, NoTrim, TrimForJob, TrimList
    <3> QED
      BY <2>1, <3>1 DEF Listed
  <2>4. Swept'
    BY <1>f, <2>1, <2>2, <2>3, SweptAgain
  <2>5. FinishOrder' /\ SignedByPlan' /\ CancellerIdle'
    BY <1>f, <2>1, FinishOrderKept DEF SignedByPlan, CancellerIdle
  <2> QED
    BY <2>4, <2>5 DEF RInv
<1>22. ASSUME NEW j \in Jobs, NEW force \in BOOLEAN, DeleteLookup(j, force) PROVE RInv'
  <2>1. UNCHANGED <<row, signed, fin, clock, epoch, up, lost, trim, cancel, pc>> /\ used'.jobs = used.jobs
    BY <1>22, <1>f DEF DeleteLookup, db, proc, TypeOK, TypeReqs
  <2>2. \A k \in Jobs : (Settled(k)' => Settled(k)) /\ (Listed(k) => Listed(k)')
    BY <2>1 DEF Settled, ToTrim, Listed
  <2>3. CancellerIdle'
    BY <1>f, <2>1 DEF CancellerIdle
  <2> QED
    BY <1>f, <2>1, <2>2, <2>3, QuietStep
<1>23. ASSUME DeleteCancel \/ DeleteWait \/ DeleteDir \/ UNCHANGED vars PROVE RInv'
  <2>1. UNCHANGED <<row, signed, fin, clock, epoch, up, lost, trim, cancel, pc, used>>
    BY <1>23 DEF DeleteCancel, DeleteWait, DeleteDir, db, proc, vars, reqs
  <2>2. \A k \in Jobs : (Settled(k)' => Settled(k)) /\ (Listed(k) => Listed(k)')
    BY <2>1 DEF Settled, ToTrim, Listed
  <2>3. CancellerIdle'
    BY <1>f, <2>1 DEF CancellerIdle
  <2> QED
    BY <1>f, <2>1, <2>2, <2>3, QuietStep
<1>24. ASSUME DeleteRow \/ \E x \in Actors : TrimRow(x) PROVE RInv'
  <2>1. PICK k \in Jobs :
          /\ DropRow(k) /\ UNCHANGED <<fin, clock, epoch, up, lost, pc, cancel, used>>
          /\ \A x \in Actors : \A m \in trim[x].todo : m # k => m \in trim'[x].todo
          /\ trim'[Canceller] # trim[Canceller] => cancel.pc = "trim"
    <3>1. CASE DeleteRow
      BY <3>1, <1>f DEF DeleteRow, proc, TypeOK, TypeReqs
    <3>2. ASSUME NEW x \in Actors, TrimRow(x)
          PROVE  \E k \in Jobs :
            /\ DropRow(k) /\ UNCHANGED <<fin, clock, epoch, up, lost, pc, cancel, used>>
            /\ \A y \in Actors : \A m \in trim[y].todo : m # k => m \in trim'[y].todo
            /\ trim'[Canceller] # trim[Canceller] => cancel.pc = "trim"
      <4>1. PICK k \in trim[x].todo :
              DropRow(k) /\ trim' = [trim EXCEPT ![x] = [todo |-> trim[x].todo \ {k}, dir |-> k]]
        BY <3>2, <1>f DEF TrimRow
      <4>2. k \in Jobs /\ UNCHANGED <<fin, clock, epoch, up, lost, pc, cancel, used>>
        BY <3>2, <4>1, <1>f DEF TrimRow, proc, reqs
      <4>3. \A y \in Actors : \A m \in trim[y].todo : m # k => m \in trim'[y].todo
        BY <4>1, <1>f
      <4>4. trim'[Canceller] # trim[Canceller] => cancel.pc = "trim"
        BY <4>1, <1>f DEF CancellerIdle, NoTrim
      <4> QED
        BY <4>1, <4>2, <4>3, <4>4
    <3> QED
      BY <1>24, <3>1, <3>2
  <2>2. row' = [row EXCEPT ![k] = "absent"] /\ signed' = [signed EXCEPT ![k] = FALSE]
    BY <2>1 DEF DropRow
  <2>3. ~Settled(k)' /\ \A m \in Jobs : Settled(m)' => Settled(m) /\ fin'[m] = fin[m]
    BY <1>f, <2>1, <2>2 DEF Settled, ToTrim, Terminal
  <2>4. \A m \in Jobs : Listed(m) /\ m # k => Listed(m)'
    BY <1>f, <2>1 DEF Listed
  <2>5. Swept'
    BY <1>f, <2>1, <2>3, <2>4, SweptFrame DEF Undisturbed
  <2>6. FinishOrder'
    BY <1>f, <2>1, <2>2, FinishOrderKept DEF Terminal
  <2>7. SignedByPlan' /\ CancellerIdle'
    BY <1>f, <2>1, <2>2 DEF SignedByPlan, CancellerIdle
  <2> QED
    BY <2>5, <2>6, <2>7 DEF RInv
<1>25. ASSUME NEW x \in Actors, TrimDir(x) PROVE RInv'
  <2>1. /\ UNCHANGED <<row, signed, fin, clock, epoch, up, lost, cancel, pc, used>>
        /\ trim[x].dir # None /\ trim' = [trim EXCEPT ![x].dir = None]
    BY <1>25 DEF TrimDir, db, proc, reqs
  <2>2. \A y \in Actors : trim'[y].todo = trim[y].todo
    BY <1>f, <2>1
  <2>3. \A k \in Jobs : (Settled(k)' => Settled(k)) /\ (Listed(k) => Listed(k)')
    BY <1>f, <2>1, <2>2 DEF Settled, ToTrim, Listed
  <2>4. CancellerIdle'
    <3>1. trim[Canceller] = NoTrim => x # Canceller
      BY <2>1 DEF NoTrim
    <3>2. x # Canceller => trim'[Canceller] = trim[Canceller]
      BY <1>f, <2>1
    <3> QED
      BY <1>f, <2>1, <3>1, <3>2 DEF CancellerIdle
  <2> QED
    BY <1>f, <2>1, <2>3, <2>4, QuietStep
<1>26. ASSUME Crash PROVE RInv'
  <2>1. /\ UNCHANGED <<row, signed, fin, clock, epoch, used>> /\ ~up'
        /\ \A k \in Jobs : pc'[k] = "idle"
        /\ trim'[Canceller] = NoTrim
    BY <1>26, <1>f DEF Crash, db
  <2>2. Swept'
    BY <2>1 DEF Swept, Undisturbed
  <2>3. FinishOrder' /\ SignedByPlan' /\ CancellerIdle'
    BY <1>f, <2>1, FinishOrderKept DEF SignedByPlan, CancellerIdle
  <2> QED
    BY <2>2, <2>3 DEF RInv
<1>27. ASSUME Recover PROVE RInv'
  <2>1. UNCHANGED <<row, signed, fin, clock, trim, cancel, used>> /\ epoch' # 0
    BY <1>27, <1>f DEF Recover, db, reqs
  <2>2. Swept'
    BY <2>1 DEF Swept, Undisturbed
  <2>3. FinishOrder' /\ SignedByPlan' /\ CancellerIdle'
    BY <1>f, <2>1, FinishOrderKept DEF SignedByPlan, CancellerIdle
  <2> QED
    BY <2>2, <2>3 DEF RInv
<1>28. ASSUME NEW j \in Jobs, StartRuntime(j) \/ RuntimeStarted(j) \/ StartFails(j) PROVE RInv'
  <2>1. /\ pc[j] \in {"plan", "work"}
        /\ UNCHANGED <<row, signed, fin, clock, epoch, up, lost, trim, cancel, used>>
        /\ \E p \in {"plan", "work", "fail", "taskFail"} : pc' = [pc EXCEPT ![j] = p]
    BY <1>28, <1>f DEF StartRuntime, RuntimeStarted, StartFails, Goto, db, proc, reqs, IInv,
       Control, Booting
  <2> QED
    BY <1>f, <2>1, MoveStep
<1> QED
  BY <1>1, <1>2, <1>3, <1>4, <1>5, <1>6, <1>7, <1>8, <1>9, <1>10, <1>11, <1>12, <1>13,
     <1>14, <1>15, <1>16, <1>17, <1>18, <1>19, <1>20, <1>21, <1>22, <1>23, <1>24, <1>25,
     <1>26, <1>27, <1>28 DEF Next, RunnerStep, CancelStep, DeleteStep, TrimStep

\* Nothing has been submitted in the initial state.
LEMMA SweepInit == Init => RInv
<1> SUFFICES ASSUME Init PROVE RInv
  OBVIOUS
<1>1. SignedByPlan /\ CancellerIdle /\ FinishOrder
  BY JobsAssumption DEF Init, Empty, SignedByPlan, CancellerIdle, FinishOrder, Terminal, Actors
<1>2. Swept
  BY DEF Init, Empty, Swept, Settled, Terminal
<1> QED
  BY <1>1, <1>2 DEF RInv

\* In every execution concurrent retention passes, cancelled, interleaved with each other
\* and with deletions as they may be, leave at most MaxIdentical completed jobs of each
\* signature, once every runner and request has returned (no engine died, no event was
\* refused).
THEOREM RetentionHolds == Spec => []RetentionBound
<1>1. Spec => []RInv
  BY SweepInit, SweepStep, Inductive, PTL DEF Spec
<1>2. IInv /\ RInv => RetentionBound
  BY QuietBound DEF IInv
<1> QED
  BY <1>1, <1>2, Inductive, PTL
==============================================================================
