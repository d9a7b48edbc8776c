----------------------- MODULE ContainerRuntimeProofs -----------------------
(***************************************************************************)
(* The theorems of ContainerRuntime, for any set of container ids and any  *)
(* number of faults of the environment: types, no second container after a *)
(* failed Start, and snapshots of a stopped server that is accepted back.  *)
(* The inductive invariant is Runtime!IInv, next to the model.             *)
(***************************************************************************)
EXTENDS EngineContainers, TLAPS

-----------------------------------------------------------------------------
\* The initial states satisfy it.
LEMMA InvInit == Runtime!Init => Runtime!IInv
  BY RuntimeAssumption DEF Runtime!Init, Runtime!IInv, Runtime!Core, Runtime!WorldTypes,
      Runtime!DirTypes, Runtime!FailedStartCleans, Runtime!SnapshotSafe,
      Runtime!ResumeAccepted, Runtime!NoContainerYet, Runtime!HasContainer,
      Runtime!ClusterFull, Runtime!SnapshotWindow

\* A step counts at most one fault, and only below the bound.
LEMMA CountStep ==
  ASSUME r13 \in 0..RuntimeFaults
  PROVE  Runtime!CanFail /\ r13' = r13 + 1 => r13' \in 0..RuntimeFaults
  BY RuntimeAssumption DEF Runtime!CanFail

\* Every docker command, every call of the connector and every fault of the
\* environment preserves what is said of containers and directory.
LEMMA CoreStep == Runtime!Core /\ [Runtime!Next]_(Runtime!vars) => Runtime!Core'
<1> SUFFICES ASSUME Runtime!Core, [Runtime!Next]_(Runtime!vars) PROVE Runtime!Core'
  OBVIOUS
<1> USE RuntimeAssumption DEF Runtime!Core, Runtime!DirTypes, Runtime!FailedStartCleans,
    Runtime!SnapshotSafe, Runtime!ResumeAccepted, Runtime!NoContainerYet,
    Runtime!HasContainer, Runtime!ClusterFull, Runtime!SnapshotWindow
<1>1. CASE Runtime!InitBase
  BY <1>1 DEF Runtime!InitBase, Runtime!data
<1>2. CASE Runtime!EnsureDataDirOwner
  BY <1>2 DEF Runtime!EnsureDataDirOwner, Runtime!Done, Runtime!Failed, Runtime!Return,
      Runtime!data
<1>3. CASE Runtime!PgVersionReady
  BY <1>3 DEF Runtime!PgVersionReady, Runtime!Done, Runtime!Failed, Runtime!Return,
      Runtime!data
<1>4. CASE Runtime!InitdbBase
  BY <1>4 DEF Runtime!InitdbBase, Runtime!Initdb_Outcomes, Runtime!Done, Runtime!Failed,
      Runtime!Return, Runtime!data
<1>5. CASE Runtime!Readable
  BY <1>5 DEF Runtime!Readable, Runtime!HostAuth, Runtime!Done, Runtime!Failed,
      Runtime!Return, Runtime!data
<1>6. CASE Runtime!Start
  BY <1>6 DEF Runtime!Start, Runtime!data
<1>7. CASE Runtime!RunContainer
  BY <1>7 DEF Runtime!RunContainer, Runtime!Done, Runtime!Failed, Runtime!Return,
      Runtime!data
<1>8. CASE Runtime!VersionInContainer
  BY <1>8 DEF Runtime!VersionInContainer, Runtime!ExecDone, Runtime!ExecFailed,
      Runtime!ToStop, Runtime!Done, Runtime!data
<1>9. CASE Runtime!InitdbInContainer
  BY <1>9 DEF Runtime!InitdbInContainer, Runtime!Initdb_Outcomes, Runtime!ExecDone,
      Runtime!ExecFailed, Runtime!Here, Runtime!ToStop, Runtime!Done, Runtime!data
<1>10. CASE Runtime!EnsureAuth
  BY <1>10 DEF Runtime!EnsureAuth, Runtime!HostAuth, Runtime!ExecDone, Runtime!ExecFailed,
      Runtime!ToStop, Runtime!Done, Runtime!data
<1>11. CASE Runtime!PgCtlStart
  BY <1>11 DEF Runtime!PgCtlStart, Runtime!Startable, Runtime!MayServe, Runtime!ExecDone,
      Runtime!ExecFailed, Runtime!Here, Runtime!ToStop, Runtime!Done, Runtime!data
<1>12. CASE Runtime!WaitForReady
  BY <1>12 DEF Runtime!WaitForReady, Runtime!ExecDone, Runtime!ExecFailed, Runtime!ToStop,
      Runtime!Done, Runtime!data
<1>13. CASE Runtime!HostPort
  BY <1>13 DEF Runtime!HostPort, Runtime!Return, Runtime!ExecFailed, Runtime!ToStop,
      Runtime!Done, Runtime!data
<1>14. CASE Runtime!StopFailed
  BY <1>14 DEF Runtime!StopFailed, Runtime!Removed, Runtime!Return, Runtime!data
<1>15. CASE Runtime!Stop
  BY <1>15 DEF Runtime!Stop, Runtime!Removed, Runtime!data
<1>16. CASE Runtime!PrepareSnapshot
  BY <1>16 DEF Runtime!PrepareSnapshot, Runtime!data
<1>17. CASE Runtime!PgCtlStop
  BY <1>17 DEF Runtime!PgCtlStop, Runtime!ConnFailed, Runtime!Return, Runtime!ExecDone,
      Runtime!Done, Runtime!data
<1>18. CASE Runtime!VerifyStopped
  BY <1>18 DEF Runtime!VerifyStopped, Runtime!ConnFailed, Runtime!Return, Runtime!ExecDone,
      Runtime!Here, Runtime!Done, Runtime!data
<1>19. CASE Runtime!RelaxHostSnapshotAccess
  BY <1>19 DEF Runtime!RelaxHostSnapshotAccess, Runtime!ConnFailed, Runtime!Return,
      Runtime!ExecDone, Runtime!Done, Runtime!data
<1>20. CASE Runtime!Copy
  BY <1>20 DEF Runtime!Copy, Runtime!data
<1>21. CASE Runtime!HardenDataDirPermissions
  BY <1>21 DEF Runtime!HardenDataDirPermissions, Runtime!ConnFailed, Runtime!Return,
      Runtime!ExecDone, Runtime!Done, Runtime!data
<1>22. CASE Runtime!ResumeSnapshot
  BY <1>22 DEF Runtime!ResumeSnapshot, Runtime!Startable, Runtime!MayServe,
      Runtime!ConnFailed, Runtime!Return, Runtime!Here, Runtime!Done, Runtime!data
<1>23. CASE Runtime!Release
  BY <1>23 DEF Runtime!Release, Runtime!data
<1>24. CASE Runtime!DaemonDown
  BY <1>24 DEF Runtime!DaemonDown, Runtime!data
<1>25. CASE Runtime!DaemonUp
  BY <1>25 DEF Runtime!DaemonUp, Runtime!data
<1>26. CASE Runtime!Killed
  BY <1>26 DEF Runtime!Killed, Runtime!Removed, Runtime!data
<1>27. CASE Runtime!MountLost
  BY <1>27 DEF Runtime!MountLost, Runtime!data
<1>28. CASE Runtime!Cancel
  BY <1>28 DEF Runtime!Cancel, Runtime!data
<1>29. CASE Runtime!NewContext
  BY <1>29 DEF Runtime!NewContext, Runtime!data
<1>30. CASE UNCHANGED Runtime!vars
  BY <1>30 DEF Runtime!vars, Runtime!data
<1> QED
  BY <1>1, <1>2, <1>3, <1>4, <1>5, <1>6, <1>7, <1>8, <1>9, <1>10, <1>11, <1>12, <1>13,
    <1>14, <1>15, <1>16, <1>17, <1>18, <1>19, <1>20, <1>21, <1>22, <1>23, <1>24, <1>25,
    <1>26, <1>27, <1>28, <1>29, <1>30 DEF Runtime!Next

\* The environment and the fault counter keep their types.
LEMMA WorldStep == Runtime!WorldTypes /\ [Runtime!Next]_(Runtime!vars) => Runtime!WorldTypes'
<1> SUFFICES ASSUME Runtime!WorldTypes, [Runtime!Next]_(Runtime!vars) PROVE Runtime!WorldTypes'
  OBVIOUS
<1> USE CountStep DEF Runtime!WorldTypes, Runtime!world
<1>1. CASE Runtime!InitBase \/ Runtime!Start \/ Runtime!PrepareSnapshot \/ Runtime!Copy \/
         Runtime!Release
  BY <1>1 DEF Runtime!InitBase, Runtime!Start, Runtime!PrepareSnapshot, Runtime!Copy,
      Runtime!Release
<1>2. CASE Runtime!EnsureDataDirOwner \/ Runtime!PgVersionReady \/ Runtime!InitdbBase \/
         Runtime!Readable \/ Runtime!RunContainer
  BY <1>2 DEF Runtime!EnsureDataDirOwner, Runtime!PgVersionReady, Runtime!InitdbBase,
      Runtime!Readable, Runtime!RunContainer, Runtime!Done, Runtime!Failed, Runtime!Remount
<1>3. CASE Runtime!VersionInContainer \/ Runtime!InitdbInContainer \/ Runtime!EnsureAuth \/
         Runtime!PgCtlStart \/ Runtime!WaitForReady \/ Runtime!HostPort
  BY <1>3 DEF Runtime!VersionInContainer, Runtime!InitdbInContainer, Runtime!EnsureAuth,
      Runtime!PgCtlStart, Runtime!WaitForReady, Runtime!HostPort, Runtime!ExecDone,
      Runtime!ExecFailed, Runtime!Fault, Runtime!Done, Runtime!Remount
<1>4. CASE Runtime!StopFailed \/ Runtime!Stop
  BY <1>4 DEF Runtime!StopFailed, Runtime!Stop
<1>5. CASE Runtime!PgCtlStop \/ Runtime!VerifyStopped \/ Runtime!RelaxHostSnapshotAccess \/
         Runtime!HardenDataDirPermissions \/ Runtime!ResumeSnapshot
  BY <1>5 DEF Runtime!PgCtlStop, Runtime!VerifyStopped, Runtime!RelaxHostSnapshotAccess,
      Runtime!HardenDataDirPermissions, Runtime!ResumeSnapshot, Runtime!ConnFailed,
      Runtime!ExecDone, Runtime!Fault, Runtime!Done, Runtime!Remount
<1>6. CASE Runtime!DaemonDown \/ Runtime!DaemonUp \/ Runtime!Killed \/ Runtime!MountLost \/
         Runtime!Cancel \/ Runtime!NewContext
  BY <1>6 DEF Runtime!DaemonDown, Runtime!DaemonUp, Runtime!Killed, Runtime!MountLost,
      Runtime!Cancel, Runtime!NewContext
<1>7. CASE UNCHANGED Runtime!vars
  BY <1>7 DEF Runtime!vars
<1> QED
  BY <1>1, <1>2, <1>3, <1>4, <1>5, <1>6, <1>7 DEF Runtime!Next

\* The invariant holds in every execution of the runtime.
LEMMA Inductive == Runtime!Spec => []Runtime!IInv
<1>1. Runtime!IInv /\ [Runtime!Next]_(Runtime!vars) => Runtime!IInv'
  BY CoreStep, WorldStep DEF Runtime!IInv
<1> QED
  BY <1>1, InvInit, PTL DEF Runtime!Spec

-----------------------------------------------------------------------------
\* Every variable of the runtime keeps its type, and no server runs outside a
\* running container.
THEOREM RuntimeTypes == Runtime!Spec => []RuntimeTypeOK
<1>1. Runtime!IInv => RuntimeTypeOK
  BY DEF RuntimeTypeOK, Runtime!TypeOK, Runtime!IInv, Runtime!Core, Runtime!WorldTypes,
      Runtime!DirTypes
<1> QED
  BY <1>1, Inductive, PTL

\* In every execution a Start that fails leaves no container on the data directory
\* that the engine does not know of, unless its removal failed or docker run was
\* cut off.
THEOREM StartCleansUp == Runtime!Spec => []FailedStartCleans
<1>1. Runtime!IInv => FailedStartCleans
  BY DEF FailedStartCleans, Runtime!FailedStartCleans, Runtime!IInv, Runtime!Core
<1> QED
  BY <1>1, Inductive, PTL

\* In every execution the copy that the host takes is readable and, without a leaked
\* container, of a stopped server; and the server is not refused afterwards for
\* the permissions the copy needed or for an incomplete cluster.
THEOREM SnapshotsAreSafe == Runtime!Spec => []SnapshotSound
<1>1. Runtime!IInv => SnapshotSound
  BY DEF SnapshotSound, Runtime!SnapshotSound, Runtime!IInv, Runtime!Core
<1> QED
  BY <1>1, Inductive, PTL
=============================================================================
