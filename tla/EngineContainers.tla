--------------------------- MODULE EngineContainers ---------------------------
(***************************************************************************)
(* The two places where the engine handles containers beside each other:   *)
(* deletion and run requests over instances (Instances, extended), and the *)
(* docker commands on one data directory (ContainerRuntime).  The first    *)
(* takes a Start as what the second says of it.  A behaviour is one of     *)
(* them; r1, r2, ... hold the variables of the data directory, and in      *)
(* MCEngine those of other parts.                                          *)
(***************************************************************************)
EXTENDS Instances

CONSTANTS Containers, RuntimeFaults   \* ContainerRuntime

VARIABLES part, r1, r2, r3, r4, r5, r6, r7, r8, r9, r10, r11, r12, r13, r14, r15, r16

Runtime == INSTANCE ContainerRuntime WITH
  MaxFaults <- RuntimeFaults,
  pc <- r1, op <- r2, allowInitdb <- r3, cluster <- r4, mode <- r5, auth <- r6, running <- r7,
  inst <- r8, servers <- r9, docker <- r10, mounted <- r11, ctx <- r12, faults <- r13,
  leaked <- r14, err <- r15, snapshot <- r16

ASSUME RuntimeAssumption == RuntimeFaults \in Nat /\ Runtime!None \notin Containers

InRuntime == part = "runtime"

-----------------------------------------------------------------------------
\* A data directory, its containers and the faults of their environment keep their types,
\* and trust lines do not pile up in pg_hba.conf (ensureHostAuth).
RuntimeTypeOK == InRuntime => Runtime!TypeOK

\* A Start that fails leaves no container on the data directory that the engine does not
\* know of (docker.go:466-516), unless docker run was cut off or the Stop of the error
\* path failed.
FailedStartCleans == InRuntime => Runtime!FailedStartCleans

\* What the host copies between PrepareSnapshot and ResumeSnapshot is the directory of a
\* stopped server and readable, and the server is accepted back afterwards (postgres.go).
SnapshotSound == InRuntime => Runtime!SnapshotSound
=============================================================================
