---------------------------- MODULE MCUpdateBridge ----------------------------
(* Small instances of UpdateBridge for TLC. *)
EXTENDS UpdateBridge, TLC

\* Bound: a heartbeat that the application stopped waiting for is followed
\* until an installer is launched or an operator enters,
LateBeforeInstaller ==
  late # NoBeat =>
    /\ \A k \in Jobs : runner[k] = "none"
    /\ \A i \in Maintenances : operator.disk[i] = NoLease

\* and a request beside an operator lease only until it is installed.
OneHolder ==
  (\E k \in Jobs, i \in Maintenances : host.journal[k] # NoJob /\ operator.disk[i] # NoLease) =>
    \A k \in Jobs : runner[k] = "none"
=============================================================================
