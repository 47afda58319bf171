\* One request and one operator lease, one after the other; the controller, the
\* application and the runtime die, and heartbeats, requests and answers are
\* lost or late.
SPECIFICATION BridgeLiveSpec
CONSTANTS
  Jobs = {k1}
  Maintenances = {m1}
  Switches = {}
  Epochs = {e1}
  Revisions = {r1}
  Faults = {}
  Disturbances = {"crash"}
  None = None
  NoLease = NoLease
  NoBeat = NoBeat
  NoJob = NoJob
  Dead = Dead
  NoView = NoView
CONSTRAINTS LateBeforeInstaller OneHolder
INVARIANTS NobodyWorks SuspendedIsHeld
PROPERTIES HoldEnds
CHECK_DEADLOCK FALSE
