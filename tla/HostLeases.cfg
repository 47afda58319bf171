\* One job beside an operator lease and a frontend lease.
SPECIFICATION LiveSpec
CONSTANTS
  Jobs = {k1}
  Maintenances = {m1}
  Switches = {s1}
  Epochs = {e1}
  Revisions = {r1}
  Faults = {"kept", "lost"}
  Disturbances = {"crash"}
  None = None
  NoLease = NoLease
  NoBeat = NoBeat
  NoJob = NoJob
INVARIANTS TypeOK OneAuthority StoppedIsHeld
PROPERTIES ResultIsSettled
CHECK_DEADLOCK FALSE
