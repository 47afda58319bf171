\* One job, one lease of each kind, and a save that throws after it persisted.
SPECIFICATION Spec
CONSTANTS
  Jobs = {k1}
  Maintenances = {m1}
  Switches = {s1}
  Epochs = {e1}
  Revisions = {r1}
  Faults = {"kept"}
  Disturbances = {}
  None = None
  NoLease = NoLease
  NoBeat = NoBeat
  NoJob = NoJob
INVARIANTS DurableExclusion
CHECK_DEADLOCK FALSE
