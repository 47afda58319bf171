\* Two requests, one after the other, also where the first was never
\* acknowledged; the workspace changes epoch and the release changes under the
\* first, and the controller is stopped, dies and cannot save.
SPECIFICATION Spec
CONSTANTS
  Jobs = {k1, k2}
  Maintenances = {}
  Switches = {}
  Epochs = {e1, e2}
  Revisions = {r1, r2}
  Faults = {"kept", "lost"}
  Disturbances = {"crash", "stop", "feed", "epoch"}
  None = None
  NoLease = NoLease
  NoBeat = NoBeat
  NoJob = NoJob
SYMMETRY Symmetry
CONSTRAINT OneRequestOrOneWorld
INVARIANTS HoldCoversInstaller SettledIsTrue
PROPERTIES CancelledStays StartIsAdmitted EachInstallIsDurable
