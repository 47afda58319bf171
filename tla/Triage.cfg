\* Several plans for one message, two restores of one delete among them, with edits
\* and restarts; one plan for two messages.
SPECIFICATION Spec
CONSTANTS
  Plans = {p1, p2, p3}
  Messages = {m1, m2}
  Nobody = Nobody
  MaxEdits = 1
  Scenarios = {{"delete", "restore", "rivals", "third"}, {"delete", "restore", "rivals", "edit"},
               {"delete", "restore", "rivals", "stop"}, {"archive", "delete", "stop", "lapse"},
               {"archive", "hold", "disconnect"}}
SYMMETRY Symmetry
INVARIANTS OneHandPerMessage RestoredOnce
PROPERTIES EachStepIsDurable SentByItsOwner
CHECK_DEADLOCK FALSE
