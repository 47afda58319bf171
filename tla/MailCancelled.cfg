SPECIFICATION Spec
CONSTANTS
  Operations = {o1}
  Writers = {w1}
  MaxEdits = 1
  Scenarios = {{"microsoft", "send", "restart"}}
  Outside = Outside
SYMMETRY Symmetry
INVARIANTS CancelledIsUnsent
CHECK_DEADLOCK FALSE
