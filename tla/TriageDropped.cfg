\* One change of one message and its undo.
SPECIFICATION LiveSpec
CONSTANTS
  Plans = {p1}
  Messages = {m1}
  Nobody = Nobody
  MaxEdits = 0
  Scenarios = {{"archive", "delete"}}
PROPERTIES DecisionsEnd
CHECK_DEADLOCK FALSE
