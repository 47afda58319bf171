SPECIFICATION LiveSpec
CONSTANTS
  Operations = {o1, o2}
  Writers = {w1}
  MaxEdits = 1
  Scenarios = {{"microsoft", "draft", "reply", "send", "open", "files", "post-files", "connect", "close"},
               {"google", "draft", "reply", "send", "open", "edit", "post", "connect", "close"}}
  Outside = Outside
PROPERTIES RunsEnd DoubtIsSettled
CHECK_DEADLOCK FALSE
