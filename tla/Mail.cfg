\* Three operations of two kept messages, at Gmail and at Outlook.
SPECIFICATION Spec
CONSTANTS
  Operations = {o1, o2, o3}
  Writers = {w1, w2}
  MaxEdits = 1
  Scenarios = {{"google", "draft", "send", "open", "edit", "post", "hold", "close"},
               {"microsoft", "draft", "reply", "send", "open", "files", "post", "post-files", "restart"}}
  Outside = Outside
SYMMETRY Symmetry
INVARIANTS OneSendPerWriting ReviewedIsSent OneHandPerDraft OneNextVersion
PROPERTIES WorkKeepsItsDraft EachStageIsDurable
CHECK_DEADLOCK FALSE
