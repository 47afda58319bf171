CONSTANTS
  Identities = {i1}
  SignIns = {a1}
  MaxRevision = 3
  Anyone = Anyone
  Writes = {w1, w2}
  Drafts = {d1, d2}
  Events = {e1}
  Nobody = Nobody
  MaxEdits = 1
  Scenarios = {{"signin", "disconnect", "token"}, {"edit", "stop", "two"}, {"hold", "stop", "token"}}
SPECIFICATION Spec
SYMMETRY Symmetry
CHECK_DEADLOCK FALSE
INVARIANTS OneEventPerDraft OneHandPerEvent RefreshIsOwned
PROPERTIES EachWriteIsDurable WrittenUnderConsent OldConsentIsGone
