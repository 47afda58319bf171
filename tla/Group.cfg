\* One child: a continuation of any phase, the hold, the close and the
\* revocation at every point; or a runtime that restarts or registers again,
\* accounts that change and a connection that drops, while its flights wait.
SPECIFICATION Spec
CONSTANTS
  Children = {c1}
  MaxAttempts = 2
  MaxLife = 2
  MaxReg = 2
  Accounts = {a1, a2}
  Disturbances = {"hold", "revoke", "close", "connect", "runtime", "register", "select"}
  NoProof = NoProof
SYMMETRY Symmetry
CONSTRAINT OneTrouble
INVARIANTS TypeOK VerdictIsTrue NoOverlap OneLineage
PROPERTIES NothingWhilePaused EachCallIsDurable SendUnderAuthority NothingUnsaid
