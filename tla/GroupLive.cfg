\* One child, observed again and again; the service restarts and is held.
SPECIFICATION LiveSpec
CONSTANTS
  Children = {c1}
  MaxAttempts = 1
  MaxLife = 1
  MaxReg = 1
  Accounts = {a1}
  Disturbances = {"hold"}
  NoProof = NoProof
PROPERTIES SessionIsFound VerdictIsFound
