SPECIFICATION Spec
CONSTANTS
  NoUser = NoUser
  Users = {u}
  Requests = {r1, r2}
  MaxSessions = 3
  MaxTokens = 1
  MaxActive = 2
SYMMETRY MCSymmetry
CONSTRAINT OnePresented
INVARIANTS
  SessionCap
  PrunedIsOld
CHECK_DEADLOCK FALSE
