SPECIFICATION Spec
CONSTANTS
  NoUser = NoUser
  Users = {u}
  Requests = {r1, r2}
  MaxSessions = 1
  MaxTokens = 3
  MaxActive = 1
SYMMETRY MCSymmetry
PROPERTY TokenIsExchangedOnce
CHECK_DEADLOCK FALSE
