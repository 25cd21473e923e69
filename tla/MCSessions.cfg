SPECIFICATION Spec
CONSTANTS
  NoUser = NoUser
  Users = {u}
  Requests = {r1, r2, r3}
  MaxSessions = 1
  MaxTokens = 3
  MaxActive = 2
SYMMETRY MCSymmetry
INVARIANTS
  TypeOK
  NoFalseAlarm
  ExchangedIsDead
  ReuseIsRevoked
PROPERTIES
  RevokedIsDead
CHECK_DEADLOCK FALSE
