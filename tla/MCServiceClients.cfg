SPECIFICATION Spec
CONSTANTS
  Admins = {a1, a2}
  Seeds = {d1, d2}
  Callers = {c}
  Configured = {k1, k2}
  Generated = {g1, g2}
  NoSecret = NoSecret
  MaxVersion = 3
  Window = 2
SYMMETRY MCSymmetry
INVARIANTS
  TypeOK
  OneCurrentSecret
  NoLockout
PROPERTIES
  DeadSecretStaysDead
  RotationRefusesNobody
