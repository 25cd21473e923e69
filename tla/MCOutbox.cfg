SPECIFICATION Spec
CONSTANTS
  j = j
  a = a
  j1 = j1
  j2 = j2
  a1 = a1
  NoRun = NoRun
  Events = {1, 2}
  Workers = {j}
  Api = a
  Runs = {j1, j2, a1}
  ProcOf <- MCProcOf
  BatchSize = 2
  MaxAttempts = 2
  MaxFaults = 1
SYMMETRY MCSymmetry
INVARIANTS
  TypeOK
  OneHolderPerAttempt
  ExclusiveHolder
  TickFlag
PROPERTIES
  SettledIsFinal
  ImplementsDelivery
CHECK_DEADLOCK FALSE
