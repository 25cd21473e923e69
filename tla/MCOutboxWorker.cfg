SPECIFICATION FairSpec
CONSTANTS
  j = j
  a = a
  j1 = j1
  j2 = j2
  a1 = a1
  NoRun = NoRun
  Events = {1, 2}
  Workers = {j}
  Api = a
  Runs = {j1}
  ProcOf <- MCProcOfWorker
  BatchSize = 2
  MaxAttempts = 2
  MaxFaults = 2
PROPERTIES
  EventSettles
  EventIsDelivered
CHECK_DEADLOCK FALSE
