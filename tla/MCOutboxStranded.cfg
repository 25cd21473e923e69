SPECIFICATION FairSpec
CONSTANTS
  j = j
  a = a
  j1 = j1
  j2 = j2
  a1 = a1
  NoRun = NoRun
  Events = {1}
  Workers = {j}
  Api = a
  Runs = {j1, a1}
  ProcOf <- MCProcOfTwo
  BatchSize = 1
  MaxAttempts = 2
  MaxFaults = 1
PROPERTY StrandedIsRecovered
CHECK_DEADLOCK FALSE
