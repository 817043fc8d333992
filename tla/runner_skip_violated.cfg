CONSTANTS
  Jobs = {j1}
  RunIds = {r1, r2}
  Workers = {w1, w2}
  JobConfigs <- SkipShell
  RetryDelays <- NextSecond
  Faults = {}
  MaxNow = 1
  MaxBoots = 1
  NoJob = NoJob
  NoRun = NoRun
SYMMETRY Symmetry
SPECIFICATION Spec
CHECK_DEADLOCK FALSE
INVARIANTS
  SkipEnforced
