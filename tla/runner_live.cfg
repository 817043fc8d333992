CONSTANTS
  Jobs = {j1}
  RunIds = {r1, r2}
  Workers = {w1}
  JobConfigs <- HttpOrShell
  RetryDelays = {0}
  Faults = {"db", "webhook", "stop"}
  MaxNow = 0
  MaxBoots = 1
  NoJob = NoJob
  NoRun = NoRun
SPECIFICATION FairSpec
CHECK_DEADLOCK FALSE
PROPERTIES
  DueRunsStart
  RunsEnd
  StopDrains
