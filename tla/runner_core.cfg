CONSTANTS
  Jobs = {j1}
  RunIds = {r1, r2, r3}
  Workers = {w1, w2}
  JobConfigs <- SkipShell
  RetryDelays <- NextSecond
  Faults = {"stop", "crash"}
  MaxNow = 1
  MaxBoots = 2
  NoJob = NoJob
  NoRun = NoRun
SYMMETRY Symmetry
CONSTRAINT TwoRunsAfterStop
SPECIFICATION Spec
CHECK_DEADLOCK FALSE
INVARIANTS
  TypeOK
  ClaimExclusive
  RunningIsOwned
  RetryChain
  AlertOnce
  NoSilentFailure
  ActiveExact
PROPERTIES
  OutcomeFinal
  SkipRespected
  ImplementsRunQueue
