CONSTANTS
  DayLength = 2
  VacuumEvery = 3
  VacuumDeleted = 1
  Retentions = {1, 2}
  MaxNow = 5
  EndTimes = {0, 3}
  MaxFailures = 1
  MaxBoots = 2
  NoTime = NoTime
  Puts = {p, q}
  Bodies <- SomeBodies
  MaxWrites = 2
  MaxErrors = 1
  Unset = Unset
  older = older
  newer = newer
  newest = newest
  Procs <- SomeProcs
  Version <- Versions
  MaxRetries = 3
SPECIFICATION SumSpec
CHECK_DEADLOCK FALSE
INVARIANTS
  SavedNightIsPurged
  OneNightADay
  SchemaReady
  ClosedLast
PROPERTIES
  NightsCome
  VacuumKept
  CycleDayPurged
  AloneUpdateIsExact
  LimitObeyed
  StopsInTime
