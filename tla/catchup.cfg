CONSTANTS
  a = a
  b = b
  Jobs = {a, b}
  Times <- EveryAndNever
  MaxReplay = 2
  Faults = {"db", "earlyStop", "crash"}
  MaxNow = 6
  MaxBoots = 3
  NoHeartbeat = NoHeartbeat
SPECIFICATION FairSpec
CHECK_DEADLOCK FALSE
INVARIANTS
  ReplayedOnce
  DowntimeReplayed
  TriggersKept
PROPERTIES
  DowntimeRuns
