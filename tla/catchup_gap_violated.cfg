CONSTANTS
  a = a
  b = b
  Jobs = {a, b}
  Times <- EveryAndNever
  MaxReplay = 2
  Faults = {}
  MaxNow = 6
  MaxBoots = 2
  NoHeartbeat = NoHeartbeat
SPECIFICATION Spec
CHECK_DEADLOCK FALSE
INVARIANTS
  MissedReplayed
