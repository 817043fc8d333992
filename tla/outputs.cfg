CONSTANTS
  Runs = {r1, r2}
  Requests = {q1}
  MaxSize = 2
  MaxBytes = 1
  Keeps = {0, 1}
  Events = {"stop", "disconnect", "deleteJob", "crash", "unremovable"}
  NoRow = NoRow
  NoFile = NoFile
  Width = 16
  Second = 10
  MaxBase = 8
  MaxAttempt = 18
  TailMax = 5
  MaxChunk = 12
  MaxOutput = 30
  Digits = 2
  MaxSec = 10
SYMMETRY Symmetry
SPECIFICATION SumSpec
CHECK_DEADLOCK FALSE
INVARIANTS
  NamedFileExists
  CapReached
  WithinAFifth
  TailOfAll
  DueToTheSecond
PROPERTIES
  OldestGoesFirst
