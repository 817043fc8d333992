CONSTANTS
  PageJobs = {a, b}
  FirstLists = {{a}, {a, b}}
  NobodyJob = NobodyJob
  Blank = Blank
  Draft = Draft
  MaxCalls = 2
  MaxLosses = 0
SPECIFICATION UISpec
CHECK_DEADLOCK FALSE
INVARIANT
  UpdatesTheJobShown
