CONSTANTS
  PageJobs = {a, b}
  FirstLists = {{a}, {a, b}}
  NobodyJob = NobodyJob
  Blank = Blank
  Draft = Draft
  MaxCalls = 2
  MaxLosses = 1
SPECIFICATION FairUISpec
CHECK_DEADLOCK FALSE
PROPERTIES
  PageSettles
