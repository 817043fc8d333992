CONSTANTS
  Jobs = {a, b}
  Handlers = {h1, h2}
  Specs <- AllSpecs
  Registrable <- GoodSpecs
  Times <- Matches
  Faults = {"disconnect"}
  MaxNow = 2
  NoJob = NoJob
  Nobody = Nobody
  Starter = Starter
  MaxAsks = 3
  Tokens <- SomeTokens
  Claims <- TrialAndForged
  Trial = Trial
  Forged = Forged
  MaxDay = 1
  MaxTroubles = 1
  Nothing = Nothing
  Open = Open
SYMMETRY Symmetry
SPECIFICATION SumSpec
CHECK_DEADLOCK FALSE
INVARIANTS
  StaleIsPending
  RegistrationSettles
  FiredOnce
  QuietInstantsFire
  LockFollowsReload
PROPERTIES
  LastWordStands
