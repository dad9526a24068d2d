CONSTANTS
  NoOne = NoOne
  Outsider = Outsider
  Threads = {t1, t2}
  Requests = {r1, r2}
  MaxTries = 2
  MaxCrashes = 1
  MaxBoard = 2
  MaxRuns = 3
  MaxSimRestarts = 1
  MaxDeaths = 1
  MaxEvents = 4
  MaxRankings = 2
  MaxSyncRestarts = 1
  Handlers = {"t1", "t2"}
  Contents = {"c1", "c2"}
  MaxStaged = 1
  MaxPreviews = 2
  MaxDatasets = 2
  MaxInputCrashes = 1
SPECIFICATION FairSpec
INVARIANTS
  RequestsFindTheirLog
  ResultsAreOfTheirInputs
PROPERTIES
  ImplementsLedger
  StartedDraftStands
  WorkEnds
CHECK_DEADLOCK FALSE
