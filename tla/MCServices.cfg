CONSTANTS
  Requests = {r1, r2}
  Keys = {k1}
  NoKey = NoKey
  ChatGPT = ChatGPT
  MaxLogins = 2
  MaxRestarts = 1
  JobWorkers = {w1, w2}
  Interval = 1
  Cooldown = 1
  LongRetry = 2
  MaxTime = 3
  MaxRows = 3
  MaxStops = 2
  Threads = {t1, t2}
  Empty = Empty
  Torn = Torn
  Keep = 2
  MaxFiles = 3
  MaxWrites = 1
  MaxCopyCrashes = 1
  Creators = {c1, c2}
  Restorers = {o1, o2}
  Pieces = {manifest, data, codex}
  Workers = {w1, w2}
  MaxLeagueRuns = 2
  MaxRuns = 2
  MaxCrashes = 1
  First = w1
SPECIFICATION FairSpec
INVARIANTS
  WorkIsExclusive
  FailuresAreRemembered
PROPERTIES
  CopiesStay
  OutcomesStand
  WorkEnds
CHECK_DEADLOCK FALSE
