CONSTANTS
  Requests = {r1, r2}
  MaxTime = 2
  MaxRestarts = 1
  LeagueCount = 2
  TeamCount = 2
  Pause = 1
  LongPause = 2
  MaxMoves = 1
  MaxSaves = 1
  m1 = m1
  m2 = m2
  Manual = {m1, m2}
  CheckIns = {"checkin"}
  Alarming <- MCAlarming
  BatchSize = 1
  MaxPage = 2
  Retry = 2
  Day = 3
  SeasonEnd = 4
  Old = 3
  CacheTime = 5
  MaxSnapshots = 3
  RuleSets = {x, y}
  Rosters = {e1}
  Ids = {1}
  MaxChanges = 1
  Applicants = {"a1", "a2"}
  Reuse = 1
  MaxAge = 1
  MaxEvidence = 1
  MaxVersion = 2
  MaxRuns = 1
  a = a
  b = b
  c = c
  d = d
  g1 = g1
  g2 = g2
  g3 = g3
  g4 = g4
  Games = {g1, g2, g3, g4}
  Teams = {a, b, c, d}
  Home <- MCHome
  Away <- MCAway
  Weeks = {1, 2}
  Entries = {1, 2}
  RuleChoices <- MCRuleChoices
  GameChoices <- MCGameChoices
  SavedChoices <- MCSavedChoices
  LogCost <- MCLogCost
  Penalty = 3
  Players = {1, 2, 3, 4}
  Position <- MCPosition
  Slots <- MCSlots
  Kickoff <- MCKickoff
  Forecasts <- MCForecasts
  TeamRosters <- MCTeamRosters
  Fresh = 1
  MaxRows = 4
SYMMETRY MCSymmetry
SPECIFICATION MCSpec
INVARIANTS
  StoredAsSent
  AdviceOnSoundInputs
  AdviceIsLegal
  AdviceIsBest
PROPERTIES
  FetchesSpaced
  StaleReadsLose
CHECK_DEADLOCK FALSE
