CONSTANTS
  g1 = g1
  g2 = g2
  A = A
  B = B
  C = C
  D = D
  t1 = t1
  t2 = t2
  Games = {g1, g2}
  Teams = {A, B, C, D}
  Home <- MCHome
  Away <- MCAway
  Weeks = {1}
  Week = 1
  Slots = {1}
  Confidences = {0}
  RuleSets <- MCRuleSets
  FirstWeek <- MCFirstWeek
  FirstKickoff <- MCFirstKickoff
  Cards <- MCCards
  Feed = {}
  Scores = {}
  Requests = {t1, t2}
  MaxVersion = 3
  MaxTime = 1
  MaxEdits = 3
  MaxFailures = 1
ACTION_CONSTRAINT Narrowed
SPECIFICATION AutosaveSpec
PROPERTY TabsDoNotOverwrite
CHECK_DEADLOCK FALSE
