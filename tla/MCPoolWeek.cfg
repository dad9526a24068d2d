CONSTANTS
  g1 = g1
  g2 = g2
  g3 = g3
  A = A
  B = B
  C = C
  D = D
  r1 = r1
  r2 = r2
  Games = {g1, g2, g3}
  Teams = {A, B, C, D}
  Home <- MCHome
  Away <- MCAway
  Weeks = {1, 2}
  Slots = {0, 1, 2}
  Confidences = {0, 1, 2}
  RuleSets <- MCRuleSets
  FirstWeek <- MCFirstWeek
  FirstKickoff <- MCFirstKickoff
  Cards <- MCCards
  Feed <- MCFeed
  Scores <- MCScores
  Requests = {r1, r2}
  MaxVersion = 2
  MaxTime = 2
CONSTRAINTS TwoSaves OneRace
ACTION_CONSTRAINT UsefulRequests
SYMMETRY RequestSymmetry
SPECIFICATION Spec
INVARIANTS
  TypeOK
  ClaimSeesItsCard
  StoredCardIsTheOneAccepted
  CardsHaveNoRepeats
  UsesThatCountAreLimited
PROPERTIES
  LocksNeverLift
  LockedPicksStay
CHECK_DEADLOCK FALSE
