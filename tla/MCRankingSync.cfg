CONSTANTS
  MaxSequence = 4
  MaxRankings = 2
  MaxRestarts = 1
SPECIFICATION Spec
PROPERTY SyncsSpareStartedDrafts
CHECK_DEADLOCK FALSE
