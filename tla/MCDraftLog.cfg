CONSTANTS
  p1 = p1
  p2 = p2
  p3 = p3
  Players = {p1,p2,p3}
  Identified = {p1,p2,p3}
  NoPlayer = NoPlayer
  MaxPicks = 2
  Formats <- MCFormats
  TeamCounts = {2}
  RoundCounts = {1}
  OwnerSlots = {1,2}
  Snapshots <- MCSnapshots
  PositionOf <- MCPositionOf
  DepthTarget <- MCDepthTarget
  Capped <- MCCapped
  Needs <- MCNeeds
  Transports = {}
  MaxEvents = 8
  Repeats <- MCRepeats
SPECIFICATION FairSpec
INVARIANTS
  TypeOK
  BoardIsReduction
  BoardInOrder
  OnePickPerPlayer
  OwnerPickAdvised
  StatusIsReplayable
  RosterFollowsBoard
  OpponentNeverStuck
PROPERTIES
  PlayIsOrderly
  AdviceEventuallyPublished
CHECK_DEADLOCK FALSE

