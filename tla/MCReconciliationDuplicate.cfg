CONSTANTS
  p1 = p1
  p2 = p2
  q1 = q1
  Players = {p1,p2,q1}
  Identified = {p1,p2}
  NoPlayer = NoPlayer
  MaxPicks = 2
  Formats <- MCFormats
  TeamCounts = {2}
  RoundCounts = {1}
  OwnerSlots = {1}
  Snapshots <- MCSnapshots
  PositionOf <- MCPositionOf
  DepthTarget <- MCDepthTarget
  Capped = {}
  Needs = {}
  Transports = {"scrape"}
  MaxEvents = 5
  Repeats <- MCRepeats
  Reports <- MCShiftedReports
  Placeholders <- MCPlaceholders
SPECIFICATION ReconciliationSpec
INVARIANT OnePickPerPlayer
CHECK_DEADLOCK FALSE
