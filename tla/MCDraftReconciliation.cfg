CONSTANTS
  p1 = p1
  p2 = p2
  q1 = q1
  Players = {p1,p2,q1}
  Identified = {p1,p2}
  NoPlayer = NoPlayer
  MaxPicks = 2
  Formats <- MCFormats
  TeamCounts = {2}
  RoundCounts = {1}
  OwnerSlots = {1}
  Snapshots <- MCSnapshots
  PositionOf <- MCPositionOf
  DepthTarget <- MCDepthTarget
  Capped = {}
  Needs = {}
  Transports = {"scrape"}
  MaxEvents = 5
  Repeats <- MCRepeats
  Reports <- MCReports
  Placeholders <- MCPlaceholders
SPECIFICATION ReconciliationSpec
CONSTRAINTS
  CreatedWithInputs
  FollowsYahoo
  TwoConflicts
ACTION_CONSTRAINT AdvicePublished
INVARIANTS
  ReconciledLogIsSound
  SyncAppliesSafePicksOnly
  SyncAccountsForReports
  SyncIsIdempotent
PROPERTY
  DismissalStands
CHECK_DEADLOCK FALSE
