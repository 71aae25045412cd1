SPECIFICATION Spec
CONSTANTS
  NoEnd = NoEnd
  NoRule = NoRule
  NoTick = NoTick
  Symbols = {1, 2}
  DayCount = 8
  Registries <- MCRegistries
  Memberships <- MCMemberships
  Step <- MCStep
  MonthEnd = 48
  Worlds <- MCWorlds
  NoTime = NoTime
  Executors = {1, 2}
  Builds = {1, 2}
  MaxSwaps = 1
  MaxCrashes = 1
  Unplanned = Unplanned
  Unpublished = Unpublished
  Leftover = Leftover
  Publishers = {p1, p2}
  Readers = {r1}
  MaxKills = 1
  MaxHarm = 1
  BarMinutes = 2
  HoldingBars = 2
  PageMinutes = 3
  FundingLimit = 3
  GuardMinutes = 5
  RequestSets <- MCRequestSets
  Views <- MCViews
  Runs = {1, 2}
  Stores = {1, 2}
  Helpers = {1, 2}
  MaxFaults = 1
  Manifests <- MCManifests
  MaxManifests = 2
  NoPlan = NoPlan
  NoCheckpoint = NoCheckpoint
INVARIANTS
  GapsExplainTheAudit
  OneContractIsRetained
  OverlayIsBacked
  ReadyMeansReplayable
  FollowingThePlanCompletes
  ManifestComesLast
\* The audit, a finalization and the publication end.
CHECK_DEADLOCK FALSE
