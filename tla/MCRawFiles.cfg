SPECIFICATION Spec
CONSTANTS
  Symbols = {1, 2, 3, 4, 5}
  FixedOrder <- MCFixedOrder
  TargetCount = 3
  DayCandles = 2
  PeriodDays = 2
  Standing <- MCStanding
  Items <- AllItems
  PlannedItems <- StoreItems
  Contents = {"first", "second", "broken", "corrupt"}
  RowsOf <- MCRowsOf
  Corrupt = "corrupt"
  Absent = Absent
  SizeOf <- MCSizeOf
  Workers = {1, 2}
  MaxPublications = 1
  MaxBatches = 3
  MaxHarms = 1
  RankingInterval = "15m"
  RequiredIntervals <- IntervalsOf
  FirstDay = 1
  LastDay = 3
  Versions = {"run"}
  MaxRuns = 3
PROPERTY RawFilesAreKept
CHECK_DEADLOCK FALSE
