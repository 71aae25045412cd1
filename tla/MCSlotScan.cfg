SPECIFICATION Spec
CONSTANTS
    SmaWindow <- MCSmaWindow
    AtrPeriod = 2
    PullbackBars = 1
    VolumeBars = 1
    PivotLeft = 1
    PivotRight = 1
    FourHourRows = 4
    SlopeLag = 2
    PullbackRows = 3
    CompressionTimes20 = 15
    TriggerARows = 3
    TriggerBRows = 5
    TouchBars = 2
    StopTimes20 = 3
    EntryTtl = 2
    TargetRows15 = 4
    TargetRows1h = 5
    HourStep = 2
    WindowEnd = 10
    HoldBars = 2
    Markets <- MCMarkets
    FirstSlot = 4
    LastSlot = 7
    FourHourStep = 4
    DayStep = 4
    Pivot = 200
INVARIANTS
    ScanDecidesAsTheSource
    IncrementalZonesAreMerged
    EpisodeKeepsItsIdentity
    PlanIsConservative
    DirectionsAreTreatedAlike
CHECK_DEADLOCK FALSE
