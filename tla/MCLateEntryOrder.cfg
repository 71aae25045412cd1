CONSTANTS
  Direction = "LONG"
  EntryPrice = 30
  InvalidationPrice = 15
  StopPrice = 12
  Tp1 = 48
  Tp2 = 66
  ATR = 20
  TickSize = 1
  ConfirmationClose = 2
  ExpiresAt = 8
  MaxHoldingBars = 1
  Minute = 2
  Bar = 4
  FeeRate = 6
  SlippageRate = 2
  RateUnit = 1000
  Candles <- ConsumerCandles
  DataEnds = {6, 10}
  LateTimes = {2, 4, 5, 8, 9}
  MaxLate = 3
  Datasets <- ConsumerDatasets

SPECIFICATION RecoverySpec
INVARIANTS
  LateLogOrdered

\* The replay returns when the supplied candles are used up.
CHECK_DEADLOCK FALSE
