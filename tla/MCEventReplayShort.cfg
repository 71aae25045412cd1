CONSTANTS
  Direction = "SHORT"
  EntryPrice = 60
  InvalidationPrice = 75
  StopPrice = 78
  Tp1 = 59
  Tp2 = 58
  ATR = 20
  TickSize = 1
  ConfirmationClose = 2
  ExpiresAt = 8
  MaxHoldingBars = 1
  Minute = 2
  Bar = 4
  FeeRate = 6
  SlippageRate = 2
  RateUnit = 1000
  Candles <- ShortCandles
  DataEnds = {6, 10}

SPECIFICATION FairSpec
INVARIANTS
  BreakevenCovers
PROPERTIES
  TradesClose

\* The replay returns when the supplied candles are used up.
CHECK_DEADLOCK FALSE
