CONSTANTS
  Direction = "LONG"
  EntryPrice = 30
  InvalidationPrice = 15
  StopPrice = 12
  Tp1 = 48
  Tp2 = 66
  ATR = 20
  TickSize = 1
  ConfirmationClose = 2
  ExpiresAt = 8
  MaxHoldingBars = 1
  Minute = 2
  Bar = 4
  FeeRate = 6
  SlippageRate = 2
  RateUnit = 1000
  Candles <- LongCandles
  DataEnds = {6, 10}

SPECIFICATION Spec
INVARIANTS
  FillsBalance
  ProtectedOnTime
  EventsAreTimely
  OrderingHonest
PROPERTIES
  AmbiguityIsAdverse
  ImplementsLifecycle

\* The replay returns when the supplied candles are used up.
CHECK_DEADLOCK FALSE
