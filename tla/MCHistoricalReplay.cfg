CONSTANTS
  Signals = {1, 2, 3}
  Symbols = {1, 2}
  Times = {0, 1, 2, 3}
  NoEnd = NoEnd
  NoRule = NoRule
  NoTick = NoTick
  Universes <- DayUniverses
  Registries <- DayRegistries
  Ticks <- DayTicks

SPECIFICATION HistoricalSpec
INVARIANTS
  OneActiveTrade
  GateForecasts

\* All admitted signals are handled, or a replay raised.
CHECK_DEADLOCK FALSE
