CONSTANTS
  Signals = {1, 2, 3}
  Symbols = {1, 2}
  Times = {0, 1, 2}

SPECIFICATION Spec
INVARIANTS
  SkippedOnlyWhileActive

\* All signals are handled, or a replay raised.
CHECK_DEADLOCK FALSE
