----------------------------- MODULE Indicators -----------------------------
(***************************************************************************)
(* The numeric frame of strategy/indicators.py over a stream of closed     *)
(* candles: moving averages of the close, the true range, Wilder's average *)
(* true range and the past-looking volume windows.  A candle is a record   *)
(*   [t, open, high, low, close, vol]                                      *)
(* where t is the open time in units of the 15m grid.  Prices are integers *)
(* in fine units.  The windows (30, 60, 90, 180; 14; 3; 20) are constants, *)
(* so that an instance can scale them down.  A window that is not full     *)
(* gives NaN, as min_periods does.                                         *)
(***************************************************************************)
EXTENDS Integers, Sequences, SequencesExt

CONSTANTS
    SmaWindow,      \* the four moving-average windows, by indicator name
    AtrPeriod,      \* 14
    PullbackBars,   \* 3: the candles of the pullback volume mean
    VolumeBars      \* 20: the candles of a volume median

ASSUME WindowAssumption ==
    /\ SmaWindow \in [{"sma30", "sma60", "sma90", "sma180"} -> Nat \ {0}]
    /\ {AtrPeriod, PullbackBars, VolumeBars} \subseteq Nat \ {0}

NaN == -1000000

Abs(x) == IF x < 0 THEN -x ELSE x
Larger(x, y) == IF x > y THEN x ELSE y

\* validate_indicator_input: what a stream of closed candles looks like.
ValidCandles(c, step) ==
    /\ c # << >>
    /\ \A i \in 2..Len(c) : c[i].t = c[i - 1].t + step
    /\ \A i \in DOMAIN c : /\ c[i].low <= c[i].close /\ c[i].close <= c[i].high
                           /\ c[i].vol >= 0

Total(s) == FoldLeft(LAMBDA a, b : a + b, 0, s)
Mean(s) == Total(s) \div Len(s)

Median(s) ==
    LET sorted == SortSeq(s, <)
        n == Len(s)
    IN  (sorted[(n + 1) \div 2] + sorted[(n + 2) \div 2]) \div 2

\* The window of n values of s that ends at i, when all of it exists.
Full(i, n) == i >= n
WindowAt(s, i, n) == SubSeq(s, i - n + 1, i)
Rolling(Agg(_), s, i, n) == IF Full(i, n) THEN Agg(WindowAt(s, i, n)) ELSE NaN

TrueRange(c, i) ==
    LET span == c[i].high - c[i].low
    IN  IF i = 1 THEN span
        ELSE Larger(span, Larger(Abs(c[i].high - c[i - 1].close),
                                 Abs(c[i].low - c[i - 1].close)))

\* A mean of the first period, then Wilder's recursion.
WilderAtr(c) ==
    LET tr == [i \in DOMAIN c |-> TrueRange(c, i)]
        atr[i \in DOMAIN c] ==
            IF i < AtrPeriod THEN NaN
            ELSE IF i = AtrPeriod THEN Mean(WindowAt(tr, i, AtrPeriod))
            ELSE (atr[i - 1] * (AtrPeriod - 1) + tr[i]) \div AtrPeriod
    IN  atr

\* Every window ends strictly before the row, the pullback baseline before
\* the pullback.
VolumeStatistics(c, i) ==
    LET vol == [j \in DOMAIN c |-> c[j].vol]
    IN  [previous       |-> IF i > 1 THEN vol[i - 1] ELSE NaN,
         pullbackMean   |-> Rolling(Mean, vol, i - 1, PullbackBars),
         median         |-> Rolling(Median, vol, i - 1, VolumeBars),
         medianBefore   |-> Rolling(Median, vol, i - 1 - PullbackBars, VolumeBars)]

IndicatorFrame(c) ==
    LET close == [j \in DOMAIN c |-> c[j].close]
        atr == WilderAtr(c)
    IN  [i \in DOMAIN c |->
            [sma   |-> [w \in DOMAIN SmaWindow |-> Rolling(Mean, close, i, SmaWindow[w])],
             tr    |-> TrueRange(c, i),
             atr   |-> atr[i],
             volume |-> VolumeStatistics(c, i)]]
=============================================================================
