---------------------------- MODULE SetupContext ----------------------------
(***************************************************************************)
(* The higher-timeframe setup of strategy/setup.py: the 4H direction and   *)
(* compression, the daily context, the hourly pullback with its episode,   *)
(* and the order in which they gate a trigger.  Every evaluator takes the  *)
(* candles c and the indicator frame f of one interval and judges the      *)
(* latest row.  A value that is not warmed up makes the evaluation         *)
(* NotReady, as SetupNotReadyError does; an ATR that is not positive is    *)
(* Refused, as SetupInputError does.                                       *)
(***************************************************************************)
EXTENDS PivotZones

CONSTANTS
    FourHourRows,         \* 12 rows of the 4H evaluation
    SlopeLag,             \* 5 rows of the sma180 change
    PullbackRows,         \* 22 rows of the acceleration check
    CompressionTimes20    \* the compression threshold, in twentieths of an ATR

ASSUME SetupAssumption ==
    /\ {FourHourRows, SlopeLag, PullbackRows, CompressionTimes20} \subseteq Nat \ {0}
    /\ SlopeLag < FourHourRows /\ PullbackRows > 2

Averages == {"sma30", "sma60", "sma90", "sma180"}
NotReady == [status |-> "NOT_READY"]
Refused == [status |-> "RAISES", eligible |-> FALSE]
Latest(s) == s[Len(s)]
LastRows(s, n) == SubSeq(s, Len(s) - n + 1, Len(s))
WarmAverages(row) == \A w \in Averages : row.sma[w] # NaN
Warm(row) == row.atr # NaN /\ WarmAverages(row)
Flat(row) == row.atr <= 0

-----------------------------------------------------------------------------
(* evaluate_four_hour *)
MaOrder(sma) ==
    CASE sma["sma30"] > sma["sma60"] /\ sma["sma60"] > sma["sma90"]
           /\ sma["sma90"] > sma["sma180"] -> "BULL_ORDER"
      [] sma["sma30"] < sma["sma60"] /\ sma["sma60"] < sma["sma90"]
           /\ sma["sma90"] < sma["sma180"] -> "BEAR_ORDER"
      [] OTHER -> "MIXED_ORDER"

BandPosition(close, sma) ==
    CASE \A w \in Averages : close > sma[w] -> "ABOVE_BAND"
      [] \A w \in Averages : close < sma[w] -> "BELOW_BAND"
      [] OTHER -> "INSIDE_BAND"

Changes(s) == Cardinality({i \in 1..(Len(s) - 1) : s[i] # s[i + 1]})
SlopeOver(f) == Latest(f).sma["sma180"] - f[Len(f) - SlopeLag].sma["sma180"]

Trend(order, slope) ==
    CASE order = "BULL_ORDER" /\ slope > 0 -> "LONG"
      [] order = "BEAR_ORDER" /\ slope < 0 -> "SHORT"
      [] OTHER -> "NEUTRAL"

Compressed(c, f) ==
    LET orders == [i \in DOMAIN f |-> MaOrder(f[i].sma)]
        bands == SelectSeq([i \in DOMAIN f |-> BandPosition(c[i].close, f[i].sma)],
                           LAMBDA b : b # "INSIDE_BAND")
        now == Latest(f)
    IN  \/ 20 * Abs(now.sma["sma30"] - now.sma["sma180"]) < CompressionTimes20 * now.atr
        \/ 10 * Abs(SlopeOver(f)) <= now.atr
        \/ Changes(orders) >= 3
        \/ Changes(bands) >= 2

FourHour(c, f) ==
    IF Len(c) < FourHourRows THEN NotReady
    ELSE LET rows == LastRows(f, FourHourRows)
         IN  IF ~Warm(Latest(rows)) \/ \E i \in DOMAIN rows : ~WarmAverages(rows[i])
             THEN NotReady
             ELSE IF Flat(Latest(rows)) THEN Refused
             ELSE [status     |-> "EVALUATED",
                   direction  |-> Trend(MaOrder(Latest(rows).sma), SlopeOver(rows)),
                   compressed |-> Compressed(LastRows(c, FourHourRows), rows)]

-----------------------------------------------------------------------------
(* evaluate_daily_context *)
Daily(c, f, direction) ==
    IF Len(c) < SlopeLag + 1 THEN NotReady
    ELSE IF \/ ~WarmAverages(Latest(f))
            \/ \E i \in (Len(f) - SlopeLag)..Len(f) : f[i].sma["sma180"] = NaN
    THEN NotReady
    ELSE LET trend == Trend(MaOrder(Latest(f).sma), SlopeOver(f))
         IN  [status  |-> "EVALUATED",
              context |-> IF trend = "NEUTRAL" THEN "MIXED"
                          ELSE IF trend = direction THEN "ALIGNED" ELSE "BLOCK"]

-----------------------------------------------------------------------------
(* evaluate_one_hour_pullback *)
LongPullbackState(k, row) ==
    LET ma == row.sma IN
    CASE ~(ma["sma30"] > ma["sma60"]) -> "INVALID"
      [] k.low <= ma["sma180"] -> "RESET"
      [] k.close < ma["sma90"] -> "DAMAGED"
      [] k.low <= ma["sma60"] /\ k.high >= ma["sma90"] -> "STANDARD"
      [] k.low <= ma["sma30"] /\ k.high >= ma["sma60"] -> "SHALLOW"
      [] k.close > ma["sma30"] /\ 2 * (k.close - ma["sma30"]) <= row.atr -> "WATCHING"
      [] OTHER -> "NONE"

ShortPullbackState(k, row) ==
    LET ma == row.sma IN
    CASE ~(ma["sma30"] < ma["sma60"]) -> "INVALID"
      [] k.high >= ma["sma180"] -> "RESET"
      [] k.close > ma["sma90"] -> "DAMAGED"
      [] k.low <= ma["sma90"] /\ k.high >= ma["sma60"] -> "STANDARD"
      [] k.low <= ma["sma60"] /\ k.high >= ma["sma30"] -> "SHALLOW"
      [] k.close < ma["sma30"] /\ 2 * (ma["sma30"] - k.close) <= row.atr -> "WATCHING"
      [] OTHER -> "NONE"

PullbackState(k, row, direction) ==
    IF direction = "LONG" THEN LongPullbackState(k, row) ELSE ShortPullbackState(k, row)

InPullback(k, row, direction) ==
    ~Flat(row) /\ PullbackState(k, row, direction) \in {"SHALLOW", "STANDARD"}

Adverse(k, direction) == IF direction = "LONG" THEN k.close < k.open ELSE k.close > k.open

Accelerating(c, f, direction) ==
    LET last2 == LastRows(c, 2)
        volume == [i \in 1..PullbackRows |-> LastRows(c, PullbackRows)[i].vol]
        baseline == Median(SubSeq(volume, 1, PullbackRows - 2))
    IN  /\ \A i \in 1..2 : Adverse(last2[i], direction)
        /\ \A i \in (PullbackRows - 1)..PullbackRows : volume[i] > baseline
        /\ Latest(f).tr > f[Len(f) - 1].tr

\* The first row of the unbroken pullback that ends at the latest row.
EpisodeStart(c, f, direction) ==
    CHOOSE s \in 1..Len(c) :
        /\ \A i \in s..Len(c) : Warm(f[i]) /\ InPullback(c[i], f[i], direction)
        /\ s > 1 => ~(Warm(f[s - 1]) /\ InPullback(c[s - 1], f[s - 1], direction))

\* The row before the episode closed on the trend side of its sma30.
EpisodeIsNew(c, f, s, direction) ==
    /\ s > 1
    /\ LET close == c[s - 1].close
           sma30 == f[s - 1].sma["sma30"]
       IN  IF direction = "LONG" THEN close > sma30 ELSE close < sma30

Pullback(c, f, direction) ==
    IF Len(c) < PullbackRows \/ ~Warm(Latest(f)) THEN NotReady
    ELSE IF Flat(Latest(f)) THEN Refused
    ELSE LET state == PullbackState(Latest(c), Latest(f), direction)
             inside == state \in {"SHALLOW", "STANDARD"}
             start == IF inside THEN EpisodeStart(c, f, direction) ELSE 0
             fresh == inside /\ EpisodeIsNew(c, f, start, direction)
         IN  IF start > 1 /\ ~Warm(f[start - 1]) THEN NotReady
             ELSE IF start > 1 /\ Flat(f[start - 1]) THEN Refused
             ELSE [status   |-> "EVALUATED",
                   state    |-> state,
                   episode  |-> IF inside THEN c[start].t ELSE NaN,
                   new      |-> fresh,
                   eligible |-> fresh /\ ~Accelerating(c, f, direction)]

-----------------------------------------------------------------------------
(* evaluate_setup_context: each stage runs only when the one before passed.
   hourly gives each direction the pullback evaluation to use: of the whole
   history, or of a window of it. *)
Skipped(reason) == [status |-> reason, eligible |-> FALSE]
Failed(stage) == IF stage.status = "NOT_READY" THEN NotReady ELSE Refused

SetupOf(four, day, hourly) ==
    LET trend == FourHour(four.c, four.f) IN
    IF trend.status # "EVALUATED" THEN Failed(trend)
    ELSE IF trend.direction = "NEUTRAL" THEN Skipped("FOUR_HOUR_NEUTRAL")
    ELSE IF trend.compressed THEN Skipped("FOUR_HOUR_COMPRESSED")
    ELSE LET daily == Daily(day.c, day.f, trend.direction) IN
    IF daily.status = "NOT_READY" THEN NotReady
    ELSE IF daily.context = "BLOCK" THEN Skipped("DAILY_BLOCK")
    ELSE LET pullback == hourly[trend.direction] IN
    IF pullback.status # "EVALUATED" THEN Failed(pullback)
    ELSE [status    |-> "ONE_HOUR_EVALUATED",
          eligible  |-> pullback.eligible,
          direction |-> trend.direction,
          hourly    |-> pullback]

-----------------------------------------------------------------------------
(* The windows the source scan evaluates instead of the whole history. *)
Ending(c, end, rows) == SubSeq(c, IF end > rows THEN end - rows + 1 ELSE 1, end)

\* Faulty: the first window is taken as it is.
StartsAtEdgeFaulty(result, window) == FALSE

\* _hourly_episode_slice: the window doubles while the episode starts at its edge.
StartsAtEdge(result, window) ==
    /\ result.status = "EVALUATED"
    /\ result.state \in {"SHALLOW", "STANDARD"}
    /\ result.episode = window[1].t

Smaller(x, y) == IF x < y THEN x ELSE y

HourlyEpisode(c, f, end, direction) ==
    LET rows[n \in 0..end] == IF n = 0 THEN Smaller(end, PullbackRows)
                              ELSE Smaller(end, 2 * rows[n - 1])
        Try(n) == Pullback(Ending(c, end, rows[n]), Ending(f, end, rows[n]), direction)
        Settled(n) == ~StartsAtEdge(Try(n), Ending(c, end, rows[n])) \/ rows[n] = end
    IN  Try(CHOOSE n \in 0..end : Settled(n) /\ \A m \in 0..(n - 1) : ~Settled(m))
=============================================================================
