---------------------------- MODULE TriggerRules ----------------------------
(***************************************************************************)
(* The 15m triggers of strategy/triggers.py on the latest closed candle:   *)
(* A, the reclaim of the moving average, and B, the sweep of a pivot zone  *)
(* and its reclaim.  c and f are the candles and the frame the caller has  *)
(* cut, ctx the pullback context: direction, episode start and the region  *)
(* between two hourly averages.  A trigger is confirmed when its set of    *)
(* reasons against it is empty.                                            *)
(***************************************************************************)
EXTENDS SetupContext

CONSTANTS
    TriggerARows,     \* 24
    TriggerBRows,     \* 97
    TouchBars         \* 4

ASSUME TriggerAssumption ==
    /\ {TriggerARows, TriggerBRows, TouchBars} \subseteq Nat \ {0}
    /\ TouchBars < TriggerARows /\ TriggerARows <= TriggerBRows

Long(ctx) == ctx.direction = "LONG"
Beyond(ctx, x, level) == IF Long(ctx) THEN x > level ELSE x < level
CandleStep == 1        \* a 15m candle closes one unit after it opens

-----------------------------------------------------------------------------
(* _volume_evidence *)
VolumeReady(row) ==
    \A stat \in {"previous", "pullbackMean", "median", "medianBefore"} : row.volume[stat] # NaN

\* Faulty: the SHORT branch compares with the LONG threshold.
CloseFavourableFaulty(k, ctx) ==
    IF Long(ctx) THEN 100 * (k.close - k.low) >= 65 * (k.high - k.low)
                 ELSE 100 * (k.close - k.low) <= 65 * (k.high - k.low)

\* close location >= 0.65 (LONG) or <= 0.35 (SHORT) of the candle's range
CloseFavourable(k, ctx) ==
    IF Long(ctx) THEN 100 * (k.close - k.low) >= 65 * (k.high - k.low)
                 ELSE 100 * (k.close - k.low) <= 35 * (k.high - k.low)

VolumeReasons(k, row, ctx) ==
    {r \in {"ZERO_RANGE_TRIGGER", "TRIGGER_VOLUME_LOW", "TRIGGER_VOLUME_NOT_EXPANDING",
            "VOLUME_WITH_ADVERSE_CLOSE"} :
        CASE r = "ZERO_RANGE_TRIGGER"           -> k.high = k.low
          [] r = "TRIGGER_VOLUME_LOW"           -> ~(k.vol > row.volume.median)
          [] r = "TRIGGER_VOLUME_NOT_EXPANDING" -> ~(k.vol > row.volume.previous)
          [] r = "VOLUME_WITH_ADVERSE_CLOSE"    -> k.high # k.low /\ ~CloseFavourable(k, ctx)}

PullbackContracting(row) == row.volume.pullbackMean < row.volume.medianBefore

-----------------------------------------------------------------------------
(* Trigger A *)
WantedKind(ctx) == IF Long(ctx) THEN "LOW" ELSE "HIGH"

\* _select_trigger_a_pivot: the latest confirmed pivot of the episode.
StructurePivot(pivots, ctx, close) ==
    LET usable == {i \in DOMAIN pivots : /\ pivots[i].kind = WantedKind(ctx)
                                         /\ pivots[i].time >= ctx.episode
                                         /\ pivots[i].confirmed <= close}
    IN  IF usable = {} THEN << >> ELSE << pivots[Max(usable)] >>

PullbackTouch(c, f, ctx) ==
    \E i \in (Len(c) - TouchBars)..(Len(c) - 1) :
        \/ Beyond(ctx, f[i].sma["sma30"], c[i].close)
        \/ c[i].low <= ctx.upper /\ c[i].high >= ctx.lower

BreakLevel(k, ctx) == IF Long(ctx) THEN k.high ELSE k.low

TriggerA(c, f, pivots, ctx) ==
    LET n == Len(c)
        k == c[n]
        pivot == StructurePivot(pivots, ctx, CloseOf(c, n, CandleStep))
        reasons ==
            {r \in {"NO_MA_PULLBACK_TOUCH", "MA_RECLAIM_FAILED", "PREVIOUS_BAR_BREAK_FAILED",
                    "PULLBACK_VOLUME_NOT_CONTRACTING", "STOP_STRUCTURE_MISSING"} :
                CASE r = "NO_MA_PULLBACK_TOUCH"       -> ~PullbackTouch(c, f, ctx)
                  [] r = "MA_RECLAIM_FAILED"          -> ~Beyond(ctx, k.close, f[n].sma["sma30"])
                  [] r = "PREVIOUS_BAR_BREAK_FAILED"  ->
                        ~Beyond(ctx, k.close, BreakLevel(c[n - 1], ctx))
                  [] r = "PULLBACK_VOLUME_NOT_CONTRACTING" -> ~PullbackContracting(f[n])
                  [] r = "STOP_STRUCTURE_MISSING"     -> pivot = << >>}
            \cup VolumeReasons(k, f[n], ctx)
    IN  [confirmed    |-> reasons = {},
         invalidation |-> IF pivot = << >> THEN NaN ELSE pivot[1].price]

\* The rows and windows A reads; without them the decision is not ready.
TriggerAReady(c, f) ==
    /\ Len(c) >= TriggerARows
    /\ \A i \in (Len(c) - TouchBars)..Len(c) : f[i].sma["sma30"] # NaN
    /\ VolumeReady(Latest(f))

-----------------------------------------------------------------------------
(* Trigger B *)
ZoneDistance(price, zone) ==
    IF zone.lower <= price /\ price <= zone.upper THEN 0
    ELSE Smaller(Abs(price - zone.lower), Abs(price - zone.upper))

\* A close beyond the zone after its confirmation, before the candidate.
ZoneDestroyed(zone, c, ctx) ==
    \E i \in 1..(Len(c) - 1) :
        /\ CloseOf(c, i, CandleStep) > zone.confirmed
        /\ IF Long(ctx) THEN c[i].close < zone.lower ELSE c[i].close > zone.upper

\* _select_trigger_b_zone: newest confirmed, then nearest, then least by its hash:
\* some one of those left, always the same.
SweepZones(zones, c, ctx) ==
    LET opened == Latest(c).t
    IN  {z \in zones :
            /\ z.kind = WantedKind(ctx)
            /\ z.confirmed <= opened
            /\ c[Len(c) - TriggerBRows + 1].t <= z.last /\ z.last < opened
            /\ ~ZoneDestroyed(z, c, ctx)}

Preferred(z, y, price) ==
    \/ z.confirmed > y.confirmed
    \/ z.confirmed = y.confirmed /\ ZoneDistance(price, z) <= ZoneDistance(price, y)

TriggerB(c, f, zones, ctx) ==
    LET k == Latest(c)
        usable == SweepZones(zones, c, ctx)
        zone == CHOOSE z \in usable : \A y \in usable : Preferred(z, y, c[Len(c) - 1].close)
    IN  [confirmed    |-> /\ usable # {}
                          /\ IF Long(ctx) THEN k.low < zone.lower /\ k.close > zone.upper
                                          ELSE k.high > zone.upper /\ k.close < zone.lower
                          /\ Beyond(ctx, k.close, Latest(f).sma["sma30"])
                          /\ VolumeReasons(k, Latest(f), ctx) = {},
         invalidation |-> IF Long(ctx) THEN k.low ELSE k.high]

-----------------------------------------------------------------------------
(* evaluate_triggers, merge_trigger_evaluations: missing history for B does
   not erase a confirmed A, and B is the primary trigger when both are. *)
Triggers(c, f, pivots, zones, ctx) ==
    IF ~TriggerAReady(c, f) THEN NotReady
    ELSE LET a == TriggerA(c, f, pivots, ctx)
             b == TriggerB(c, f, zones, ctx)
             sweep == Len(c) >= TriggerBRows /\ b.confirmed
         IN  IF ~(sweep \/ a.confirmed) THEN [status |-> "NO_TRIGGER"]
             ELSE [status       |-> "CONFIRMED",
                   primary      |-> IF sweep THEN "SWEEP_RECLAIM" ELSE "MA_RECLAIM",
                   both         |-> sweep /\ a.confirmed,
                   invalidation |-> IF sweep THEN b.invalidation ELSE a.invalidation]

\* The context of a trigger: the region between the averages of the state.
TriggerContext(setup, hourFrame) ==
    LET near == IF setup.hourly.state = "SHALLOW" THEN "sma30" ELSE "sma60"
        far  == IF setup.hourly.state = "SHALLOW" THEN "sma60" ELSE "sma90"
        x == Latest(hourFrame).sma[near]
        y == Latest(hourFrame).sma[far]
    IN  [direction |-> setup.direction,
         episode   |-> setup.hourly.episode,
         lower     |-> Smaller(x, y),
         upper     |-> Larger(x, y)]
=============================================================================
