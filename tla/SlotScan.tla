------------------------------ MODULE SlotScan ------------------------------
(***************************************************************************)
(* One symbol walked slot by slot.  The batch scan                         *)
(* (build_dev_source_scan_report) computes indicators and pivots once over *)
(* the whole verified stream and then, at every 15m slot, cuts what the    *)
(* slot may see: fixed windows of rows, a cached setup, pivots up to a     *)
(* count, zones grown incrementally.  The slot evaluation                  *)
(* (compute_source_bound_scan_slot) recomputes everything from the         *)
(* history that had closed by then.  Both must decide alike.               *)
(*                                                                         *)
(* The market (the closed candles of the four intervals, the hourly and    *)
(* longer ones with their indicator rows, and the contract rule) is chosen *)
(* once and never changes.                                                 *)
(***************************************************************************)
EXTENDS PricePlan

CONSTANTS
    Markets,       \* the markets explored
    FirstSlot,     \* the first confirmation of the plan
    LastSlot,      \* the last one
    FourHourStep,  \* 15m units in four hours
    DayStep,       \* 15m units in a day
    Pivot          \* twice the price around which a market is reflected

ASSUME SlotAssumption ==
    /\ {FirstSlot, LastSlot, FourHourStep, DayStep, Pivot} \subseteq Nat
    /\ FirstSlot <= LastSlot

\* A stream has candles, and the indicators of each of its rows.
Times == {t \in Int : t > NaN}
CandleRows == [t : Times, open : Int, high : Int, low : Int, close : Int, vol : Int]
IndicatorRows == [sma : [Averages -> Int], atr : Int, tr : Int]

ASSUME MarketAssumption ==
    \A m \in Markets :
        /\ {m.c15, m.hour.c, m.four.c, m.day.c} \subseteq Seq(CandleRows)
        /\ m.hour.f \in Seq(IndicatorRows) /\ Len(m.hour.f) = Len(m.hour.c)
        /\ m.rule.tick \in Int

VARIABLES
    market,      \* [c15, hour, four, day, rule]
    frame15,     \* the indicators of the whole 15m stream
    pivots,      \* the pivots of the whole streams, by interval
    at,          \* the slot reached
    zones,       \* the incremental zone state, by interval
    cache,       \* setup_cache: the setups evaluated, by the ends of the windows
    seen         \* what the scan decided at the slot: << >> before the first

vars == << market, frame15, pivots, at, zones, cache, seen >>
inputs == << market, frame15, pivots >>

-----------------------------------------------------------------------------
(* _visible_end: rows closed by the slot. *)
VisibleEnd(c, step, slot) == Cardinality({i \in DOMAIN c : c[i].t + step <= slot})
Prefix(s, end) == SubSeq(s, 1, end)

EndsOf(m, slot) ==
    [hour |-> VisibleEnd(m.hour.c, HourStep, slot),
     four |-> VisibleEnd(m.four.c, FourHourStep, slot),
     day  |-> VisibleEnd(m.day.c, DayStep, slot)]
Ends(slot) == EndsOf(market, slot)

Cut(stream, end, rows) ==
    [c |-> Ending(stream.c, end, rows), f |-> Ending(stream.f, end, rows)]

\* _setup_at
WindowedSetup(ends) ==
    SetupOf(Cut(market.four, ends.four, FourHourRows),
            Cut(market.day, ends.day, SlopeLag + 1),
            [direction \in {"LONG", "SHORT"} |->
               HourlyEpisode(market.hour.c, market.hour.f, ends.hour, direction)])

CachedSetup(ends) ==
    IF \E entry \in cache : entry.ends = ends
    THEN (CHOOSE entry \in cache : entry.ends = ends).setup
    ELSE WindowedSetup(ends)

Decide(rule, setup, c, f, pivots15, zones15, hour, zones1h, slot) ==
    LET ctx == TriggerContext(setup, hour.f)
        decision == Triggers(c, f, pivots15, zones15, ctx)
    IN  IF decision.status # "CONFIRMED" THEN decision
        ELSE LET plan == PlanOf(Request(setup, decision, c, f, rule.tick), c, zones15,
                                hour.c, zones1h, slot, rule)
             IN  [status |-> plan.status, primary |-> decision.primary, both |-> decision.both,
                  plan |-> plan]

-----------------------------------------------------------------------------
(* compute_source_bound_scan_slot: everything from the closed prefixes. *)
SourceSetup(m, ends) ==
    SetupOf(Cut(m.four, ends.four, ends.four),
            Cut(m.day, ends.day, ends.day),
            [direction \in {"LONG", "SHORT"} |->
               Pullback(Prefix(m.hour.c, ends.hour), Prefix(m.hour.f, ends.hour), direction)])

\* A replay window that does not fit is counted by the scan and raised here.
AsSource(outcome) ==
    IF outcome.status = "REJECTED_REQUEST_BOUNDARY"
    THEN [outcome EXCEPT !.status = "RAISES"] ELSE outcome

SourceSlot(m, slot) ==
    LET ends == EndsOf(m, slot)
        setup == SourceSetup(m, ends)
        c == Prefix(m.c15, VisibleEnd(m.c15, CandleStep, slot))
        f == IndicatorFrame(c)
        hour == Cut(m.hour, ends.hour, ends.hour)
        known15 == ConfirmedPivots(c, f, CandleStep)
    IN  IF setup.status = "NOT_READY" THEN NotReady
        ELSE IF ~setup.eligible THEN [status |-> setup.status]
        ELSE AsSource(Decide(m.rule, setup, c, f, known15, MergeZones(known15), hour,
                             MergeZones(ConfirmedPivots(hour.c, hour.f, HourStep)), slot))

-----------------------------------------------------------------------------
Init ==
    /\ market \in Markets
    /\ ValidCandles(market.c15, CandleStep) /\ ValidCandles(market.hour.c, HourStep)
    /\ frame15 = IndicatorFrame(market.c15)
    /\ pivots = [m15 |-> ConfirmedPivots(market.c15, frame15, CandleStep),
                 h1  |-> ConfirmedPivots(market.hour.c, market.hour.f, HourStep)]
    /\ at = FirstSlot - 1
    /\ zones = [m15 |-> NoZones, h1 |-> NoZones]
    /\ cache = {}
    /\ seen = << >>

\* What a slot raises ends the scan of its symbol.
Reaches ==
    /\ at < LastSlot
    /\ seen # << >> => seen.status # "RAISES"
    /\ at' = at + 1

\* A slot of a day the symbol is a member of.
Reach(setup) ==
    /\ Reaches
    /\ LET ends == Ends(at + 1) IN
        /\ setup = CachedSetup(ends)
        /\ cache' = cache \cup {[ends |-> ends, setup |-> setup]}
    /\ UNCHANGED inputs

SetupNotReady ==
    \E setup \in {CachedSetup(Ends(at + 1))} :
        /\ setup.status = "NOT_READY"
        /\ Reach(setup)
        /\ seen' = NotReady
        /\ UNCHANGED zones

SetupRaises ==
    /\ Reaches
    /\ CachedSetup(Ends(at + 1)).status = "RAISES"
    /\ seen' = [status |-> "RAISES"]
    /\ UNCHANGED << inputs, zones, cache >>

SetupIneligible ==
    \E setup \in {CachedSetup(Ends(at + 1))} :
        /\ setup.status \notin {"NOT_READY", "RAISES"}
        /\ ~setup.eligible
        /\ Reach(setup)
        /\ seen' = [status |-> setup.status]
        /\ UNCHANGED zones

\* _available_structure, the triggers and the plan.
SetupEligible ==
    \E setup \in {CachedSetup(Ends(at + 1))} :
        /\ setup.status # "NOT_READY"
        /\ setup.eligible
        /\ Reach(setup)
        /\ LET end15 == VisibleEnd(market.c15, CandleStep, at + 1)
               c == Ending(market.c15, end15, TriggerBRows)
               f == Ending(frame15, end15, TriggerBRows)
               hour == Cut(market.hour, Ends(at + 1).hour, TargetRows1h)
               count15 == VisiblePivots(pivots.m15, at + 1)
               count1h == VisiblePivots(pivots.h1, at + 1)
               recent == PivotsSince(pivots.m15, count15, setup.hourly.episode)
           IN  /\ CanAdvance(zones.m15, count15)
               /\ CanAdvance(zones.h1, count1h)
               /\ zones' = [m15 |-> AdvanceZones(zones.m15, pivots.m15, count15),
                            h1  |-> AdvanceZones(zones.h1, pivots.h1, count1h)]
               /\ seen' = Decide(market.rule, setup, c, f, recent, ZonesOf(zones'.m15, c[1].t),
                                 hour, ZonesOf(zones'.h1, hour.c[1].t), at + 1)

\* A slot of a day the symbol is not a member of.
NotAMember ==
    /\ Reaches
    /\ seen' = << >>
    /\ UNCHANGED << inputs, zones, cache >>

Next == SetupNotReady \/ SetupRaises \/ SetupIneligible \/ SetupEligible \/ NotAMember

Spec == Init /\ [][Next]_vars

-----------------------------------------------------------------------------
(* What the scan promises. *)

\* The windowed and incremental evaluation of a slot decides what the
\* evaluation of the whole closed history decides: no window is too short,
\* no cached setup stale, and nothing that closes later is looked at.
ScanDecidesAsTheSource == seen # << >> => AsSource(seen) = SourceSlot(market, at)

\* The zones grown pivot by pivot are the zones merge_pivot_zones makes of
\* the same pivots.
IncrementalZonesAreMerged ==
    \A i \in {"m15", "h1"} :
        ZonesOf(zones[i], NaN) = MergeZones(Prefix(pivots[i], zones[i].next))

\* While one pullback lasts, its identity does not change from hour to hour:
\* a signal cannot be counted twice under two episodes.
Episode(setup) ==
    IF setup.status = "ONE_HOUR_EVALUATED" THEN setup.hourly.episode ELSE NaN
EpisodeKeepsItsIdentity ==
    \A x, y \in cache :
        /\ y.ends.hour = x.ends.hour + 1
        /\ Episode(x.setup) # NaN /\ Episode(y.setup) # NaN
        /\ x.setup.direction = y.setup.direction
        => Episode(x.setup) = Episode(y.setup)

\* An accepted plan never flatters itself: its stop is at least the buffer
\* beyond the invalidation price, its first target at least one risk away,
\* its second at least two and farther; no price was rounded in favour of the
\* trade, and none by a whole tick.
PlanIsConservative ==
    seen # << >> /\ seen.status \in {"ACCEPTED_PLAN", "REJECTED_REQUEST_BOUNDARY"} =>
        LET req == seen.plan.request
            es == seen.plan.stop
            sign == IF Long(req) THEN 1 ELSE -1
            tp1 == seen.plan.profit.tp1
            tp2 == seen.plan.profit.tp2
            impact == TickImpact(req, es, seen.plan.profit)
        IN  /\ sign * (es.entry - es.stop) = es.risk
            /\ sign * (tp1.price - es.entry) >= es.risk
            /\ sign * (tp2.price - es.entry) >= 2 * es.risk
            /\ sign * (tp2.price - tp1.price) > 0
            /\ sign * (es.entry - RawEntry(req)) >= 0
            /\ \A tp \in {tp1, tp2} : sign * (tp.raw - tp.price) >= 0
            /\ 0 <= impact.stop /\ impact.stop < 20 * req.tick
            /\ \A p \in {"entry", "tp1", "tp2"} : impact[p] < req.tick

-----------------------------------------------------------------------------
(* The rules treat LONG and SHORT alike: the market reflected around a price
   is decided alike, with the direction and every price reflected. *)
Opposite(direction) == IF direction = "LONG" THEN "SHORT" ELSE "LONG"
Mirror(p) == IF p = NaN THEN NaN ELSE Pivot - p
MirrorCandle(k) ==
    [k EXCEPT !.open = Mirror(@), !.close = Mirror(@), !.high = Mirror(k.low), !.low = Mirror(k.high)]
MirrorRow(row) == [row EXCEPT !.sma = [w \in DOMAIN row.sma |-> Mirror(row.sma[w])]]
MirrorStream(s) ==
    [c |-> [i \in DOMAIN s.c |-> MirrorCandle(s.c[i])], f |-> [i \in DOMAIN s.f |-> MirrorRow(s.f[i])]]
MirrorMarket(m) ==
    [m EXCEPT !.c15 = [i \in DOMAIN m.c15 |-> MirrorCandle(m.c15[i])],
              !.hour = MirrorStream(m.hour), !.four = MirrorStream(m.four),
              !.day = MirrorStream(m.day)]

MirrorsPlan(plan, image) ==
    /\ image.request.direction = Opposite(plan.request.direction)
    /\ image.stop.entry = Mirror(plan.stop.entry)
    /\ image.stop.stop = Mirror(plan.stop.stop)
    /\ "profit" \in DOMAIN plan =>
          /\ image.profit.tp1.price = Mirror(plan.profit.tp1.price)
          /\ image.profit.tp2.price = Mirror(plan.profit.tp2.price)
Mirrors(decision, image) ==
    /\ decision.status = image.status
    /\ "plan" \in DOMAIN decision =>
          /\ decision.primary = image.primary /\ decision.both = image.both
          /\ MirrorsPlan(decision.plan, image.plan)

\* LONG and SHORT are written out separately in every rule; a market and its
\* reflection must still get reflected decisions, plans and prices.
DirectionsAreTreatedAlike == seen # << >> => Mirrors(AsSource(seen), SourceSlot(MirrorMarket(market), at))
=============================================================================
