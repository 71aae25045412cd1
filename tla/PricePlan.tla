------------------------------ MODULE PricePlan -----------------------------
(***************************************************************************)
(* Entry, stop and targets of a confirmed trigger (strategy/plans.py) and  *)
(* what the slot evaluation adds: the bound replay request and the effect  *)
(* of an approximate tick size (research/scan_trade_plan.py,               *)
(* research/replay_inputs.py).  Decimals are exact in the code; here a     *)
(* price is an integer and every product with a fraction of an ATR is kept *)
(* in twentieths, so nothing is rounded but where the code rounds to the   *)
(* tick grid.                                                              *)
(***************************************************************************)
EXTENDS TriggerRules

CONSTANTS
    StopTimes20,     \* stop_atr_multiplier in twentieths: 2, 3 or 4
    EntryTtl,        \* entry_ttl_bars: 2, 4 or 6
    TargetRows15,    \* 96 rows of 15m structure
    TargetRows1h,    \* 60 rows of hourly structure
    HourStep,        \* 15m units in an hour
    WindowEnd        \* where the DEV period ends

ASSUME PlanAssumption ==
    /\ StopTimes20 \in {2, 3, 4} /\ EntryTtl \in Nat \ {0}
    /\ {TargetRows15, TargetRows1h, HourStep} \subseteq Nat \ {0}
    /\ TargetRows15 <= TriggerBRows
    /\ WindowEnd \in Nat

FloorTo(x, unit) == unit * (x \div unit)
CeilTo(x, unit) == -FloorTo(-x, unit)

-----------------------------------------------------------------------------
(* build_entry_stop.  req: [direction, high, low, invalidation, atr, tick] *)
RawEntry(req) == IF Long(req) THEN req.high + req.tick ELSE req.low - req.tick

EntryPrice(req) ==
    IF Long(req) THEN CeilTo(RawEntry(req), req.tick)
                 ELSE FloorTo(RawEntry(req), req.tick)

StopBuffer20(req) == Larger(StopTimes20 * req.atr, 40 * req.tick)

\* Faulty: a SHORT stop is rounded towards the entry.
StopPriceFaulty(req) ==
    LET raw20 == IF Long(req) THEN 20 * req.invalidation - StopBuffer20(req)
                              ELSE 20 * req.invalidation + StopBuffer20(req)
    IN  FloorTo(raw20, 20 * req.tick) \div 20

StopPrice(req) ==
    LET raw20 == IF Long(req) THEN 20 * req.invalidation - StopBuffer20(req)
                              ELSE 20 * req.invalidation + StopBuffer20(req)
        grid20 == IF Long(req) THEN FloorTo(raw20, 20 * req.tick)
                               ELSE CeilTo(raw20, 20 * req.tick)
    IN  grid20 \div 20

EntryStopReasons(req, entry, stop) ==
    LET risk == Abs(entry - stop)
        breaks == IF Long(req) THEN entry > req.high ELSE entry < req.low
        side == IF Long(req) THEN stop < entry ELSE stop > entry
    IN  IF req.tick <= 0 \/ req.atr <= 0 THEN {"INPUT_INVALID"}
        ELSE   (IF entry < 0 \/ stop < 0 \/ ~breaks THEN {"PRICE_RULE_INVALID"} ELSE {})
          \cup (IF ~side THEN {"STOP_SIDE_INVALID"} ELSE {})
          \cup (IF 2 * risk < req.atr \/ risk > 2 * req.atr THEN {"STOP_DISTANCE_INVALID"} ELSE {})

EntryStop(req) ==
    LET entry == EntryPrice(req)
        stop == StopPrice(req)
    IN  [accepted |-> EntryStopReasons(req, entry, stop) = {},
         entry    |-> entry,
         stop     |-> stop,
         risk     |-> Abs(entry - stop)]

-----------------------------------------------------------------------------
(* build_take_profit.  Targets stop one tick short of an opposing zone. *)
TargetKind(req) == IF Long(req) THEN "HIGH" ELSE "LOW"

\* _lookback_start, on the rows closed at the confirmation
LookbackStart(c, rows) == c[Len(c) - rows + 1].t

Target(zone, source, es, req) ==
    LET raw == IF Long(req) THEN zone.lower - req.tick ELSE zone.upper + req.tick
        price == IF Long(req) THEN FloorTo(raw, req.tick) ELSE CeilTo(raw, req.tick)
    IN  [zone      |-> zone,
         source    |-> source,
         confirmed |-> zone.confirmed,
         raw       |-> raw,
         price     |-> price,
         distance  |-> IF Long(req) THEN price - es.entry ELSE es.entry - price]

Candidates(zones, source, since, es, req, close) ==
    {t \in {Target(z, source, es, req) :
                z \in {y \in zones : /\ y.kind = TargetKind(req)
                                     /\ y.confirmed <= close /\ y.last >= since}} :
        t.distance > 0}

\* nearest, then newest, then 15m before 1h
Precedes(s, t) ==
    \/ s.distance < t.distance
    \/ s.distance = t.distance /\ s.confirmed > t.confirmed
    \/ s.distance = t.distance /\ s.confirmed = t.confirmed /\ s.source <= t.source

FirstOf(ts) == CHOOSE s \in ts : \A t \in ts : Precedes(s, t)

Extension(req, es, times) ==
    LET distance == Larger(times * es.risk, times * req.atr)
        price == IF Long(req) THEN FloorTo(es.entry + distance, req.tick)
                              ELSE CeilTo(es.entry - distance, req.tick)
    IN  [zone |-> {}, source |-> 0, price |-> price,
         raw |-> IF Long(req) THEN es.entry + distance ELSE es.entry - distance,
         distance |-> Abs(price - es.entry)]

TakeProfit(es, req, targets) ==
    IF targets # {} /\ FirstOf(targets).distance < es.risk
    THEN [accepted |-> FALSE, reason |-> "OBSTACLE_LT_1R"]
    ELSE LET tp1 == IF targets # {} THEN FirstOf(targets) ELSE Extension(req, es, 1)
             far == {t \in targets : /\ t.zone # tp1.zone
                                     /\ t.distance >= 2 * es.risk
                                     /\ t.distance > tp1.distance}
             tp2 == IF far # {} THEN FirstOf(far) ELSE Extension(req, es, 2)
             valid == /\ tp1.distance >= es.risk
                      /\ tp2.distance >= 2 * es.risk
                      /\ tp2.distance > tp1.distance
         IN  [accepted |-> valid,
              reason   |-> IF valid THEN "TAKE_PROFIT_ACCEPTED" ELSE "TP_PLAN_INVALID",
              tp1      |-> tp1,
              tp2      |-> tp2]

\* _approximate_tick_impact: how far rounding moved each price of a plan.
TickImpact(req, es, tp) ==
    [entry |-> Abs(es.entry - RawEntry(req)),
     stop  |-> 20 * Abs(es.stop - req.invalidation) - StopBuffer20(req),
     tp1   |-> Abs(tp.tp1.price - tp.tp1.raw),
     tp2   |-> Abs(tp.tp2.price - tp.tp2.raw)]

-----------------------------------------------------------------------------
(* replay_data_bounds and build_dev_replay_data_request: the replay window
   is the entry's life and the longest hold after it; it must end inside
   DEV and inside the one rule in force. *)
CONSTANT HoldBars    \* the longest time a trade may stay open
ASSUME HoldAssumption == HoldBars \in Nat

RequestEnd(at) == at + EntryTtl + HoldBars
RequestFits(at, rule) ==
    /\ RequestEnd(at) <= WindowEnd
    /\ rule.from <= at /\ RequestEnd(at) <= rule.to

-----------------------------------------------------------------------------
(* The plan of one slot. *)
Request(setup, decision, c, f, tick) ==
    [direction    |-> setup.direction,
     high         |-> Latest(c).high,
     low          |-> Latest(c).low,
     invalidation |-> decision.invalidation,
     atr          |-> Latest(f).atr,
     tick         |-> tick]

PlanOf(req, c, zones15, hourly, zones1h, at, rule) ==
    LET es == EntryStop(req) IN
    IF ~es.accepted THEN [status |-> "REJECTED_ENTRY_STOP", request |-> req, stop |-> es]
    ELSE IF Len(c) < TargetRows15 \/ Len(hourly) < TargetRows1h
    THEN [status |-> "PLAN_INPUT_ERROR", request |-> req, stop |-> es]
    ELSE LET targets ==
                     Candidates(zones15, 1, LookbackStart(c, TargetRows15), es, req, at)
                \cup Candidates(zones1h, 2, LookbackStart(hourly, TargetRows1h), es, req, at)
             tp == TakeProfit(es, req, targets)
         IN  IF ~tp.accepted THEN [status |-> "REJECTED_TAKE_PROFIT", request |-> req, stop |-> es]
             ELSE [status  |-> IF RequestFits(at, rule) THEN "ACCEPTED_PLAN"
                               ELSE "REJECTED_REQUEST_BOUNDARY",
                   request |-> req, stop |-> es, profit |-> tp]
=============================================================================
