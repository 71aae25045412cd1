--------------------------- MODULE SlotScan_proofs ---------------------------
(***************************************************************************)
(* The scan of one symbol, for any market, any windows and any tick: the   *)
(* prices of its plans, the zones it grows slot by slot, the identity it   *)
(* gives a pullback, and that every slot decides from windows, counts and  *)
(* caches what its whole closed history decides.                           *)
(***************************************************************************)
EXTENDS SlotScan, SequenceTheorems, FoldTheorems

-----------------------------------------------------------------------------
(* Rounding to the tick, entry and stop *)

\* Rounding down to a multiple of the unit.
LEMMA FloorBounds ==
  ASSUME NEW x \in Int, NEW unit \in Nat \ {0}
  PROVE  /\ FloorTo(x, unit) \in Int /\ x \div unit \in Int
         /\ FloorTo(x, unit) <= x /\ x < FloorTo(x, unit) + unit
BY DEF FloorTo

\* Rounding up to a multiple of the unit.
LEMMA CeilBounds ==
  ASSUME NEW x \in Int, NEW unit \in Nat \ {0}
  PROVE  /\ CeilTo(x, unit) \in Int
         /\ x <= CeilTo(x, unit) /\ CeilTo(x, unit) < x + unit
<1>1. -x \in Int
  OBVIOUS
<1>2. /\ FloorTo(-x, unit) \in Int
      /\ FloorTo(-x, unit) <= -x /\ -x < FloorTo(-x, unit) + unit
  BY <1>1, FloorBounds
<1> QED BY <1>2 DEF CeilTo

\* Rounding down does not pass a multiple that is not above.
LEMMA FloorOfMore ==
  ASSUME NEW k \in Int, NEW d \in Nat, NEW unit \in Nat \ {0}
  PROVE  unit * k <= FloorTo(unit * k + d, unit)
<1> DEFINE q == (unit * k + d) \div unit
<1>1. q \in Int /\ unit * k + d < unit * q + unit
  BY FloorBounds DEF FloorTo
<1>2. k < q + 1
  <2> HIDE DEF q
  <2> SUFFICES ASSUME q + 1 <= k PROVE FALSE
    BY <1>1
  <2>1. unit * (q + 1) <= unit * k
    BY <1>1
  <2>2. unit * (q + 1) = unit * q + unit
    BY <1>1
  <2> QED BY <1>1, <2>1, <2>2
<1>3. unit * k <= unit * q
  <2> HIDE DEF q
  <2> QED BY <1>1, <1>2
<1> QED BY <1>3 DEF FloorTo

\* Rounding up does not pass a multiple that is not below.
LEMMA CeilOfLess ==
  ASSUME NEW k \in Int, NEW d \in Nat, NEW unit \in Nat \ {0}
  PROVE  CeilTo(unit * k - d, unit) <= unit * k
<1>1. -k \in Int /\ unit * (-k) = -(unit * k) /\ unit * k \in Int
  OBVIOUS
<1>2. unit * (-k) <= FloorTo(unit * (-k) + d, unit)
  BY <1>1, FloorOfMore
<1>3. unit * (-k) + d = -(unit * k - d)
  BY <1>1
<1>4. FloorTo(-(unit * k - d), unit) \in Int
  BY <1>1, FloorBounds
<1> QED BY <1>1, <1>2, <1>3, <1>4 DEF CeilTo

\* What a plan is made from, by the tick of the rule.
RequestType ==
  [direction : {"LONG", "SHORT"}, high : Int, low : Int, invalidation : Int, atr : Int, tick : Int]

\* An accepted entry lies on the grid, at most a tick beyond the broken price, and
\* the stop on its other side, at most a tick beyond the buffer.
LEMMA EntryStopIsConservative ==
  ASSUME NEW req \in RequestType, EntryStop(req).accepted
  PROVE  LET es == EntryStop(req)
             sign == IF Long(req) THEN 1 ELSE -1
         IN  /\ req.tick \in Nat \ {0} /\ req.atr \in Nat \ {0}
             /\ es.entry \in Int /\ es.stop \in Int /\ es.risk \in Nat
             /\ \E k \in Int : es.entry = req.tick * k
             /\ sign * (es.entry - es.stop) = es.risk
             /\ RawEntry(req) \in Int
             /\ sign * (es.entry - RawEntry(req)) >= 0
             /\ Abs(es.entry - RawEntry(req)) < req.tick
             /\ 0 <= 20 * Abs(es.stop - req.invalidation) - StopBuffer20(req)
             /\ 20 * Abs(es.stop - req.invalidation) - StopBuffer20(req) < 20 * req.tick
<1> DEFINE es == EntryStop(req)
           tick == req.tick
           buffer == StopBuffer20(req)
           raw == RawEntry(req)
<1>1. /\ req.high \in Int /\ req.low \in Int /\ req.invalidation \in Int /\ req.atr \in Int
      /\ req.tick \in Int /\ req.direction \in {"LONG", "SHORT"}
  BY DEF RequestType
<1>2. /\ EntryStopReasons(req, EntryPrice(req), StopPrice(req)) = {}
      /\ es.entry = EntryPrice(req) /\ es.stop = StopPrice(req) /\ es.risk = Abs(es.entry - es.stop)
  BY DEF EntryStop
<1>3. tick \in Nat \ {0} /\ req.atr \in Nat \ {0}
  BY <1>1, <1>2 DEF EntryStopReasons
<1>4. IF Long(req) THEN StopPrice(req) < EntryPrice(req) ELSE StopPrice(req) > EntryPrice(req)
  BY <1>2, <1>3 DEF EntryStopReasons
<1>5. raw \in Int /\ buffer \in Int /\ buffer >= 40 * tick /\ 20 * tick \in Nat \ {0}
  BY <1>1, <1>3, PlanAssumption DEF RawEntry, StopBuffer20, Larger
<1>6. /\ es.entry \in Int /\ \E k \in Int : es.entry = tick * k
      /\ IF Long(req) THEN raw <= es.entry /\ es.entry < raw + tick
                      ELSE es.entry <= raw /\ raw < es.entry + tick
  <2>1. CASE Long(req)
    <3>1. es.entry = CeilTo(raw, tick)
      BY <1>2, <2>1 DEF EntryPrice
    <3>2. CeilTo(raw, tick) \in Int /\ raw <= CeilTo(raw, tick) /\ CeilTo(raw, tick) < raw + tick
      BY <1>3, <1>5, CeilBounds
    <3>3. (-raw) \div tick \in Int
      <4>1. PICK w \in Int : w = -raw
        BY <1>5
      <4>2. w \div tick \in Int
        BY <1>3, FloorBounds
      <4> QED BY <4>1, <4>2
    <3>4. CeilTo(raw, tick) = tick * (-((-raw) \div tick))
      BY <1>3, <3>3 DEF CeilTo, FloorTo
    <3> HIDE DEF raw, tick, es
    <3> QED BY <2>1, <3>1, <3>2, <3>3, <3>4
  <2>2. CASE ~Long(req)
    <3>1. es.entry = FloorTo(raw, tick)
      BY <1>2, <2>2 DEF EntryPrice
    <3>2. FloorTo(raw, tick) \in Int /\ FloorTo(raw, tick) <= raw /\ raw < FloorTo(raw, tick) + tick
      BY <1>3, <1>5, FloorBounds
    <3>3. raw \div tick \in Int /\ FloorTo(raw, tick) = tick * (raw \div tick)
      BY <1>3, <1>5, FloorBounds DEF FloorTo
    <3> HIDE DEF raw, tick, es
    <3> QED BY <2>2, <3>1, <3>2, <3>3
  <2> QED BY <2>1, <2>2
<1> DEFINE inside == IF Long(req) THEN 20 * req.invalidation - buffer
                                  ELSE 20 * req.invalidation + buffer
<1>7. /\ es.stop \in Int
      /\ IF Long(req) THEN 20 * es.stop <= inside /\ inside < 20 * es.stop + 20 * tick
                      ELSE inside <= 20 * es.stop /\ 20 * es.stop < inside + 20 * tick
  <2>1. inside \in Int
    BY <1>1, <1>5
  <2>2. es.stop = (IF Long(req) THEN FloorTo(inside, 20 * tick) ELSE CeilTo(inside, 20 * tick)) \div 20
    BY <1>2 DEF StopPrice
  <2> DEFINE q == IF Long(req) THEN inside \div (20 * tick) ELSE -((-inside) \div (20 * tick))
  <2> HIDE DEF inside
  <2>3. CASE Long(req)
    <3>1. q \in Int /\ FloorTo(inside, 20 * tick) = (20 * tick) * q
      BY <1>5, <2>1, <2>3, FloorBounds DEF FloorTo
    <3>2. FloorTo(inside, 20 * tick) <= inside /\ inside < FloorTo(inside, 20 * tick) + 20 * tick
      BY <1>5, <2>1, FloorBounds
    <3> HIDE DEF q, tick, es
    <3>3. (20 * tick) * q = 20 * (tick * q) /\ tick * q \in Int
      BY <1>3, <3>1
    <3>4. (20 * (tick * q)) \div 20 = tick * q
      BY <3>3
    <3> QED BY <1>3, <2>1, <2>2, <2>3, <3>1, <3>2, <3>3, <3>4
  <2>4. CASE ~Long(req)
    <3>1. (-inside) \div (20 * tick) \in Int
      <4>1. PICK w \in Int : w = -inside
        BY <2>1
      <4>2. w \div (20 * tick) \in Int
        BY <1>5, FloorBounds
      <4> QED BY <4>1, <4>2
    <3>2. q \in Int /\ CeilTo(inside, 20 * tick) = (20 * tick) * q
      BY <1>5, <2>1, <2>4, <3>1 DEF CeilTo, FloorTo
    <3>3. inside <= CeilTo(inside, 20 * tick) /\ CeilTo(inside, 20 * tick) < inside + 20 * tick
      BY <1>5, <2>1, CeilBounds
    <3> HIDE DEF q, tick, es
    <3>4. (20 * tick) * q = 20 * (tick * q) /\ tick * q \in Int
      BY <1>3, <3>2
    <3>5. (20 * (tick * q)) \div 20 = tick * q
      BY <3>4
    <3> QED BY <1>3, <2>1, <2>2, <2>4, <3>2, <3>3, <3>4, <3>5
  <2> QED BY <2>3, <2>4
<1>8. /\ 0 <= 20 * Abs(es.stop - req.invalidation) - buffer
      /\ 20 * Abs(es.stop - req.invalidation) - buffer < 20 * tick
  <2> HIDE DEF es, tick, buffer, raw
  <2> QED BY <1>1, <1>3, <1>5, <1>7 DEF Abs
<1>9. /\ es.risk \in Nat /\ (IF Long(req) THEN 1 ELSE -1) * (es.entry - es.stop) = es.risk
  <2> HIDE DEF es
  <2> QED BY <1>2, <1>4, <1>6, <1>7 DEF Abs
<1>10. /\ (IF Long(req) THEN 1 ELSE -1) * (es.entry - raw) >= 0
       /\ Abs(es.entry - raw) < tick
  <2> HIDE DEF es, tick, raw
  <2> QED BY <1>3, <1>5, <1>6 DEF Abs
<1> QED BY <1>3, <1>5, <1>6, <1>7, <1>8, <1>9, <1>10

-----------------------------------------------------------------------------
(* Targets *)

\* What a target and the search for one need of a zone.
IsZone(zone) == zone.lower \in Int /\ zone.upper \in Int /\ zone.confirmed \in Int

\* The distance of a target is what the trade gains, and its price was rounded
\* towards the entry by less than a tick.
Modest(t, entry, req) ==
  LET sign == IF Long(req) THEN 1 ELSE -1
  IN  /\ t.price \in Int /\ t.raw \in Int /\ t.distance \in Int
      /\ sign * (t.price - entry) = t.distance
      /\ sign * (t.raw - t.price) >= 0
      /\ Abs(t.price - t.raw) < req.tick

\* The target in front of a zone (_target of strategy/plans.py) is modest.
LEMMA TargetIsModest ==
  ASSUME NEW req \in RequestType, req.tick \in Nat \ {0}, NEW es, es.entry \in Int,
         NEW zone, IsZone(zone), NEW source
  PROVE  Modest(Target(zone, source, es, req), es.entry, req)
<1> DEFINE t == Target(zone, source, es, req)
           raw == IF Long(req) THEN zone.lower - req.tick ELSE zone.upper + req.tick
           tick == req.tick
<1>1. raw \in Int /\ tick \in Nat \ {0}
  BY DEF IsZone
<1>2. /\ t.raw = raw
      /\ t.price = IF Long(req) THEN FloorTo(raw, tick) ELSE CeilTo(raw, tick)
      /\ t.distance = IF Long(req) THEN t.price - es.entry ELSE es.entry - t.price
  BY DEF Target
<1> HIDE DEF t, raw, tick
<1>3. CASE Long(req)
  <2>1. FloorTo(raw, tick) \in Int /\ FloorTo(raw, tick) <= raw /\ raw < FloorTo(raw, tick) + tick
    BY <1>1, FloorBounds
  <2>2. t.price \in Int /\ t.price <= t.raw /\ t.raw < t.price + tick /\ t.raw \in Int
        /\ t.distance = t.price - es.entry
    BY <1>1, <1>2, <1>3, <2>1
  <2> QED BY <1>1, <1>3, <2>2 DEF Modest, Abs, t, tick
<1>4. CASE ~Long(req)
  <2>1. CeilTo(raw, tick) \in Int /\ raw <= CeilTo(raw, tick) /\ CeilTo(raw, tick) < raw + tick
    BY <1>1, CeilBounds
  <2>2. t.price \in Int /\ t.raw <= t.price /\ t.price < t.raw + tick /\ t.raw \in Int
        /\ t.distance = es.entry - t.price
    BY <1>1, <1>2, <1>4, <2>1
  <2> QED BY <1>1, <1>4, <2>2 DEF Modest, Abs, t, tick
<1> QED BY <1>3, <1>4

\* So is the target that a multiple of the risk or of the range gives.
LEMMA ExtensionIsModest ==
  ASSUME NEW req \in RequestType, req.tick \in Nat \ {0}, NEW es, NEW k \in Int,
         es.entry = req.tick * k, es.risk \in Nat, NEW times \in Nat
  PROVE  Modest(Extension(req, es, times), es.entry, req)
<1> DEFINE t == Extension(req, es, times)
           d == Larger(times * es.risk, times * req.atr)
           tick == req.tick
           raw == IF Long(req) THEN es.entry + d ELSE es.entry - d
<1>1. d \in Nat /\ tick \in Nat \ {0} /\ es.entry \in Int /\ raw \in Int
  <2>1. times * es.risk \in Nat /\ times * req.atr \in Int /\ es.entry \in Int
    BY DEF RequestType
  <2> QED BY <2>1 DEF Larger
<1>2. /\ t.raw = raw
      /\ t.price = IF Long(req) THEN FloorTo(es.entry + d, tick) ELSE CeilTo(es.entry - d, tick)
      /\ t.distance = Abs(t.price - es.entry)
  BY DEF Extension
<1>3. es.entry = tick * k
  OBVIOUS
<1> HIDE DEF t, d, tick
<1>4. CASE Long(req)
  <2>1. FloorTo(raw, tick) \in Int /\ FloorTo(raw, tick) <= raw /\ raw < FloorTo(raw, tick) + tick
    BY <1>1, FloorBounds
  <2>2. es.entry <= FloorTo(raw, tick)
    BY <1>1, <1>3, <1>4, FloorOfMore
  <2>3. t.price \in Int /\ t.price <= t.raw /\ t.raw < t.price + tick /\ t.raw \in Int
        /\ t.distance = t.price - es.entry
    BY <1>1, <1>2, <1>4, <2>1, <2>2 DEF Abs
  <2> QED BY <1>1, <1>4, <2>3 DEF Modest, Abs, t, tick
<1>5. CASE ~Long(req)
  <2>1. CeilTo(raw, tick) \in Int /\ raw <= CeilTo(raw, tick) /\ CeilTo(raw, tick) < raw + tick
    BY <1>1, CeilBounds
  <2>2. CeilTo(raw, tick) <= es.entry
    BY <1>1, <1>3, <1>5, CeilOfLess
  <2>3. t.price \in Int /\ t.raw <= t.price /\ t.price < t.raw + tick /\ t.raw \in Int
        /\ t.distance = es.entry - t.price
    BY <1>1, <1>2, <1>5, <2>1, <2>2 DEF Abs
  <2> QED BY <1>1, <1>5, <2>3 DEF Modest, Abs, t, tick
<1> QED BY <1>4, <1>5

\* There is a nearest target.
LEMMA FirstIsATarget ==
  ASSUME NEW ts, ts # {}, NEW close \in Int,
         \A t \in ts : /\ t.distance \in Nat /\ t.confirmed \in Int /\ t.confirmed <= close
                       /\ t.source \in {1, 2}
  PROVE  FirstOf(ts) \in ts
<1> DEFINE Distances == {t.distance : t \in ts}
<1>1. PICK near \in ts : \A t \in ts : near.distance <= t.distance
  <2>1. Distances \in SUBSET Nat /\ Distances # {}
    OBVIOUS
  <2>2. PICK d \in Distances : \A e \in Distances : d <= e
    BY <2>1, SmallestExists
  <2>3. PICK t \in ts : t.distance = d
    OBVIOUS
  <2> QED BY <2>2, <2>3
<1> DEFINE Nearest == {t \in ts : t.distance = near.distance}
           Ages == {close - t.confirmed : t \in Nearest}
<1>2. PICK new \in Nearest : \A t \in Nearest : t.confirmed <= new.confirmed
  <2>1. \A t \in Nearest : close - t.confirmed \in Nat
    OBVIOUS
  <2>2. Ages \in SUBSET Nat /\ Ages # {}
    BY <2>1
  <2>3. PICK a \in Ages : \A e \in Ages : a <= e
    BY <2>2, SmallestExists
  <2>4. PICK t \in Nearest : close - t.confirmed = a
    OBVIOUS
  <2>5. ASSUME NEW u \in Nearest PROVE u.confirmed <= t.confirmed
    <3>1. close - u.confirmed \in Ages
      OBVIOUS
    <3>2. close - t.confirmed <= close - u.confirmed
      BY <2>3, <2>4, <3>1
    <3> QED BY <3>2
  <2> QED BY <2>5
<1> DEFINE Newest == {t \in Nearest : t.confirmed = new.confirmed}
<1>3. PICK first \in Newest : \A t \in Newest : first.source <= t.source
  <2>1. new \in Newest
    OBVIOUS
  <2>2. CASE \E t \in Newest : t.source = 1
    BY <2>2
  <2>3. CASE \A t \in Newest : t.source # 1
    <3>1. \A t \in Newest : t.source = 2
      BY <2>3
    <3> QED BY <2>1, <3>1
  <2> QED BY <2>2, <2>3
<1>4. ASSUME NEW t \in ts PROVE Precedes(first, t)
  <2>1. first.distance = near.distance /\ first.confirmed = new.confirmed /\ first.distance <= t.distance
    BY <1>1
  <2>2. CASE t \notin Nearest
    BY <2>1, <2>2 DEF Precedes
  <2>3. CASE t \in Nearest \ Newest
    <3>1. t.confirmed <= new.confirmed /\ t.confirmed # new.confirmed
      BY <1>2, <2>3
    <3>2. new \in ts /\ t.distance = first.distance
      BY <2>1, <2>3
    <3> QED BY <2>1, <3>1, <3>2 DEF Precedes
  <2>4. CASE t \in Newest
    <3>1. first.source <= t.source
      BY <1>3, <2>4
    <3> QED BY <2>1, <2>4, <3>1 DEF Precedes
  <2> QED BY <2>2, <2>3, <2>4
<1>5. first \in ts
  OBVIOUS
<1> QED BY <1>4, <1>5 DEF FirstOf

\* Targets are beyond the entry, known at the close, and modest.
LEMMA CandidatesAreModest ==
  ASSUME NEW req \in RequestType, req.tick \in Nat \ {0}, NEW es, es.entry \in Int,
         NEW zoneSet, \A z \in zoneSet : IsZone(z), NEW source \in {1, 2}, NEW since, NEW close \in Int,
         NEW t \in Candidates(zoneSet, source, since, es, req, close)
  PROVE  /\ t.distance \in Nat /\ t.confirmed \in Int /\ t.confirmed <= close
         /\ t.source \in {1, 2} /\ Modest(t, es.entry, req)
<1>1. PICK z \in zoneSet : /\ z.confirmed <= close /\ t = Target(z, source, es, req)
                           /\ t.distance > 0
  BY DEF Candidates
<1>2. Modest(t, es.entry, req)
  BY <1>1, TargetIsModest
<1>3. t.confirmed = z.confirmed /\ t.source = source
  BY <1>1 DEF Target
<1>4. t.distance \in Int
  BY <1>2 DEF Modest
<1> QED BY <1>1, <1>2, <1>3, <1>4 DEF IsZone

\* What PlanIsConservative says of a plan.
Conservative(plan) ==
  LET req == plan.request
      es == plan.stop
      sign == IF Long(req) THEN 1 ELSE -1
      tp1 == plan.profit.tp1
      tp2 == plan.profit.tp2
      impact == TickImpact(req, es, plan.profit)
  IN  /\ sign * (es.entry - es.stop) = es.risk
      /\ sign * (tp1.price - es.entry) >= es.risk
      /\ sign * (tp2.price - es.entry) >= 2 * es.risk
      /\ sign * (tp2.price - tp1.price) > 0
      /\ sign * (es.entry - RawEntry(req)) >= 0
      /\ \A tp \in {tp1, tp2} : sign * (tp.raw - tp.price) >= 0
      /\ 0 <= impact.stop /\ impact.stop < 20 * req.tick
      /\ \A p \in {"entry", "tp1", "tp2"} : impact[p] < req.tick

\* Accepted targets pay their risks, whether they come from zones or from an extension.
LEMMA TakeProfitIsConservative ==
  ASSUME NEW req \in RequestType, req.tick \in Nat \ {0}, NEW es, NEW k \in Int,
         es.entry = req.tick * k, es.risk \in Nat, NEW close \in Int, NEW targets,
         \A t \in targets : /\ t.distance \in Nat /\ t.confirmed \in Int /\ t.confirmed <= close
                            /\ t.source \in {1, 2} /\ Modest(t, es.entry, req),
         TakeProfit(es, req, targets).accepted
  PROVE  LET tp == TakeProfit(es, req, targets)
         IN  /\ Modest(tp.tp1, es.entry, req) /\ tp.tp1.distance >= es.risk
             /\ Modest(tp.tp2, es.entry, req) /\ tp.tp2.distance >= 2 * es.risk
             /\ tp.tp2.distance > tp.tp1.distance
<1> DEFINE tp1 == IF targets # {} THEN FirstOf(targets) ELSE Extension(req, es, 1)
           far == {t \in targets : /\ t.zone # tp1.zone
                                   /\ t.distance >= 2 * es.risk
                                   /\ t.distance > tp1.distance}
           tp2 == IF far # {} THEN FirstOf(far) ELSE Extension(req, es, 2)
           tp == TakeProfit(es, req, targets)
<1>1. /\ tp.tp1 = tp1 /\ tp.tp2 = tp2
      /\ tp1.distance >= es.risk /\ tp2.distance >= 2 * es.risk /\ tp2.distance > tp1.distance
  BY DEF TakeProfit
<1>2. Modest(tp1, es.entry, req)
  <2>1. CASE targets # {}
    <3>1. FirstOf(targets) \in targets
      BY <2>1, FirstIsATarget
    <3> QED BY <2>1, <3>1
  <2>2. CASE targets = {}
    BY <2>2, ExtensionIsModest
  <2> QED BY <2>1, <2>2
<1>3. Modest(tp2, es.entry, req)
  <2> HIDE DEF tp1
  <2>0. far \subseteq targets
    OBVIOUS
  <2> HIDE DEF far
  <2>1. CASE far # {}
    <3>1. FirstOf(far) \in far
      BY <2>0, <2>1, FirstIsATarget
    <3> QED BY <2>0, <2>1, <3>1
  <2>2. CASE far = {}
    BY <2>2, ExtensionIsModest
  <2> QED BY <2>1, <2>2
<1> HIDE DEF tp1, tp2, tp
<1> QED BY <1>1, <1>2, <1>3 DEF tp

\* Every plan that a typed request and typed zones give is conservative.
LEMMA PlansAreConservative ==
  ASSUME NEW req \in RequestType, NEW zones15, NEW zones1h, \A z \in zones15 \cup zones1h : IsZone(z),
         NEW c, NEW hourly, NEW close \in Int, NEW rule,
         PlanOf(req, c, zones15, hourly, zones1h, close, rule).status
            \in {"ACCEPTED_PLAN", "REJECTED_REQUEST_BOUNDARY"}
  PROVE  Conservative(PlanOf(req, c, zones15, hourly, zones1h, close, rule))
<1> DEFINE es == EntryStop(req)
           targets == Candidates(zones15, 1, LookbackStart(c, TargetRows15), es, req, close)
                      \cup Candidates(zones1h, 2, LookbackStart(hourly, TargetRows1h), es, req, close)
           tp == TakeProfit(es, req, targets)
           plan == PlanOf(req, c, zones15, hourly, zones1h, close, rule)
           sign == IF Long(req) THEN 1 ELSE -1
<1>1. /\ es.accepted /\ tp.accepted
      /\ plan.request = req /\ plan.stop = es /\ plan.profit = tp
  BY DEF PlanOf
<1>2. /\ req.tick \in Nat \ {0} /\ es.entry \in Int /\ es.risk \in Nat
      /\ \E k \in Int : es.entry = req.tick * k
      /\ sign * (es.entry - es.stop) = es.risk
      /\ sign * (es.entry - RawEntry(req)) >= 0
      /\ Abs(es.entry - RawEntry(req)) < req.tick
      /\ 0 <= 20 * Abs(es.stop - req.invalidation) - StopBuffer20(req)
      /\ 20 * Abs(es.stop - req.invalidation) - StopBuffer20(req) < 20 * req.tick
  BY <1>1, EntryStopIsConservative
<1> HIDE DEF es
<1>3. \A t \in targets : /\ t.distance \in Nat /\ t.confirmed \in Int /\ t.confirmed <= close
                         /\ t.source \in {1, 2} /\ Modest(t, es.entry, req)
  BY <1>2, CandidatesAreModest
<1> HIDE DEF targets
<1>4. /\ Modest(tp.tp1, es.entry, req) /\ tp.tp1.distance >= es.risk
      /\ Modest(tp.tp2, es.entry, req) /\ tp.tp2.distance >= 2 * es.risk
      /\ tp.tp2.distance > tp.tp1.distance
  BY <1>1, <1>2, <1>3, TakeProfitIsConservative
<1> HIDE DEF tp, plan
<1>5. ASSUME NEW t \in {tp.tp1, tp.tp2}
      PROVE  /\ t.price \in Int /\ sign * (t.price - es.entry) = t.distance
             /\ sign * (t.raw - t.price) >= 0 /\ Abs(t.price - t.raw) < req.tick
  BY <1>4 DEF Modest
<1>6. sign * (tp.tp2.price - tp.tp1.price) = tp.tp2.distance - tp.tp1.distance
  BY <1>2, <1>5
<1>7. /\ TickImpact(req, es, tp).entry < req.tick
      /\ TickImpact(req, es, tp).tp1 < req.tick /\ TickImpact(req, es, tp).tp2 < req.tick
      /\ 0 <= TickImpact(req, es, tp).stop /\ TickImpact(req, es, tp).stop < 20 * req.tick
  BY <1>2, <1>5 DEF TickImpact
<1>8. \A p \in {"entry", "tp1", "tp2"} : TickImpact(req, es, tp)[p] < req.tick
  BY <1>7
<1>9. /\ tp.tp1.distance \in Int /\ tp.tp2.distance \in Int
      /\ tp.tp2.distance - tp.tp1.distance > 0
  BY <1>4 DEF Modest
<1> HIDE DEF sign
<1>10. sign * (tp.tp2.price - tp.tp1.price) > 0
  BY <1>6, <1>9
<1>11. sign * (tp.tp1.price - es.entry) >= es.risk /\ sign * (tp.tp2.price - es.entry) >= 2 * es.risk
  BY <1>4, <1>5
<1> QED BY <1>1, <1>2, <1>5, <1>7, <1>8, <1>10, <1>11 DEF Conservative, sign, plan

-----------------------------------------------------------------------------
(* Zones *)

PivotType ==
  {p \in [kind : PivotKinds, time : Times, confirmed : Int, price : Int, atr : Int] : p.time < p.confirmed}
Members == Seq(PivotType) \ {<< >>}
ZoneType ==
  {z \in [kind : PivotKinds, lower : Int, upper : Int, confirmed : Int, last : Times,
          members : Seq(PivotType)] : z.last < z.confirmed}

\* Some number is the smallest of finitely many.
LEMMA SmallestOfSome ==
  ASSUME NEW n \in Nat, NEW f, \A i \in 1..n : f[i] \in Int
  PROVE  n > 0 => \E i \in 1..n : \A j \in 1..n : f[i] <= f[j]
<1> DEFINE S == {m \in Nat : 0 < m /\ m <= n => \E i \in 1..m : \A j \in 1..m : f[i] <= f[j]}
<1>1. 0 \in S
  OBVIOUS
<1>2. ASSUME NEW m \in S PROVE m + 1 \in S
  <2> SUFFICES ASSUME m + 1 <= n
               PROVE  \E i \in 1..(m + 1) : \A j \in 1..(m + 1) : f[i] <= f[j]
    BY <1>2
  <2>1. CASE m = 0
    <3>1. 1..(m + 1) = {1} /\ f[1] \in Int
      BY <2>1
    <3> QED BY <3>1
  <2>2. CASE m > 0
    <3>1. PICK i \in 1..m : \A j \in 1..m : f[i] <= f[j]
      BY <1>2, <2>2
    <3>2. 1..(m + 1) = 1..m \cup {m + 1} /\ f[i] \in Int /\ f[m + 1] \in Int
      BY <2>2
    <3>3. \A j \in 1..m : f[j] \in Int
      BY <2>2
    <3>4. CASE f[i] <= f[m + 1]
      BY <3>1, <3>2, <3>4
    <3>5. CASE f[m + 1] < f[i]
      <4>1. \A j \in 1..m : f[m + 1] <= f[j]
        BY <3>1, <3>2, <3>3, <3>5
      <4> QED BY <3>2, <4>1
    <3> QED BY <3>2, <3>4, <3>5
  <2> QED BY <2>1, <2>2
<1>3. S = Nat
  <2> HIDE DEF S
  <2>1. S \in SUBSET Nat
    BY DEF S
  <2> QED BY <1>1, <1>2, <2>1, AllNumbers
<1>4. n \in S
  BY <1>3
<1> QED BY <1>4

\* The zone of some pivots lies between their smallest and largest price.
LEMMA ZonesAreTyped ==
  ASSUME NEW members \in Members
  PROVE  Zone(members) \in ZoneType /\ Zone(members).last = Last(members).time
<1> DEFINE n == Len(members)
           prices == {members[i].price : i \in DOMAIN members}
<1>1. n \in Nat /\ n > 0 /\ DOMAIN members = 1..n /\ \A i \in 1..n : members[i] \in PivotType
  BY LenProperties, ElementOfSeq, EmptySeq DEF Members
<1> HIDE DEF n
<1>2. \A i \in 1..n : members[i].price \in Int /\ -members[i].price \in Int
  BY <1>1 DEF PivotType
<1>3. \E p \in prices : \A q \in prices : p <= q
  <2> DEFINE f == [i \in 1..n |-> members[i].price]
  <2>1. PICK i \in 1..n : \A j \in 1..n : f[i] <= f[j]
    BY <1>1, <1>2, SmallestOfSome
  <2>2. members[i].price \in prices /\ \A q \in prices : \E j \in 1..n : q = members[j].price
    BY <1>1
  <2> QED BY <2>1, <2>2
<1>4. \E p \in prices : \A q \in prices : p >= q
  <2> DEFINE f == [i \in 1..n |-> -members[i].price]
  <2>1. PICK i \in 1..n : \A j \in 1..n : f[i] <= f[j]
    BY <1>1, <1>2, SmallestOfSome
  <2>2. members[i].price \in prices /\ \A q \in prices : \E j \in 1..n : q = members[j].price
    BY <1>1
  <2>3. \A j \in 1..n : members[j].price <= members[i].price
    BY <1>2, <2>1
  <2> QED BY <2>2, <2>3
<1>5. prices \subseteq Int
  BY <1>1, <1>2
<1> DEFINE low == CHOOSE p \in prices : \A q \in prices : p <= q
           up == CHOOSE p \in prices : \A q \in prices : p >= q
<1> HIDE DEF prices
<1>6. low \in Int /\ up \in Int
  BY <1>3, <1>4, <1>5
<1> HIDE DEF low, up
<1>7. Zone(members) = [kind |-> members[1].kind, lower |-> low, upper |-> up,
                       confirmed |-> members[n].confirmed, last |-> members[n].time,
                       members |-> members]
  BY DEF Zone, Last, low, up, n, prices
<1>8. members[1] \in PivotType /\ members[n] \in PivotType /\ members \in Seq(PivotType)
  BY <1>1 DEF Members
<1> QED BY <1>6, <1>7, <1>8 DEF ZoneType, PivotType, Last, n

\* The zones a list of runs has completed: all but the last.
Done(runs) == {Zone(runs[j]) : j \in 1..(Len(runs) - 1)}

\* A pivot extends the last run or completes it and opens the next.
LEMMA RunsExtend ==
  ASSUME NEW runs \in Seq(Members), NEW pivot \in PivotType
  PROVE  LET new == ExtendRuns(runs, pivot)
             joins == runs # << >> /\ JoinsZone(Last(Last(runs)), pivot)
         IN  /\ new \in Seq(Members) /\ new # << >>
             /\ Last(new) = IF joins THEN Append(Last(runs), pivot) ELSE << pivot >>
             /\ Done(new) = IF runs # << >> /\ ~joins THEN Done(runs) \cup {Zone(Last(runs))}
                            ELSE Done(runs)
<1> DEFINE n == Len(runs)
           new == ExtendRuns(runs, pivot)
           joins == runs # << >> /\ JoinsZone(Last(Last(runs)), pivot)
<1>1. n \in Nat /\ (runs # << >> <=> n > 0) /\ \A i \in 1..n : runs[i] \in Members
  BY LenProperties, ElementOfSeq, EmptySeq
<1>2. << pivot >> \in Members
  BY DEF Members
<1>3. CASE joins
  <2>1. n > 0 /\ runs[n] \in Members /\ Last(runs) = runs[n]
    BY <1>1, <1>3 DEF Last
  <2>2. Append(runs[n], pivot) \in Members
    BY <2>1, AppendProperties DEF Members
  <2>3. /\ Front(runs) \in Seq(Members) /\ Len(Front(runs)) = n - 1
        /\ \A i \in 1..(n - 1) : Front(runs)[i] = runs[i]
    <3>1. \A i \in 1..(n - 1) : runs[i] \in Members
      BY <1>1
    <3>2. /\ SubSeq(runs, 1, n - 1) \in Seq(Members)
          /\ Len(SubSeq(runs, 1, n - 1)) = IF 1 <= n - 1 THEN n - 1 - 1 + 1 ELSE 0
          /\ \A i \in 1..(n - 1 - 1 + 1) : SubSeq(runs, 1, n - 1)[i] = runs[1 + i - 1]
      BY <1>1, <3>1, SubSeqProperties
    <3>3. (IF 1 <= n - 1 THEN n - 1 - 1 + 1 ELSE 0) = n - 1 /\ n - 1 - 1 + 1 = n - 1
          /\ \A i \in 1..(n - 1) : 1 + i - 1 = i
      <4> HIDE DEF n
      <4> QED BY <1>1, <2>1
    <3>4. \A i \in 1..(n - 1) : SubSeq(runs, 1, n - 1)[i] = runs[i]
      BY <3>2, <3>3
    <3> QED BY <3>2, <3>3, <3>4 DEF Front
  <2>4. new = Append(Front(runs), Append(runs[n], pivot))
    BY <1>3, <2>1 DEF ExtendRuns
  <2>5. /\ new \in Seq(Members) /\ new # << >> /\ Len(new) = n
        /\ \A i \in 1..(n - 1) : new[i] = runs[i]
        /\ new[n] = Append(runs[n], pivot)
    BY <1>1, <2>1, <2>2, <2>3, <2>4, AppendProperties
  <2> HIDE DEF new
  <2>6. Done(new) = Done(runs)
    BY <1>1, <2>5 DEF Done, n
  <2> QED BY <1>3, <2>1, <2>5, <2>6 DEF Last, new
<1>4. CASE ~joins
  <2>1. new = Append(runs, << pivot >>)
    BY <1>4 DEF ExtendRuns
  <2>2. /\ new \in Seq(Members) /\ new # << >> /\ Len(new) = n + 1
        /\ \A i \in 1..n : new[i] = runs[i]
        /\ new[n + 1] = << pivot >>
    BY <1>1, <1>2, <2>1, AppendProperties
  <2> HIDE DEF new
  <2>3. Done(new) = {Zone(runs[j]) : j \in 1..n}
    BY <1>1, <2>2 DEF Done
  <2>4. CASE runs = << >>
    <3>1. 1..n = {} /\ 1..(n - 1) = {}
      BY <1>1, <2>4
    <3> QED BY <1>4, <2>2, <2>3, <2>4, <3>1 DEF Done, Last, new
  <2>5. CASE runs # << >>
    <3>1. 1..n = 1..(n - 1) \cup {n}
      BY <1>1, <2>5
    <3>2. Done(new) = Done(runs) \cup {Zone(runs[n])}
      BY <2>3, <3>1 DEF Done, n
    <3> QED BY <1>4, <2>2, <2>5, <3>2 DEF Last, new
  <2> QED BY <2>4, <2>5
<1> QED BY <1>3, <1>4

NextRuns(kind, runs, pivot) == IF pivot.kind = kind THEN ExtendRuns(runs, pivot) ELSE runs
RunsFold(p, kind, it) ==
  it = [S \in SUBSET DOMAIN p |-> IF S = {} THEN << >>
                                  ELSE NextRuns(kind, it[S \ {Max(S)}], p[Max(S)])]

\* The runs, as the fold they are.
LEMMA RunsAreAFold ==
  ASSUME NEW p, NEW kind, NEW it, RunsFold(p, kind, it)
  PROVE  \E jt : RunsFold(p, kind, jt) /\ Runs(p, kind) = jt[DOMAIN p]
BY DEF Runs, FoldLeft, MapThenFoldSet, RunsFold, NextRuns

\* The runs after each pivot.
LEMMA RunsSteps ==
  ASSUME NEW p \in Seq(PivotType), NEW kind
  PROVE  \E g : /\ g[0] = << >> /\ Runs(p, kind) = g[Len(p)]
                /\ \A i \in 1..Len(p) : g[i] = NextRuns(kind, g[i - 1], p[i])
<1> DEFINE n == Len(p)
           V == Seq(Members)
           H == [i \in 1..n |-> [v \in V |-> NextRuns(kind, v, p[i])]]
<1>1. n \in Nat /\ DOMAIN p = 1..n /\ \A i \in 1..n : p[i] \in PivotType
  BY LenProperties, ElementOfSeq
<1>2. \A i \in 1..n, v \in V : H[i][v] = NextRuns(kind, v, p[i]) /\ H[i][v] \in V
  <2>1. \A i \in 1..n, v \in V : NextRuns(kind, v, p[i]) \in V
    BY <1>1, RunsExtend DEF NextRuns
  <2> HIDE DEF n, V
  <2> QED BY <2>1
<1>3. << >> \in V
  BY EmptySeq
<1> HIDE DEF H, n, V
<1>4. PICK it : it \in [SUBSET (1..n) -> V] /\ IsFold(1..n, << >>, H, it)
  BY <1>1, <1>2, <1>3, FoldSteps
<1>5. RunsFold(p, kind, it)
  <2>1. \A S \in SUBSET (1..n) : S # {} =>
           H[Max(S)][it[S \ {Max(S)}]] = NextRuns(kind, it[S \ {Max(S)}], p[Max(S)])
    <3>1. \A S \in SUBSET (1..n) : S # {} => Max(S) \in 1..n /\ S \ {Max(S)} \in SUBSET (1..n)
      BY <1>1, FirstMembers
    <3> QED BY <1>2, <1>4, <3>1
  <2>2. it = [S \in SUBSET (1..n) |-> IF S = {} THEN << >>
                                      ELSE NextRuns(kind, it[S \ {Max(S)}], p[Max(S)])]
    BY <1>4, <2>1 DEF IsFold
  <2> QED BY <1>1, <2>2 DEF RunsFold
<1>6. PICK jt : RunsFold(p, kind, jt) /\ Runs(p, kind) = jt[DOMAIN p]
  BY <1>5, RunsAreAFold
<1> DEFINE g == [i \in 0..n |-> jt[1..i]]
<1>7. g[0] = << >>
  <2>1. jt[{}] = << >>
    BY <1>1, <1>6, FirstMembers DEF RunsFold
  <2> QED BY <1>1, <2>1, FirstMembers
<1>8. ASSUME NEW i \in 1..n PROVE g[i] = NextRuns(kind, g[i - 1], p[i])
  <2>1. jt[1..i] = NextRuns(kind, jt[(1..i) \ {Max(1..i)}], p[Max(1..i)])
    BY ZenonT(40), <1>1, <1>6, FirstMembers DEF RunsFold
  <2>2. jt[1..i] = NextRuns(kind, jt[1..(i - 1)], p[i])
    BY <1>1, <2>1, FirstMembers
  <2> QED BY <1>1, <2>2
<1>9. Runs(p, kind) = g[n]
  BY <1>1, <1>6
<1> HIDE DEF g
<1> QED BY <1>7, <1>8, <1>9 DEF n

\* The first k of a sequence.
LEMMA PrefixProperties ==
  ASSUME NEW S, NEW p \in Seq(S), NEW k \in 0..Len(p)
  PROVE  /\ Prefix(p, k) \in Seq(S) /\ Len(Prefix(p, k)) = k
         /\ \A i \in 1..k : Prefix(p, k)[i] = p[i]
<1>1. Len(p) \in Nat /\ \A i \in 1..k : p[i] \in S
  BY LenProperties, ElementOfSeq
<1>2. /\ SubSeq(p, 1, k) \in Seq(S)
      /\ Len(SubSeq(p, 1, k)) = IF 1 <= k THEN k - 1 + 1 ELSE 0
      /\ \A i \in 1..(k - 1 + 1) : SubSeq(p, 1, k)[i] = p[1 + i - 1]
  BY <1>1, SubSeqProperties
<1>3. k \in Nat /\ (IF 1 <= k THEN k - 1 + 1 ELSE 0) = k /\ k - 1 + 1 = k
      /\ \A i \in 1..k : 1 + i - 1 = i
  BY <1>1
<1>4. \A i \in 1..k : SubSeq(p, 1, k)[i] = p[i]
  BY <1>2, <1>3
<1> QED BY <1>2, <1>3, <1>4 DEF Prefix

\* The runs of a longer prefix, from those of a shorter.
LEMMA RunsOfPrefixes ==
  ASSUME NEW p \in Seq(PivotType), NEW kind
  PROVE  /\ Runs(Prefix(p, 0), kind) = << >>
         /\ \A k \in 0..(Len(p) - 1) :
              Runs(Prefix(p, k + 1), kind) = NextRuns(kind, Runs(Prefix(p, k), kind), p[k + 1])
         /\ \A k \in 0..Len(p) : Runs(Prefix(p, k), kind) \in Seq(Members)
<1> DEFINE n == Len(p)
<1>1. n \in Nat /\ \A i \in 1..n : p[i] \in PivotType
  BY LenProperties, ElementOfSeq
<1>2. PICK g : /\ g[0] = << >> /\ Runs(p, kind) = g[n]
               /\ \A i \in 1..n : g[i] = NextRuns(kind, g[i - 1], p[i])
  BY RunsSteps
<1>3. ASSUME NEW k \in 0..n PROVE Runs(Prefix(p, k), kind) = g[k]
  <2>1. /\ Prefix(p, k) \in Seq(PivotType) /\ Len(Prefix(p, k)) = k
        /\ \A i \in 1..k : Prefix(p, k)[i] = p[i]
    BY PrefixProperties
  <2>2. PICK h : /\ h[0] = << >> /\ Runs(Prefix(p, k), kind) = h[k]
                 /\ \A i \in 1..k : h[i] = NextRuns(kind, h[i - 1], Prefix(p, k)[i])
    BY <2>1, RunsSteps
  <2> DEFINE S == {i \in Nat : i <= k => h[i] = g[i]}
  <2>3. 0 \in S
    BY <1>2, <2>2
  <2>4. ASSUME NEW i \in S PROVE i + 1 \in S
    <3> SUFFICES ASSUME i + 1 <= k PROVE h[i + 1] = g[i + 1]
      BY <2>4
    <3>1. PICK j \in 1..k : j = i + 1
      BY <1>1
    <3>2. j \in 1..n /\ j - 1 = i /\ h[i] = g[i]
      BY <1>1, <2>4, <3>1
    <3> HIDE DEF S
    <3>3. h[j] = NextRuns(kind, h[j - 1], p[j])
      BY <2>1, <2>2
    <3>4. g[j] = NextRuns(kind, g[j - 1], p[j])
      BY <1>2, <3>2
    <3> QED BY <3>1, <3>2, <3>3, <3>4
  <2>5. k \in S
    <3> HIDE DEF S
    <3>1. S \in SUBSET Nat
      BY DEF S
    <3>2. S = Nat
      BY <2>3, <2>4, <3>1, AllNumbers
    <3> QED BY <1>1, <3>2
  <2> QED BY <2>2, <2>5
<1>4. ASSUME NEW k \in 0..(n - 1) PROVE g[k + 1] = NextRuns(kind, g[k], p[k + 1])
  <2>1. PICK j \in 1..n : j = k + 1 /\ j - 1 = k
    BY <1>1
  <2> QED BY <1>2, <2>1
<1> DEFINE T == {i \in Nat : i <= n => g[i] \in Seq(Members)}
<1>5. T = Nat
  <2>1. 0 \in T
    BY <1>2, EmptySeq
  <2>2. ASSUME NEW i \in T PROVE i + 1 \in T
    <3> SUFFICES ASSUME i + 1 <= n PROVE g[i + 1] \in Seq(Members)
      BY <2>2
    <3>1. i \in 0..(n - 1) /\ i + 1 \in 1..n /\ g[i] \in Seq(Members)
      BY <1>1, <2>2
    <3>2. g[i + 1] = NextRuns(kind, g[i], p[i + 1]) /\ p[i + 1] \in PivotType
      BY <1>1, <1>4, <3>1
    <3> QED BY <3>1, <3>2, RunsExtend DEF NextRuns
  <2>3. T \in SUBSET Nat
    OBVIOUS
  <2> HIDE DEF T
  <2> QED BY <2>1, <2>2, <2>3, AllNumbers
<1>6. \A k \in 0..n : g[k] \in Seq(Members)
  BY <1>1, <1>5
<1>7. \A k \in 0..(n - 1) : k \in 0..n /\ k + 1 \in 0..n
  BY <1>1
<1>8. 0 \in 0..n
  BY <1>1
<1> QED BY <1>2, <1>3, <1>4, <1>6, <1>7, <1>8

StateType == [next : Nat, completed : SUBSET ZoneType, current : [PivotKinds -> Seq(PivotType)]]

\* The last member of a sequence.
LEMMA LastIsAMember ==
  ASSUME NEW S, NEW s \in Seq(S), s # << >>
  PROVE  Last(s) \in S
<1>1. Len(s) \in Nat /\ Len(s) > 0
  BY LenProperties, EmptySeq
<1>2. Len(s) \in 1..Len(s)
  BY <1>1
<1> QED BY <1>2, ElementOfSeq DEF Last

\* Taking a pivot keeps the zone state typed.
LEMMA TakePivotType ==
  ASSUME NEW z \in StateType, NEW pivot \in PivotType
  PROVE  TakePivot(z, pivot) \in StateType
<1> DEFINE members == z.current[pivot.kind]
           closes == members # << >> /\ ~JoinsZone(Last(members), pivot)
<1>1. members \in Seq(PivotType) /\ pivot.kind \in PivotKinds
  BY DEF StateType, PivotType
<1>2. << pivot >> \in Seq(PivotType) /\ Append(members, pivot) \in Seq(PivotType)
  BY <1>1, AppendProperties
<1>3. members # << >> => Zone(members) \in ZoneType
  BY <1>1, ZonesAreTyped DEF Members
<1> DEFINE next == IF closes THEN << pivot >> ELSE Append(members, pivot)
           completed == IF closes THEN z.completed \cup {Zone(members)} ELSE z.completed
<1>4. next \in Seq(PivotType) /\ completed \in SUBSET ZoneType
  BY <1>2, <1>3 DEF StateType
<1>5. TakePivot(z, pivot) = [next |-> z.next + 1, completed |-> completed,
                             current |-> [z.current EXCEPT ![pivot.kind] = next]]
  BY DEF TakePivot
<1> HIDE DEF next, completed
<1> QED BY <1>1, <1>4, <1>5 DEF StateType

TakeFold(z, p, it) ==
  it = [S \in SUBSET DOMAIN p |-> IF S = {} THEN z ELSE TakePivot(it[S \ {Max(S)}], p[Max(S)])]

\* Taking pivots one by one, as the fold it is.
LEMMA TakesAreAFold ==
  ASSUME NEW z, NEW p, NEW it, TakeFold(z, p, it)
  PROVE  \E jt : TakeFold(z, p, jt) /\ FoldLeft(TakePivot, z, p) = jt[DOMAIN p]
BY DEF FoldLeft, MapThenFoldSet, TakeFold

\* The state of the zones after each pivot.
LEMMA TakeSteps ==
  ASSUME NEW z \in StateType, NEW p \in Seq(PivotType)
  PROVE  \E g : /\ g[0] = z /\ FoldLeft(TakePivot, z, p) = g[Len(p)]
                /\ \A i \in 1..Len(p) : g[i] = TakePivot(g[i - 1], p[i])
<1> DEFINE n == Len(p)
           H == [i \in 1..n |-> [v \in StateType |-> TakePivot(v, p[i])]]
<1>1. n \in Nat /\ DOMAIN p = 1..n /\ \A i \in 1..n : p[i] \in PivotType
  BY LenProperties, ElementOfSeq
<1>2. \A i \in 1..n, v \in StateType : H[i][v] = TakePivot(v, p[i]) /\ H[i][v] \in StateType
  <2>1. \A i \in 1..n, v \in StateType : TakePivot(v, p[i]) \in StateType
    BY <1>1, TakePivotType
  <2> HIDE DEF n
  <2> QED BY <2>1
<1> HIDE DEF H, n
<1>3. PICK it : it \in [SUBSET (1..n) -> StateType] /\ IsFold(1..n, z, H, it)
  BY <1>1, <1>2, FoldSteps
<1>4. TakeFold(z, p, it)
  <2>1. \A S \in SUBSET (1..n) : S # {} =>
           H[Max(S)][it[S \ {Max(S)}]] = TakePivot(it[S \ {Max(S)}], p[Max(S)])
    <3>1. \A S \in SUBSET (1..n) : S # {} => Max(S) \in 1..n /\ S \ {Max(S)} \in SUBSET (1..n)
      BY <1>1, FirstMembers
    <3> QED BY <1>2, <1>3, <3>1
  <2>2. it = [S \in SUBSET (1..n) |-> IF S = {} THEN z ELSE TakePivot(it[S \ {Max(S)}], p[Max(S)])]
    BY <1>3, <2>1 DEF IsFold
  <2> QED BY <1>1, <2>2 DEF TakeFold
<1>5. PICK jt : TakeFold(z, p, jt) /\ FoldLeft(TakePivot, z, p) = jt[DOMAIN p]
  BY <1>4, TakesAreAFold
<1> DEFINE g == [i \in 0..n |-> jt[1..i]]
<1>6. g[0] = z
  <2>1. jt[{}] = z
    BY <1>1, <1>5, FirstMembers DEF TakeFold
  <2> QED BY <1>1, <2>1, FirstMembers
<1>7. ASSUME NEW i \in 1..n PROVE g[i] = TakePivot(g[i - 1], p[i])
  <2>1. jt[1..i] = TakePivot(jt[(1..i) \ {Max(1..i)}], p[Max(1..i)])
    BY ZenonT(40), <1>1, <1>5, FirstMembers DEF TakeFold
  <2>2. jt[1..i] = TakePivot(jt[1..(i - 1)], p[i])
    BY <1>1, <2>1, FirstMembers
  <2> QED BY <1>1, <2>2
<1>8. FoldLeft(TakePivot, z, p) = g[n]
  BY <1>1, <1>5
<1> HIDE DEF g
<1> QED BY <1>6, <1>7, <1>8 DEF n

\* The state that the first k pivots leave, by their runs.
GrownZones(p, k) ==
  [next      |-> k,
   completed |-> UNION {Done(Runs(Prefix(p, k), kind)) : kind \in PivotKinds},
   current   |-> [kind \in PivotKinds |->
                    IF Runs(Prefix(p, k), kind) = << >> THEN << >> ELSE Last(Runs(Prefix(p, k), kind))]]

\* The state the first pivots leave is typed.
LEMMA GrownZonesType ==
  ASSUME NEW p \in Seq(PivotType), NEW k \in 0..Len(p)
  PROVE  GrownZones(p, k) \in StateType
<1> DEFINE R(kind) == Runs(Prefix(p, k), kind)
<1>1. k \in Nat
  OBVIOUS
<1>2. ASSUME NEW kind \in PivotKinds
      PROVE  /\ Done(R(kind)) \subseteq ZoneType
             /\ R(kind) # << >> => Last(R(kind)) \in Seq(PivotType)
  <2>1. R(kind) \in Seq(Members)
    BY RunsOfPrefixes
  <2>2. \A j \in 1..(Len(R(kind)) - 1) : R(kind)[j] \in Members
    <3>1. \A j \in 1..(Len(R(kind)) - 1) : j \in 1..Len(R(kind))
      BY <2>1, LenProperties
    <3> QED BY <2>1, <3>1, ElementOfSeq
  <2>3. R(kind) # << >> => Last(R(kind)) \in Members
    BY <2>1, LastIsAMember
  <2> QED BY <2>2, <2>3, ZonesAreTyped DEF Done, Members
<1>3. \A kind \in PivotKinds : (IF R(kind) = << >> THEN << >> ELSE Last(R(kind))) \in Seq(PivotType)
  BY <1>2, EmptySeq
<1> HIDE DEF R
<1>4. UNION {Done(R(kind)) : kind \in PivotKinds} \in SUBSET ZoneType
  BY <1>2
<1> QED BY <1>1, <1>3, <1>4 DEF GrownZones, StateType, R

\* One more pivot.
LEMMA TakeGrows ==
  ASSUME NEW p \in Seq(PivotType), NEW k \in 0..(Len(p) - 1)
  PROVE  TakePivot(GrownZones(p, k), p[k + 1]) = GrownZones(p, k + 1)
<1> DEFINE R(kind) == Runs(Prefix(p, k), kind)
           N(kind) == Runs(Prefix(p, k + 1), kind)
           z == GrownZones(p, k)
           pivot == p[k + 1]
           K == pivot.kind
           members == z.current[K]
           closes == members # << >> /\ ~JoinsZone(Last(members), pivot)
<1>1. Len(p) \in Nat /\ k \in 0..Len(p) /\ k + 1 \in 1..Len(p) /\ k + 1 \in 0..Len(p)
  BY LenProperties
<1>2. pivot \in PivotType /\ K \in PivotKinds
  <2>1. pivot \in PivotType
    BY <1>1, ElementOfSeq
  <2> QED BY <2>1 DEF PivotType
<1>3. \A kind : N(kind) = NextRuns(kind, R(kind), pivot) /\ R(kind) \in Seq(Members)
  BY <1>1, RunsOfPrefixes
<1>4. \A kind : K # kind => N(kind) = R(kind)
  BY <1>3 DEF NextRuns
<1> DEFINE joins == R(K) # << >> /\ JoinsZone(Last(Last(R(K))), pivot)
<1>5. /\ N(K) # << >>
      /\ Last(N(K)) = IF joins THEN Append(Last(R(K)), pivot) ELSE << pivot >>
      /\ Done(N(K)) = IF R(K) # << >> /\ ~joins THEN Done(R(K)) \cup {Zone(Last(R(K)))}
                      ELSE Done(R(K))
  <2>1. N(K) = ExtendRuns(R(K), pivot) /\ R(K) \in Seq(Members)
    BY <1>3 DEF NextRuns
  <2> HIDE DEF N, R, pivot, K
  <2> QED BY <1>2, <2>1, RunsExtend
<1>6. members = IF R(K) = << >> THEN << >> ELSE Last(R(K))
  BY <1>2 DEF GrownZones
<1>7. R(K) # << >> => Last(R(K)) # << >>
  <2>1. R(K) \in Seq(Members)
    BY <1>3
  <2> HIDE DEF R, K
  <2> QED BY <2>1, LastIsAMember DEF Members
<1>8. closes <=> R(K) # << >> /\ ~joins
  BY <1>6, <1>7
<1>9. z.next = k /\ z.completed = UNION {Done(R(kind)) : kind \in PivotKinds}
      /\ z.current = [kind \in PivotKinds |-> IF R(kind) = << >> THEN << >> ELSE Last(R(kind))]
  BY DEF GrownZones
<1>10. GrownZones(p, k + 1) =
         [next |-> k + 1, completed |-> UNION {Done(N(kind)) : kind \in PivotKinds},
          current |-> [kind \in PivotKinds |-> IF N(kind) = << >> THEN << >> ELSE Last(N(kind))]]
  BY DEF GrownZones
<1>11. TakePivot(z, pivot) =
         [next |-> z.next + 1,
          completed |-> IF closes THEN z.completed \cup {Zone(members)} ELSE z.completed,
          current |-> [z.current EXCEPT ![K] = IF closes THEN << pivot >> ELSE Append(members, pivot)]]
  BY DEF TakePivot
<1>12. (IF closes THEN << pivot >> ELSE Append(members, pivot)) = Last(N(K))
  <2>1. Append(<< >>, pivot) = << pivot >>
    <3>1. << >> \in Seq(PivotType)
      BY EmptySeq
    <3>2. Append(<< >>, pivot) = << >> \o << pivot >>
      BY <1>2, <3>1, AppendIsConcat
    <3> QED BY <1>2, <3>2, ConcatEmptySeq
  <2> HIDE DEF N, R, K, pivot, members
  <2> QED BY <1>5, <1>6, <1>8, <2>1
<1>13. (IF closes THEN z.completed \cup {Zone(members)} ELSE z.completed)
         = UNION {Done(N(kind)) : kind \in PivotKinds}
  <2> HIDE DEF N, R, K, pivot, members, z, joins
  <2>1. \A kind \in PivotKinds : Done(N(kind)) =
           IF kind = K THEN (IF closes THEN Done(R(K)) \cup {Zone(members)} ELSE Done(R(K)))
           ELSE Done(R(kind))
    BY <1>4, <1>5, <1>6, <1>8
  <2>2. CASE closes
    BY <1>2, <1>9, <2>1, <2>2
  <2>3. CASE ~closes
    <3>1. \A kind \in PivotKinds : Done(N(kind)) = Done(R(kind))
      BY <2>1, <2>3
    <3>2. UNION {Done(N(kind)) : kind \in PivotKinds} = UNION {Done(R(kind)) : kind \in PivotKinds}
      BY <3>1
    <3> QED BY <1>9, <2>3, <3>2
  <2> QED BY <2>2, <2>3
<1>14. [z.current EXCEPT ![K] = IF closes THEN << pivot >> ELSE Append(members, pivot)]
         = [kind \in PivotKinds |-> IF N(kind) = << >> THEN << >> ELSE Last(N(kind))]
  <2> DEFINE new == IF closes THEN << pivot >> ELSE Append(members, pivot)
  <2>1. new = Last(N(K))
    BY <1>12
  <2> HIDE DEF N, R, K, pivot, members, z, joins, new
  <2>2. \A kind \in PivotKinds : kind # K =>
          (IF N(kind) = << >> THEN << >> ELSE Last(N(kind))) = (IF R(kind) = << >> THEN << >> ELSE Last(R(kind)))
    BY <1>4
  <2> DEFINE before == [kind \in PivotKinds |-> IF R(kind) = << >> THEN << >> ELSE Last(R(kind))]
             after == [kind \in PivotKinds |-> IF N(kind) = << >> THEN << >> ELSE Last(N(kind))]
  <2>3. after[K] = new /\ \A kind \in PivotKinds : kind # K => after[kind] = before[kind]
    BY <1>2, <1>5, <2>1, <2>2
  <2>4. DOMAIN before = PivotKinds /\ DOMAIN after = PivotKinds /\ before = [kind \in PivotKinds |-> before[kind]]
        /\ after = [kind \in PivotKinds |-> after[kind]]
    OBVIOUS
  <2> HIDE DEF before, after
  <2>5. [before EXCEPT ![K] = new] = after
    BY <1>2, <2>3, <2>4
  <2> QED BY <1>9, <2>5 DEF before, after, new
<1>15. z = GrownZones(p, k) /\ pivot = p[k + 1]
  OBVIOUS
<1> HIDE DEF z, closes, members, N, R, pivot, K
<1> QED BY <1>15, <1>9, <1>10, <1>11, <1>13, <1>14

\* From k pivots to count.
LEMMA AdvanceGrows ==
  ASSUME NEW p \in Seq(PivotType), NEW k \in 0..Len(p), NEW count \in k..Len(p)
  PROVE  AdvanceZones(GrownZones(p, k), p, count) = GrownZones(p, count)
<1> DEFINE b == SubSeq(p, k + 1, count)
           n == count - k
<1>1. /\ Len(p) \in Nat /\ k \in Nat /\ count \in Nat /\ n \in Nat /\ k + n = count
      /\ \A i \in 1..Len(p) : p[i] \in PivotType
  BY LenProperties, ElementOfSeq
<1>2. b \in Seq(PivotType) /\ Len(b) = n /\ \A i \in 1..n : b[i] = p[k + i]
  <2>1. k + 1 \in Int /\ count \in Int /\ \A i \in (k + 1)..count : p[i] \in PivotType
    BY <1>1
  <2>2. /\ b \in Seq(PivotType)
        /\ Len(b) = IF k + 1 <= count THEN count - (k + 1) + 1 ELSE 0
        /\ \A i \in 1..(count - (k + 1) + 1) : b[i] = p[(k + 1) + i - 1]
    BY <2>1, SubSeqProperties
  <2> HIDE DEF b
  <2>3. (IF k + 1 <= count THEN count - (k + 1) + 1 ELSE 0) = n /\ count - (k + 1) + 1 = n
        /\ \A i \in 1..n : (k + 1) + i - 1 = k + i
    BY <1>1
  <2>4. \A i \in 1..n : b[i] = p[k + i]
    BY <2>2, <2>3
  <2> QED BY <2>2, <2>3, <2>4
<1>3. AdvanceZones(GrownZones(p, k), p, count) = FoldLeft(TakePivot, GrownZones(p, k), b)
  BY DEF AdvanceZones, GrownZones
<1> HIDE DEF b, n
<1>4. PICK g : /\ g[0] = GrownZones(p, k) /\ FoldLeft(TakePivot, GrownZones(p, k), b) = g[n]
               /\ \A i \in 1..n : g[i] = TakePivot(g[i - 1], b[i])
  <2>1. GrownZones(p, k) \in StateType
    BY GrownZonesType
  <2>2. \E g : /\ g[0] = GrownZones(p, k) /\ FoldLeft(TakePivot, GrownZones(p, k), b) = g[Len(b)]
               /\ \A i \in 1..Len(b) : g[i] = TakePivot(g[i - 1], b[i])
    BY <1>2, <2>1, TakeSteps
  <2> QED BY <1>2, <2>2
<1> DEFINE S == {i \in Nat : i <= n => g[i] = GrownZones(p, k + i)}
<1>5. 0 \in S
  <2>1. k + 0 = k
    BY <1>1
  <2> QED BY <1>4, <2>1
<1>6. ASSUME NEW i \in S PROVE i + 1 \in S
  <2> SUFFICES ASSUME i + 1 <= n PROVE g[i + 1] = GrownZones(p, k + (i + 1))
    BY <1>6
  <2>1. /\ i \in Nat /\ i + 1 \in 1..n /\ (i + 1) - 1 = i /\ g[i] = GrownZones(p, k + i)
        /\ k + i \in 0..(Len(p) - 1) /\ (k + i) + 1 = k + (i + 1)
    BY <1>1, <1>6
  <2> HIDE DEF S
  <2> PICK j \in 1..n : j = i + 1
    BY <2>1
  <2>2. g[j] = TakePivot(g[j - 1], b[j]) /\ b[j] = p[k + j] /\ j - 1 = i
    BY <1>2, <1>4, <2>1
  <2>3. TakePivot(GrownZones(p, k + i), p[(k + i) + 1]) = GrownZones(p, (k + i) + 1)
    BY <2>1, TakeGrows
  <2> QED BY <2>1, <2>2, <2>3
<1>7. S = Nat
  <2>1. S \in SUBSET Nat
    OBVIOUS
  <2> HIDE DEF S
  <2> QED BY <1>5, <1>6, <2>1, AllNumbers
<1>8. n \in S
  BY <1>1, <1>7
<1> QED BY <1>1, <1>3, <1>4, <1>8

\* Before the first pivot there are no zones.
LEMMA NothingGrown ==
  ASSUME NEW p \in Seq(PivotType)
  PROVE  NoZones = GrownZones(p, 0)
<1>1. \A kind : Runs(Prefix(p, 0), kind) = << >>
  BY RunsOfPrefixes
<1>2. Done(<< >>) = {}
  <2>1. Len(<< >>) = 0 /\ 1..(0 - 1) = {}
    OBVIOUS
  <2> QED BY <2>1 DEF Done
<1> QED BY <1>1, <1>2 DEF GrownZones, NoZones

\* What the incremental state shows is what merging the same pivots gives.
LEMMA GrownAreMerged ==
  ASSUME NEW p \in Seq(PivotType), NEW k \in 0..Len(p)
  PROVE  ZonesOf(GrownZones(p, k), NaN) = MergeZones(Prefix(p, k))
<1> DEFINE R(kind) == Runs(Prefix(p, k), kind)
           z == GrownZones(p, k)
           open == {Zone(z.current[kind]) : kind \in {x \in PivotKinds : z.current[x] # << >>}}
<1>1. \A kind : R(kind) \in Seq(Members)
  BY RunsOfPrefixes
<1>2. ASSUME NEW kind \in PivotKinds
      PROVE  z.current[kind] = IF R(kind) = << >> THEN << >> ELSE Last(R(kind))
  BY DEF GrownZones
<1>3. ASSUME NEW kind \in PivotKinds
      PROVE  R(kind) # << >> => Last(R(kind)) # << >>
  <2>1. R(kind) \in Seq(Members)
    BY <1>1
  <2> HIDE DEF R
  <2> QED BY <2>1, LastIsAMember DEF Members
<1>4. open = UNION {{Zone(run) : run \in (IF R(kind) = << >> THEN {} ELSE {Last(R(kind))})} : kind \in PivotKinds}
  <2> HIDE DEF R, z
  <2>1. {x \in PivotKinds : z.current[x] # << >>} = {x \in PivotKinds : R(x) # << >>}
    BY <1>2, <1>3
  <2> QED BY <1>2, <2>1
<1>5. z.completed = UNION {Done(R(kind)) : kind \in PivotKinds}
  BY DEF GrownZones
<1>6. ASSUME NEW kind \in PivotKinds
      PROVE  {Zone(run) : run \in Range(R(kind))}
               = Done(R(kind)) \cup {Zone(run) : run \in (IF R(kind) = << >> THEN {} ELSE {Last(R(kind))})}
  <2>1. R(kind) \in Seq(Members)
    BY <1>1
  <2> HIDE DEF R
  <2> DEFINE n == Len(R(kind))
  <2>2. n \in Nat /\ DOMAIN R(kind) = 1..n /\ (R(kind) = << >> <=> n = 0)
    BY <2>1, LenProperties, EmptySeq
  <2>3. {Zone(run) : run \in Range(R(kind))} = {Zone(R(kind)[j]) : j \in 1..n}
    BY <2>2 DEF Range
  <2> HIDE DEF n
  <2>4. CASE n = 0
    <3>1. 1..n = {} /\ 1..(n - 1) = {}
      BY <2>4
    <3> QED BY <2>2, <2>3, <2>4, <3>1 DEF Done, n
  <2>5. CASE n # 0
    <3>1. 1..n = 1..(n - 1) \cup {n}
      BY <2>2, <2>5
    <3> QED BY <2>2, <2>3, <2>5, <3>1 DEF Done, Last, n
  <2> QED BY <2>4, <2>5
<1>7. z.completed \cup open \subseteq ZoneType
  <2>1. z \in StateType
    BY GrownZonesType
  <2>2. z.completed \subseteq ZoneType /\ \A x \in PivotKinds : z.current[x] \in Seq(PivotType)
    BY <2>1 DEF StateType
  <2> HIDE DEF z
  <2>3. \A x \in PivotKinds : z.current[x] # << >> => Zone(z.current[x]) \in ZoneType
    BY <2>2, ZonesAreTyped DEF Members
  <2> QED BY <2>2, <2>3
<1>8. ZonesOf(z, NaN) = z.completed \cup open
  <2>1. \A zone \in ZoneType : zone.last >= NaN
    BY DEF ZoneType, Times, NaN
  <2> HIDE DEF z
  <2>2. ZonesOf(z, NaN) = {zone \in z.completed \cup open : zone.last >= NaN}
    BY DEF ZonesOf
  <2> HIDE DEF open
  <2> QED BY <1>7, <2>1, <2>2
<1>9. MergeZones(Prefix(p, k)) = UNION {{Zone(run) : run \in Range(R(kind))} : kind \in PivotKinds}
  BY DEF MergeZones
<1>10. z.completed \cup open = UNION {{Zone(run) : run \in Range(R(kind))} : kind \in PivotKinds}
  <2> DEFINE L(kind) == {Zone(run) : run \in (IF R(kind) = << >> THEN {} ELSE {Last(R(kind))})}
             A(kind) == {Zone(run) : run \in Range(R(kind))}
             D(kind) == Done(R(kind))
  <2>1. \A kind \in PivotKinds : A(kind) = D(kind) \cup L(kind)
    BY <1>6
  <2>2. open = UNION {L(kind) : kind \in PivotKinds}
    BY <1>4
  <2>3. z.completed = UNION {D(kind) : kind \in PivotKinds}
    BY <1>5
  <2> HIDE DEF L, A, D, z, open
  <2>4. z.completed \cup open = UNION {A(kind) : kind \in PivotKinds}
    BY <2>1, <2>2, <2>3
  <2> QED BY <2>4 DEF A
<1> HIDE DEF R, open
<1> QED BY <1>8, <1>9, <1>10

-----------------------------------------------------------------------------
(* Indicators: recursive functions and folds *)

\* What a recursive function may evaluate to.
FlattenRec(seqs, it) ==
  it = [i \in 1..Len(seqs) |-> IF i = 1 THEN seqs[i] ELSE it[i - 1] \o seqs[i]]

\* Joining sequences is such a function.
LEMMA FlattenIsRecursive ==
  ASSUME NEW seqs, NEW it, FlattenRec(seqs, it), Len(seqs) # 0
  PROVE  \E jt : FlattenRec(seqs, jt) /\ FlattenSeq(seqs) = jt[Len(seqs)]
BY DEF FlattenSeq, FlattenRec

\* Sequences over a set join to a sequence over it.
LEMMA FlattenType ==
  ASSUME NEW S, NEW n \in Nat, NEW seqs \in [1..n -> Seq(S)]
  PROVE  FlattenSeq(seqs) \in Seq(S)
<1>1. seqs \in Seq(Seq(S)) /\ Len(seqs) = n
  BY IsASeq
<1>2. CASE n = 0
  <2>1. seqs = << >>
    BY <1>1, <1>2, EmptySeq
  <2>2. FlattenSeq(seqs) = seqs
    BY <1>1, <1>2 DEF FlattenSeq
  <2> QED BY <2>1, <2>2, EmptySeq
<1>3. CASE n # 0
  <2> DEFINE V == Seq(S)
             H == [i \in 1..n |-> [v \in V |-> IF i = 1 THEN seqs[i] ELSE v \o seqs[i]]]
  <2>1. \A i \in 1..n, v \in V : H[i][v] \in V
    <3>1. \A i \in 1..n, v \in V : v \o seqs[i] \in V /\ seqs[i] \in V
      BY ConcatProperties
    <3> QED BY <3>1
  <2>2. << >> \in V
    BY EmptySeq
  <2>3. \A i \in 1..n, v \in V : H[i][v] = IF i = 1 THEN seqs[i] ELSE v \o seqs[i]
    OBVIOUS
  <2> DEFINE none == << >>
  <2> HIDE DEF H, V, none
  <2>4. PICK g : g \in [0..n -> V] /\ IsRecursion(n, none, H, g)
    <3>1. none \in V
      BY <2>2 DEF none
    <3> QED BY <2>1, <3>1, RecursionExists
  <2> DEFINE it == [i \in 1..n |-> g[i]]
  <2>5. FlattenRec(seqs, it)
    <3>1. ASSUME NEW i \in 1..n PROVE g[i] = IF i = 1 THEN seqs[i] ELSE it[i - 1] \o seqs[i]
      <4>1. i - 1 \in 0..n /\ (i # 1 => i - 1 \in 1..n)
        OBVIOUS
      <4>2. g[i - 1] \in V /\ (i # 1 => it[i - 1] = g[i - 1])
        BY <2>4, <4>1
      <4> QED BY <2>3, <2>4, <4>2 DEF IsRecursion
    <3>2. it = [i \in 1..n |-> IF i = 1 THEN seqs[i] ELSE it[i - 1] \o seqs[i]]
      BY <3>1
    <3> HIDE DEF it
    <3> QED BY <1>1, <3>2 DEF FlattenRec
  <2> HIDE DEF it
  <2>6. PICK jt : FlattenRec(seqs, jt) /\ FlattenSeq(seqs) = jt[n]
    BY <1>1, <1>3, <2>5, FlattenIsRecursive
  <2> DEFINE T == {i \in Nat : 0 < i /\ i <= n => jt[i] \in V}
  <2>7. 0 \in T
    OBVIOUS
  <2>8. ASSUME NEW i \in T PROVE i + 1 \in T
    <3> SUFFICES ASSUME i + 1 <= n PROVE jt[i + 1] \in V
      BY <2>8
    <3>1. i \in Nat /\ i + 1 \in 1..n /\ (i + 1) - 1 = i /\ (i # 0 => jt[i] \in V) /\ (i + 1 = 1 <=> i = 0)
      BY <2>8
    <3> HIDE DEF T
    <3>2. jt[i + 1] = IF i = 0 THEN seqs[i + 1] ELSE jt[i] \o seqs[i + 1]
      BY <1>1, <2>6, <3>1 DEF FlattenRec
    <3>3. seqs[i + 1] \in V
      BY <3>1 DEF V
    <3> QED BY <3>1, <3>2, <3>3, ConcatProperties DEF V
  <2>9. n \in T
    <3>1. T \in SUBSET Nat
      OBVIOUS
    <3> HIDE DEF T
    <3> QED BY <2>7, <2>8, <3>1, AllNumbers
  <2> QED BY <1>3, <2>6, <2>9 DEF V
<1> QED BY <1>2, <1>3

TotalFold(s, it) ==
  it = [S \in SUBSET DOMAIN s |-> IF S = {} THEN 0 ELSE it[S \ {Max(S)}] + s[Max(S)]]

\* A total is a fold.
LEMMA TotalIsAFold ==
  ASSUME NEW s, NEW it, TotalFold(s, it)
  PROVE  \E jt : TotalFold(s, jt) /\ Total(s) = jt[DOMAIN s]
BY DEF Total, FoldLeft, MapThenFoldSet, TotalFold

\* The total of integers is one.
LEMMA TotalType ==
  ASSUME NEW s \in Seq(Int)
  PROVE  Total(s) \in Int
<1> DEFINE n == Len(s)
           H == [i \in 1..n |-> [v \in Int |-> v + s[i]]]
<1>1. n \in Nat /\ DOMAIN s = 1..n /\ \A i \in 1..n : s[i] \in Int
  BY LenProperties, ElementOfSeq
<1>2. \A i \in 1..n, v \in Int : H[i][v] = v + s[i] /\ H[i][v] \in Int
  BY <1>1
<1> DEFINE V == Int
           zero == 0
<1> HIDE DEF H, n
<1>3. PICK it : it \in [SUBSET (1..n) -> V] /\ IsFold(1..n, zero, H, it)
  <2>1. zero \in V /\ \A i \in 1..n, v \in V : H[i][v] \in V
    BY <1>2
  <2> HIDE DEF V, zero
  <2> QED BY <1>1, <2>1, FoldSteps
<1>4. TotalFold(s, it)
  <2>1. \A S \in SUBSET (1..n) : S # {} => H[Max(S)][it[S \ {Max(S)}]] = it[S \ {Max(S)}] + s[Max(S)]
    <3>1. \A S \in SUBSET (1..n) : S # {} => Max(S) \in 1..n /\ S \ {Max(S)} \in SUBSET (1..n)
      BY <1>1, FirstMembers
    <3> QED BY <1>2, <1>3, <3>1
  <2>2. it = [S \in SUBSET (1..n) |-> IF S = {} THEN 0 ELSE it[S \ {Max(S)}] + s[Max(S)]]
    BY <1>3, <2>1 DEF IsFold
  <2> QED BY <1>1, <2>2 DEF TotalFold
<1>5. PICK jt : TotalFold(s, jt) /\ Total(s) = jt[DOMAIN s]
  BY <1>4, TotalIsAFold
<1> DEFINE T == {i \in Nat : i <= n => jt[1..i] \in Int}
<1>6. 0 \in T
  <2>1. jt[{}] = 0 /\ 1..0 = {}
    BY <1>1, <1>5, FirstMembers DEF TotalFold
  <2> QED BY <2>1
<1>7. ASSUME NEW i \in T PROVE i + 1 \in T
  <2> SUFFICES ASSUME i + 1 <= n PROVE jt[1..(i + 1)] \in Int
    BY <1>7
  <2>1. i \in Nat /\ jt[1..i] \in Int
    BY <1>1, <1>7
  <2> PICK j \in 1..n : j = i + 1
    BY <1>1, <2>1
  <2> HIDE DEF T
  <2>2. jt[1..j] = jt[(1..j) \ {Max(1..j)}] + s[Max(1..j)]
    BY ZenonT(40), <1>1, <1>5, FirstMembers DEF TotalFold
  <2>3. Max(1..j) = j /\ (1..j) \ {j} = 1..i
    <3>1. Max(1..j) = j /\ (1..j) \ {j} = 1..(j - 1)
      BY <1>1, FirstMembers
    <3>2. j - 1 = i
      BY <2>1
    <3> QED BY <3>1, <3>2
  <2>4. jt[1..j] = jt[1..i] + s[j]
    BY <2>2, <2>3
  <2> QED BY <1>1, <2>1, <2>4
<1>8. n \in T
  <2>1. T \in SUBSET Nat
    OBVIOUS
  <2> HIDE DEF T
  <2> QED BY <1>1, <1>6, <1>7, <2>1, AllNumbers
<1> QED BY <1>1, <1>5, <1>8

\* The parts of a candle.
LEMMA CandlesAreTyped ==
  ASSUME NEW c \in Seq(CandleRows)
  PROVE  /\ Len(c) \in Nat /\ DOMAIN c = 1..Len(c)
         /\ \A i \in 1..Len(c) : /\ c[i].t \in Times /\ c[i].open \in Int /\ c[i].high \in Int
                                 /\ c[i].low \in Int /\ c[i].close \in Int /\ c[i].vol \in Int
<1>1. Len(c) \in Nat /\ DOMAIN c = 1..Len(c) /\ \A i \in 1..Len(c) : c[i] \in CandleRows
  BY LenProperties, ElementOfSeq
<1> QED BY <1>1 DEF CandleRows

\* The true range of a candle is a number.
LEMMA TrueRangeType ==
  ASSUME NEW c \in Seq(CandleRows), NEW i \in 1..Len(c)
  PROVE  TrueRange(c, i) \in Int
<1>1. c[i].high \in Int /\ c[i].low \in Int /\ (i # 1 => c[i - 1].close \in Int)
  <2>1. Len(c) \in Nat /\ (i # 1 => i - 1 \in 1..Len(c))
    BY CandlesAreTyped
  <2> QED BY <2>1, CandlesAreTyped
<1>2. \A x, y \in Int : Larger(x, y) \in Int
  BY DEF Larger
<1>3. \A x \in Int : Abs(x) \in Int
  BY DEF Abs
<1> DEFINE span == c[i].high - c[i].low
           up == Abs(c[i].high - c[i - 1].close)
           down == Abs(c[i].low - c[i - 1].close)
<1>4. span \in Int /\ (i # 1 => up \in Int /\ down \in Int)
  <2>1. span \in Int
    BY <1>1
  <2>2. ASSUME i # 1 PROVE up \in Int /\ down \in Int
    <3>1. c[i].high - c[i - 1].close \in Int /\ c[i].low - c[i - 1].close \in Int
      BY <1>1, <2>2
    <3> QED BY <1>3, <3>1
  <2> QED BY <2>1, <2>2
<1>5. TrueRange(c, i) = IF i = 1 THEN span ELSE Larger(span, Larger(up, down))
  BY DEF TrueRange
<1> HIDE DEF span, up, down
<1> QED BY <1>2, <1>4, <1>5

AtrRec(c, it) ==
  it = [i \in DOMAIN c |->
          IF i < AtrPeriod THEN NaN
          ELSE IF i = AtrPeriod THEN Mean(WindowAt([j \in DOMAIN c |-> TrueRange(c, j)], i, AtrPeriod))
          ELSE (it[i - 1] * (AtrPeriod - 1) + [j \in DOMAIN c |-> TrueRange(c, j)][i]) \div AtrPeriod]

\* WilderAtr is the recursion of Wilder.
LEMMA AtrIsRecursive ==
  ASSUME NEW c, NEW it, AtrRec(c, it)
  PROVE  AtrRec(c, WilderAtr(c))
BY DEF WilderAtr, AtrRec

\* What a row of it is, given the row before.
AtrStep(c, i, before) ==
  LET tr == [j \in DOMAIN c |-> TrueRange(c, j)]
  IN  IF i < AtrPeriod THEN NaN
      ELSE IF i = AtrPeriod THEN Mean(WindowAt(tr, AtrPeriod, AtrPeriod))
      ELSE (before * (AtrPeriod - 1) + tr[i]) \div AtrPeriod
AtrSteps(c) == \A i \in 1..Len(c) : WilderAtr(c)[i] = AtrStep(c, i, WilderAtr(c)[i - 1])

\* Every row of Wilder's range is a number, the rows before it is warm too.
LEMMA AtrType ==
  ASSUME NEW c \in Seq(CandleRows)
  PROVE  AtrSteps(c) /\ \A i \in 1..Len(c) : WilderAtr(c)[i] \in Int
<1> DEFINE n == Len(c)
           P == AtrPeriod
           tr == [j \in DOMAIN c |-> TrueRange(c, j)]
           first == Mean(WindowAt(tr, P, P))
           V == Int
           H == [i \in 1..n |-> [v \in V |-> IF i < P THEN NaN ELSE IF i = P THEN first
                                              ELSE (v * (P - 1) + tr[i]) \div P]]
<1>1. n \in Nat /\ DOMAIN c = 1..n /\ P \in Nat \ {0} /\ NaN \in Int
  BY CandlesAreTyped, WindowAssumption DEF NaN
<1>2. \A i \in 1..n : tr[i] \in Int
  BY <1>1, TrueRangeType
<1>3. P <= n => first \in Int
  <2> SUFFICES ASSUME P <= n PROVE first \in Int
    OBVIOUS
  <2> DEFINE w == WindowAt(tr, P, P)
  <2>1. w = SubSeq(tr, 1, P)
    <3>1. P - P + 1 = 1
      BY <1>1
    <3> QED BY <3>1 DEF WindowAt
  <2>2. \A i \in 1..P : tr[i] \in Int
    BY <1>1, <1>2
  <2> HIDE DEF tr
  <2>3. w \in Seq(Int) /\ Len(w) = P
    BY <1>1, <2>1, <2>2, SubSeqProperties
  <2> HIDE DEF w
  <2>4. Total(w) \in Int /\ first = Total(w) \div P
    BY <2>3, TotalType DEF Mean, w
  <2> QED BY <1>1, <2>4, FloorBounds
<1>4. \A i \in 1..n, v \in V : H[i][v] \in V
  <2>1. ASSUME NEW i \in 1..n, NEW v \in Int PROVE (v * (P - 1) + tr[i]) \div P \in Int
    <3>1. tr[i] \in Int
      BY <1>2
    <3>2. v * (P - 1) + tr[i] \in Int
      <4> HIDE DEF tr
      <4> QED BY <1>1, <3>1
    <3> QED BY <1>1, <3>2, FloorBounds
  <2>2. \A i \in 1..n, v \in V : H[i][v] = IF i < P THEN NaN ELSE IF i = P THEN first
                                            ELSE (v * (P - 1) + tr[i]) \div P
    OBVIOUS
  <2> HIDE DEF tr, first, n, H
  <2> SUFFICES ASSUME NEW i \in 1..n, NEW v \in V PROVE H[i][v] \in V
    OBVIOUS
  <2>3. i < P \/ (i = P /\ P <= n) \/ (i # P /\ ~(i < P))
    BY <1>1
  <2> DEFINE later == (v * (P - 1) + tr[i]) \div P
  <2>4. later \in Int /\ H[i][v] = IF i < P THEN NaN ELSE IF i = P THEN first ELSE later
    BY <2>1, <2>2
  <2> HIDE DEF later
  <2> QED BY <1>1, <1>3, <2>3, <2>4
<1>5. \A i \in 1..n, v \in V :
        H[i][v] = IF i < P THEN NaN ELSE IF i = P THEN first ELSE (v * (P - 1) + tr[i]) \div P
  OBVIOUS
<1> DEFINE base == NaN
<1>6. base \in V
  BY <1>1
<1> HIDE DEF H, V, base, n, P, first
<1>7. PICK g : g \in [0..n -> V] /\ IsRecursion(n, base, H, g)
  BY <1>1, <1>4, <1>6, RecursionExists
<1> DEFINE it == [i \in 1..n |-> g[i]]
<1>8. AtrRec(c, it)
  <2>1. ASSUME NEW i \in 1..n
        PROVE  it[i] = IF i < AtrPeriod THEN NaN
                       ELSE IF i = AtrPeriod THEN Mean(WindowAt(tr, i, AtrPeriod))
                       ELSE (it[i - 1] * (AtrPeriod - 1) + tr[i]) \div AtrPeriod
    <3>1. i - 1 \in 0..n /\ (i # 1 => i - 1 \in 1..n) /\ (~(i < P) /\ i # P => i # 1)
      BY <1>1
    <3>2. g[i - 1] \in V /\ (i # 1 => it[i - 1] = g[i - 1]) /\ it[i] = H[i][g[i - 1]]
      BY <1>7, <3>1 DEF IsRecursion
    <3> HIDE DEF it
    <3>3. it[i] = IF i < P THEN NaN ELSE IF i = P THEN first ELSE (g[i - 1] * (P - 1) + tr[i]) \div P
      BY <1>5, <3>2
    <3> QED BY <3>1, <3>2, <3>3 DEF P, first
  <2>2. it = [i \in 1..n |-> it[i]]
    OBVIOUS
  <2> HIDE DEF it
  <2> QED BY <1>1, <2>1, <2>2 DEF AtrRec
<1> DEFINE a == WilderAtr(c)
<1>9. \A i \in 1..n : a[i] = IF i < P THEN NaN ELSE IF i = P THEN first
                             ELSE (a[i - 1] * (P - 1) + tr[i]) \div P
  <2>1. AtrRec(c, a)
    <3> HIDE DEF it
    <3> QED BY <1>8, AtrIsRecursive
  <2> HIDE DEF a, it
  <2>2. \A i \in 1..n : a[i] = IF i < AtrPeriod THEN NaN
                               ELSE IF i = AtrPeriod THEN Mean(WindowAt(tr, i, AtrPeriod))
                               ELSE (a[i - 1] * (AtrPeriod - 1) + tr[i]) \div AtrPeriod
    BY <1>1, <2>1 DEF AtrRec
  <2> QED BY <2>2 DEF P, first
<1> HIDE DEF a, it
<1> DEFINE T == {i \in Nat : 0 < i /\ i <= n => a[i] \in Int}
<1>10. 0 \in T
  OBVIOUS
<1>11. ASSUME NEW i \in T PROVE i + 1 \in T
  <2> SUFFICES ASSUME i + 1 <= n PROVE a[i + 1] \in Int
    BY <1>11
  <2>1. i \in Nat /\ (i # 0 => a[i] \in Int)
    BY <1>1, <1>11
  <2> HIDE DEF T
  <2> PICK j \in 1..n : j = i + 1
    BY <1>1, <2>1
  <2>2. j - 1 = i /\ tr[j] \in Int /\ (j < P \/ j = P \/ (j > P /\ i # 0))
    BY <1>1, <1>2, <2>1
  <2>3. a[j] = IF j < P THEN NaN ELSE IF j = P THEN first ELSE (a[i] * (P - 1) + tr[j]) \div P
    BY <1>9, <2>2
  <2>4. CASE j < P
    BY <1>1, <2>3, <2>4
  <2>5. CASE j = P
    BY <1>1, <1>3, <2>3, <2>5
  <2>6. CASE j > P
    <3>1. a[i] \in Int /\ a[j] = (a[i] * (P - 1) + tr[j]) \div P
      BY <1>1, <2>1, <2>2, <2>3, <2>6
    <3> HIDE DEF tr
    <3>2. a[i] * (P - 1) + tr[j] \in Int
      BY <1>1, <2>2, <3>1
    <3> QED BY <1>1, <3>1, <3>2, FloorBounds
  <2> QED BY <1>1, <2>4, <2>5, <2>6
<1>12. T = Nat
  <2>1. T \in SUBSET Nat
    OBVIOUS
  <2> HIDE DEF T
  <2> QED BY <1>10, <1>11, <2>1, AllNumbers
<1>13. \A i \in 1..n : a[i] \in Int
  BY <1>1, <1>12
<1>14. AtrSteps(c)
  BY <1>9 DEF AtrSteps, AtrStep, a, n, P, first
<1> QED BY <1>13, <1>14 DEF a, n

\* The frame of a stream has a row for every candle.
LEMMA FrameRows ==
  ASSUME NEW c \in Seq(CandleRows)
  PROVE  /\ DOMAIN IndicatorFrame(c) = 1..Len(c) /\ Len(IndicatorFrame(c)) = Len(c)
         /\ \A i \in 1..Len(c) : IndicatorFrame(c)[i].atr \in Int
<1>1. DOMAIN c = 1..Len(c) /\ Len(c) \in Nat
  BY CandlesAreTyped
<1>2. \A i \in 1..Len(c) : IndicatorFrame(c)[i].atr = WilderAtr(c)[i]
  BY <1>1 DEF IndicatorFrame
<1>3. DOMAIN IndicatorFrame(c) = 1..Len(c)
  BY <1>1 DEF IndicatorFrame
<1>4. Len(IndicatorFrame(c)) = Len(c)
  BY <1>1 DEF IndicatorFrame
<1> QED BY <1>2, <1>3, <1>4, AtrType

-----------------------------------------------------------------------------
(* Pivots *)

\* Candles of a stream open one after the other has closed.
Ascending(c, step) ==
  \A i \in Nat, j \in Nat : 1 <= i /\ i < j /\ j <= Len(c) => c[i].t + step <= c[j].t

\* The candles of a valid stream ascend by at least its step.
LEMMA TimesAscend ==
  ASSUME NEW c \in Seq(CandleRows), NEW step \in Nat \ {0}, ValidCandles(c, step)
  PROVE  Ascending(c, step)
<1> DEFINE n == Len(c)
           T == {j \in Nat : \A i \in Nat : 1 <= i /\ i < j /\ j <= n => c[i].t + step <= c[j].t}
<1>1. n \in Nat /\ \A i \in 1..n : c[i].t \in Int
  BY CandlesAreTyped DEF Times
<1>2. \A i \in 2..n : c[i].t = c[i - 1].t + step
  BY DEF ValidCandles
<1> HIDE DEF n
<1>3. 0 \in T
  OBVIOUS
<1>4. ASSUME NEW j \in T PROVE j + 1 \in T
  <2> SUFFICES ASSUME NEW i \in Nat, 1 <= i, i < j + 1, j + 1 <= n PROVE c[i].t + step <= c[j + 1].t
    OBVIOUS
  <2>1. j + 1 \in 2..n /\ (j + 1) - 1 = j /\ j \in 1..n /\ i \in 1..n
    BY <1>1
  <2>2. c[j + 1].t = c[j].t + step
    BY <1>2, <2>1
  <2>3. c[j].t \in Int /\ c[i].t \in Int
    BY <1>1, <2>1
  <2>4. i = j \/ c[i].t + step <= c[j].t
    BY <1>4, <2>1
  <2> QED BY <2>2, <2>3, <2>4
<1>5. T = Nat
  <2>1. T \in SUBSET Nat
    OBVIOUS
  <2> HIDE DEF T
  <2> QED BY <1>3, <1>4, <2>1, AllNumbers
<1> QED BY <1>5 DEF Ascending, n

\* The pivots that a row may be.
PivotsOf(c, k, step) ==
  {p \in PivotType : p.time = c[k].t /\ p.confirmed = CloseOf(c, k + PivotRight, step)}

\* Every pivot a row confirms is one of that row: it opened with it and closes after it.
LEMMA PivotsOfARow ==
  ASSUME NEW c \in Seq(CandleRows), NEW frame, \A i \in 1..Len(c) : frame[i].atr \in Int,
         NEW step \in Nat \ {0}, ValidCandles(c, step),
         NEW k \in 1..Len(c), k + PivotRight <= Len(c)
  PROVE  PivotsAt(c, frame, k, step) \in Seq(PivotsOf(c, k, step))
<1> DEFINE l == k + PivotRight
           V == PivotsOf(c, k, step)
           S == Seq(V)
<1>1. Len(c) \in Nat /\ PivotRight \in Nat \ {0} /\ l \in 1..Len(c) /\ k < l
  BY CandlesAreTyped, PivotAssumption
<1> HIDE DEF l
<1>2. c[k].t \in Times /\ c[k].low \in Int /\ c[k].high \in Int /\ c[l].t + step \in Int
      /\ frame[l].atr \in Int /\ c[k].t < c[l].t + step
  <2>1. c[l].t \in Int /\ c[k].t \in Int
    BY <1>1, CandlesAreTyped DEF Times
  <2>2. Ascending(c, step)
    BY TimesAscend
  <2>3. c[k].t + step <= c[l].t
    BY <1>1, <2>2 DEF Ascending
  <2>4. c[k].t < c[l].t + step
    BY <2>1, <2>3
  <2> QED BY <1>1, <2>1, <2>4, CandlesAreTyped
<1>3. \A kind \in PivotKinds : PivotEvent(c, frame, k, kind, step) \in V
  BY <1>2 DEF PivotEvent, PivotType, CloseOf, PivotsOf, l
<1> DEFINE high == PivotEvent(c, frame, k, "HIGH", step)
           low == PivotEvent(c, frame, k, "LOW", step)
           hs == IF HighPivot(c, k) THEN << high >> ELSE << >>
           ls == IF LowPivot(c, k) THEN << low >> ELSE << >>
<1>4. high \in V /\ low \in V
  BY <1>3 DEF PivotKinds
<1>5. PivotsAt(c, frame, k, step) = IF frame[l].atr = NaN THEN << >> ELSE hs \o ls
  BY DEF PivotsAt, l
<1> HIDE DEF high, low, V
<1>6. hs \in S /\ ls \in S
  BY <1>4
<1> HIDE DEF hs, ls
<1>7. hs \o ls \in S
  BY <1>6, ConcatProperties
<1>8. << >> \in S
  BY EmptySeq
<1> QED BY <1>5, <1>7, <1>8 DEF V

\* Detected pivots carry the price, the times and the range of real rows.
LEMMA PivotsAreTyped ==
  ASSUME NEW c \in Seq(CandleRows), NEW frame, \A i \in 1..Len(c) : frame[i].atr \in Int,
         NEW step \in Nat \ {0}, ValidCandles(c, step)
  PROVE  ConfirmedPivots(c, frame, step) \in Seq(PivotType)
<1> DEFINE m == Len(c) - PivotLeft - PivotRight
           S == Seq(PivotType)
           rows == [n \in 1..m |-> PivotsAt(c, frame, n + PivotLeft, step)]
<1>1. Len(c) \in Nat /\ PivotLeft \in Nat \ {0} /\ PivotRight \in Nat \ {0}
  BY CandlesAreTyped, PivotAssumption
<1>2. CASE Len(c) < PivotLeft + PivotRight + 1
  <2>1. ConfirmedPivots(c, frame, step) = << >>
    BY <1>2 DEF ConfirmedPivots
  <2> QED BY <2>1, EmptySeq
<1>3. CASE ~(Len(c) < PivotLeft + PivotRight + 1)
  <2>1. m \in Nat
    BY <1>1, <1>3
  <2>2. ASSUME NEW n \in 1..m PROVE PivotsAt(c, frame, n + PivotLeft, step) \in S
    <3> PICK k \in 1..Len(c) : k = n + PivotLeft /\ k + PivotRight <= Len(c)
      BY <1>1, <2>1
    <3>1. PivotsAt(c, frame, k, step) \in Seq(PivotsOf(c, k, step))
      BY PivotsOfARow
    <3>2. PivotsOf(c, k, step) \subseteq PivotType
      BY DEF PivotsOf
    <3> HIDE DEF m
    <3> QED BY <3>1, <3>2
  <2>3. rows \in [1..m -> S]
    BY <2>2
  <2>4. ConfirmedPivots(c, frame, step) = FlattenSeq(rows)
    BY <1>3 DEF ConfirmedPivots
  <2> HIDE DEF rows, m
  <2> QED BY <2>1, <2>3, <2>4, FlattenType
<1> QED BY <1>2, <1>3

(* The invariant *)
Inputs ==
  /\ market \in Markets
  /\ ValidCandles(market.c15, CandleStep) /\ ValidCandles(market.hour.c, HourStep)
  /\ frame15 = IndicatorFrame(market.c15)
  /\ pivots = [m15 |-> ConfirmedPivots(market.c15, frame15, CandleStep),
               h1  |-> ConfirmedPivots(market.hour.c, market.hour.f, HourStep)]
Grown == \A i \in {"m15", "h1"} :
           /\ zones[i].next \in 0..Len(pivots[i])
           /\ zones[i] = GrownZones(pivots[i], zones[i].next)
Remembered == \A entry \in cache : entry.setup = WindowedSetup(entry.ends)

\* What the scan reads is typed: the streams by assumption, frame and pivots as computed.
LEMMA InputsAreTyped ==
  ASSUME Inputs
  PROVE  /\ market.c15 \in Seq(CandleRows) /\ market.hour.c \in Seq(CandleRows)
         /\ market.hour.f \in Seq(IndicatorRows) /\ Len(market.hour.f) = Len(market.hour.c)
         /\ market.rule.tick \in Int
         /\ Len(frame15) = Len(market.c15) /\ \A i \in 1..Len(market.c15) : frame15[i].atr \in Int
         /\ pivots.m15 \in Seq(PivotType) /\ pivots.h1 \in Seq(PivotType)
<1>1. /\ market.c15 \in Seq(CandleRows) /\ market.hour.c \in Seq(CandleRows)
      /\ market.hour.f \in Seq(IndicatorRows) /\ Len(market.hour.f) = Len(market.hour.c)
      /\ market.rule.tick \in Int
  BY MarketAssumption DEF Inputs
<1>2. Len(frame15) = Len(market.c15) /\ \A i \in 1..Len(market.c15) : frame15[i].atr \in Int
  <2>1. frame15 = IndicatorFrame(market.c15)
    BY DEF Inputs
  <2> QED BY <1>1, <2>1, FrameRows
<1>3. \A i \in 1..Len(market.hour.c) : market.hour.f[i].atr \in Int
  <2>1. \A i \in 1..Len(market.hour.c) : market.hour.f[i] \in IndicatorRows
    BY <1>1, ElementOfSeq
  <2> QED BY <2>1 DEF IndicatorRows
<1>4. /\ CandleStep \in Nat \ {0} /\ HourStep \in Nat \ {0}
      /\ ValidCandles(market.c15, CandleStep) /\ ValidCandles(market.hour.c, HourStep)
  BY PlanAssumption DEF CandleStep, Inputs
<1>5. ConfirmedPivots(market.c15, frame15, CandleStep) \in Seq(PivotType)
  BY <1>1, <1>2, <1>4, PivotsAreTyped
<1>6. ConfirmedPivots(market.hour.c, market.hour.f, HourStep) \in Seq(PivotType)
  BY <1>1, <1>3, <1>4, PivotsAreTyped
<1>7. /\ pivots.m15 = ConfirmedPivots(market.c15, frame15, CandleStep)
      /\ pivots.h1 = ConfirmedPivots(market.hour.c, market.hour.f, HourStep)
  BY DEF Inputs
<1> QED BY <1>1, <1>2, <1>5, <1>6, <1>7

\* A slot sees no more pivots than there are.
LEMMA VisibleIsBounded ==
  ASSUME NEW S, NEW p \in Seq(S), NEW slot
  PROVE  VisiblePivots(p, slot) \in 0..Len(p)
<1>1. Len(p) \in Nat /\ DOMAIN p = 1..Len(p)
  BY LenProperties
<1> DEFINE n == Len(p)
           V == {i \in 1..n : p[i].confirmed <= slot}
<1>2. IsFiniteSet(1..n) /\ Cardinality(1..n) = n
  BY <1>1, FirstNumbers
<1>3. V \subseteq 1..n
  OBVIOUS
<1>4. VisiblePivots(p, slot) = Cardinality(V)
  BY <1>1 DEF VisiblePivots
<1> HIDE DEF V, n
<1>5. Cardinality(V) \in Nat /\ Cardinality(V) <= n
  BY <1>2, <1>3, FS_Subset, FS_CardinalityType
<1> QED BY <1>1, <1>4, <1>5 DEF n

\* An eligible slot grows the zones to the pivots it sees.
LEMMA SlotGrowsTheZones ==
  ASSUME Inputs, Grown, SetupEligible
  PROVE  LET n15 == VisiblePivots(pivots.m15, at + 1)
             n1h == VisiblePivots(pivots.h1, at + 1)
         IN  /\ n15 \in 0..Len(pivots.m15) /\ n1h \in 0..Len(pivots.h1)
             /\ zones'.m15 = GrownZones(pivots.m15, n15) /\ zones'.m15.next = n15
             /\ zones'.h1 = GrownZones(pivots.h1, n1h) /\ zones'.h1.next = n1h
<1>1. pivots' = pivots /\ pivots.m15 \in Seq(PivotType) /\ pivots.h1 \in Seq(PivotType)
  BY InputsAreTyped DEF SetupEligible, Reach, inputs
<1> DEFINE n15 == VisiblePivots(pivots.m15, at + 1)
           n1h == VisiblePivots(pivots.h1, at + 1)
<1>2. /\ CanAdvance(zones.m15, n15) /\ CanAdvance(zones.h1, n1h)
      /\ zones' = [m15 |-> AdvanceZones(zones.m15, pivots.m15, n15),
                   h1  |-> AdvanceZones(zones.h1, pivots.h1, n1h)]
  BY DEF SetupEligible
<1> HIDE DEF n15, n1h
<1>3. n15 \in 0..Len(pivots.m15) /\ n1h \in 0..Len(pivots.h1)
  BY <1>1, VisibleIsBounded DEF n15, n1h
<1>4. ASSUME NEW p \in Seq(PivotType), NEW z, z.next \in 0..Len(p), z = GrownZones(p, z.next),
             NEW n \in 0..Len(p), CanAdvance(z, n)
      PROVE  AdvanceZones(z, p, n) = GrownZones(p, n) /\ AdvanceZones(z, p, n).next = n
  <2> DEFINE k == z.next
  <2>1. n \in k..Len(p) /\ k \in 0..Len(p) /\ z = GrownZones(p, k)
    BY <1>4 DEF CanAdvance
  <2> HIDE DEF k
  <2>2. AdvanceZones(GrownZones(p, k), p, n) = GrownZones(p, n)
    BY <2>1, AdvanceGrows
  <2> QED BY <2>1, <2>2 DEF GrownZones
<1>5. /\ zones.m15.next \in 0..Len(pivots.m15) /\ zones.m15 = GrownZones(pivots.m15, zones.m15.next)
      /\ zones.h1.next \in 0..Len(pivots.h1) /\ zones.h1 = GrownZones(pivots.h1, zones.h1.next)
  BY DEF Grown
<1>6. /\ zones'.m15 = GrownZones(pivots.m15, n15) /\ zones'.m15.next = n15
      /\ zones'.h1 = GrownZones(pivots.h1, n1h) /\ zones'.h1.next = n1h
  BY <1>1, <1>2, <1>3, <1>4, <1>5
<1> QED BY <1>3, <1>6 DEF n15, n1h

\* It leaves the zone state that its pivots give.
LEMMA ZonesKeepGrowing ==
  ASSUME Inputs, Grown, SetupEligible
  PROVE  Grown'
<1>1. pivots' = pivots
  BY DEF SetupEligible, Reach, inputs
<1> DEFINE n15 == VisiblePivots(pivots.m15, at + 1)
           n1h == VisiblePivots(pivots.h1, at + 1)
<1>2. /\ n15 \in 0..Len(pivots.m15) /\ n1h \in 0..Len(pivots.h1)
      /\ zones'.m15 = GrownZones(pivots.m15, n15) /\ zones'.m15.next = n15
      /\ zones'.h1 = GrownZones(pivots.h1, n1h) /\ zones'.h1.next = n1h
  BY SlotGrowsTheZones
<1> HIDE DEF n15, n1h
<1> QED BY <1>1, <1>2 DEF Grown

-----------------------------------------------------------------------------
(* The slots *)

ScanInv ==
  /\ Inputs /\ Grown /\ Remembered
  /\ at \in (FirstSlot - 1)..LastSlot
  /\ PlanIsConservative

\* setup_cache returns what _setup_at would compute.
LEMMA CacheIsRight ==
  ASSUME Remembered, NEW ends
  PROVE  CachedSetup(ends) = WindowedSetup(ends)
<1>1. CASE \E entry \in cache : entry.ends = ends
  <2> DEFINE x == CHOOSE entry \in cache : entry.ends = ends
  <2>1. x \in cache /\ x.ends = ends
    BY <1>1
  <2>2. CachedSetup(ends) = x.setup
    BY <1>1 DEF CachedSetup
  <2> HIDE DEF x
  <2> QED BY <2>1, <2>2 DEF Remembered
<1>2. CASE ~\E entry \in cache : entry.ends = ends
  BY <1>2 DEF CachedSetup
<1> QED BY <1>1, <1>2

\* The directions a trigger is looked for in.
LEMMA EligibleHasADirection ==
  ASSUME NEW ends, WindowedSetup(ends).status # "NOT_READY", WindowedSetup(ends).eligible
  PROVE  /\ WindowedSetup(ends).status = "ONE_HOUR_EVALUATED"
         /\ WindowedSetup(ends).direction \in {"LONG", "SHORT"}
<1> DEFINE four == Cut(market.four, ends.four, FourHourRows)
           day == Cut(market.day, ends.day, SlopeLag + 1)
           hourly == [direction \in {"LONG", "SHORT"} |->
                        HourlyEpisode(market.hour.c, market.hour.f, ends.hour, direction)]
           s == SetupOf(four, day, hourly)
           trend == FourHour(four.c, four.f)
           daily == Daily(day.c, day.f, trend.direction)
           pullback == hourly[trend.direction]
<1>1. s = WindowedSetup(ends)
  BY DEF WindowedSetup
<1>2. s = IF trend.status # "EVALUATED" THEN Failed(trend)
          ELSE IF trend.direction = "NEUTRAL" THEN Skipped("FOUR_HOUR_NEUTRAL")
          ELSE IF trend.compressed THEN Skipped("FOUR_HOUR_COMPRESSED")
          ELSE IF daily.status = "NOT_READY" THEN NotReady
          ELSE IF daily.context = "BLOCK" THEN Skipped("DAILY_BLOCK")
          ELSE IF pullback.status # "EVALUATED" THEN Failed(pullback)
          ELSE [status |-> "ONE_HOUR_EVALUATED", eligible |-> pullback.eligible,
                direction |-> trend.direction, hourly |-> pullback]
  BY DEF SetupOf
<1>3. trend.status = "EVALUATED" => trend.direction \in {"LONG", "SHORT", "NEUTRAL"}
  <2>1. \A order, slope : Trend(order, slope) \in {"LONG", "SHORT", "NEUTRAL"}
    BY DEF Trend
  <2> HIDE DEF four
  <2>2. trend.status = "EVALUATED" =>
          \E order, slope : trend.direction = Trend(order, slope)
    BY DEF FourHour, NotReady, Refused
  <2> QED BY <2>1, <2>2
<1> HIDE DEF s, trend, daily, pullback, hourly
<1> QED BY <1>1, <1>2, <1>3 DEF NotReady, Refused, Failed, Skipped

\* The rows of a window, whatever they are.
LEMMA EndingRows ==
  ASSUME NEW s, NEW end \in Nat, NEW rows \in Nat \ {0}
  PROVE  /\ Len(Ending(s, end, rows)) = Smaller(end, rows)
         /\ Ending(s, end, rows) # << >> <=> end > 0
         /\ \A i \in 1..Smaller(end, rows) :
              Ending(s, end, rows)[i] = s[(end - Smaller(end, rows)) + i]
<1> DEFINE S == {s[i] : i \in 1..end}
           first == IF end > rows THEN end - rows + 1 ELSE 1
           e == Ending(s, end, rows)
           len == Smaller(end, rows)
<1>1. first \in 1..(end + 1) /\ end \in Int /\ first \in Int /\ \A i \in first..end : s[i] \in S
  OBVIOUS
<1>2. e = SubSeq(s, first, end)
  BY DEF Ending
<1>3. len \in 0..end /\ len = end - first + 1 /\ first - 1 = end - len /\ (len > 0 <=> end > 0)
  BY DEF Smaller
<1> HIDE DEF first, e, len, S
<1>4. /\ e \in Seq(S) /\ Len(e) = (IF first <= end THEN end - first + 1 ELSE 0)
      /\ \A i \in 1..(end - first + 1) : e[i] = s[first + i - 1]
  BY <1>1, <1>2, SubSeqProperties
<1>5. Len(e) = len
  BY <1>1, <1>3, <1>4
<1>6. \A i \in 1..len : e[i] = s[(end - len) + i]
  <2>1. \A i \in 1..len : first + i - 1 = (end - len) + i
    BY <1>1, <1>3
  <2> QED BY <1>3, <1>4, <2>1
<1>7. e # << >> <=> end > 0
  BY <1>3, <1>4, <1>5, EmptySeq
<1> QED BY <1>5, <1>6, <1>7 DEF e, len

\* A window of rows of a kind.
LEMMA EndingType ==
  ASSUME NEW S, NEW s, NEW end \in Nat, \A i \in 1..end : s[i] \in S, NEW rows \in Nat \ {0}
  PROVE  Ending(s, end, rows) \in Seq(S)
<1> DEFINE first == IF end > rows THEN end - rows + 1 ELSE 1
<1>1. end \in Int /\ first \in Int /\ \A i \in first..end : s[i] \in S
  OBVIOUS
<1>2. Ending(s, end, rows) = SubSeq(s, first, end)
  BY DEF Ending
<1> HIDE DEF first
<1> QED BY <1>1, <1>2, SubSeqProperties

\* A slot sees no more rows than there are.
LEMMA EndIsBounded ==
  ASSUME NEW S, NEW c \in Seq(S), NEW step, NEW slot
  PROVE  VisibleEnd(c, step, slot) \in 0..Len(c)
<1>1. Len(c) \in Nat /\ DOMAIN c = 1..Len(c)
  BY LenProperties
<1> DEFINE n == Len(c)
           V == {i \in 1..n : c[i].t + step <= slot}
<1>2. IsFiniteSet(1..n) /\ Cardinality(1..n) = n
  BY <1>1, FirstNumbers
<1>3. V \subseteq 1..n
  OBVIOUS
<1>4. VisibleEnd(c, step, slot) = Cardinality(V)
  BY <1>1 DEF VisibleEnd
<1> HIDE DEF V, n
<1>5. Cardinality(V) \in Nat /\ Cardinality(V) <= n
  BY <1>2, <1>3, FS_Subset, FS_CardinalityType
<1> QED BY <1>1, <1>4, <1>5 DEF n

\* The zones a state shows are typed.
LEMMA ZonesOfType ==
  ASSUME NEW z \in StateType, NEW since
  PROVE  \A zone \in ZonesOf(z, since) : IsZone(zone)
<1> DEFINE open == {Zone(z.current[kind]) : kind \in {k \in PivotKinds : z.current[k] # << >>}}
<1>1. z.completed \subseteq ZoneType /\ \A x \in PivotKinds : z.current[x] \in Seq(PivotType)
  BY DEF StateType
<1>2. \A x \in PivotKinds : z.current[x] # << >> => Zone(z.current[x]) \in ZoneType
  BY <1>1, ZonesAreTyped DEF Members
<1>3. open \subseteq ZoneType
  BY <1>2
<1>4. ZonesOf(z, since) \subseteq z.completed \cup open
  BY DEF ZonesOf
<1> HIDE DEF open
<1>5. \A zone \in ZoneType : IsZone(zone)
  BY DEF ZoneType, IsZone
<1> QED BY <1>1, <1>3, <1>4, <1>5

\* A confirmed trigger names a price that invalidates it.
LEMMA InvalidationIsAPrice ==
  ASSUME NEW c \in Seq(CandleRows), NEW f, NEW p \in Seq(PivotType), NEW zoneSet, NEW ctx,
         Triggers(c, f, p, zoneSet, ctx).status = "CONFIRMED"
  PROVE  Len(c) > 0 /\ Triggers(c, f, p, zoneSet, ctx).invalidation \in Int
<1> DEFINE a == TriggerA(c, f, p, ctx)
           b == TriggerB(c, f, zoneSet, ctx)
           sweep == Len(c) >= TriggerBRows /\ b.confirmed
           d == Triggers(c, f, p, zoneSet, ctx)
           n == Len(c)
<1>1. d = IF ~TriggerAReady(c, f) THEN NotReady
          ELSE IF ~(sweep \/ a.confirmed) THEN [status |-> "NO_TRIGGER"]
          ELSE [status       |-> "CONFIRMED",
                primary      |-> IF sweep THEN "SWEEP_RECLAIM" ELSE "MA_RECLAIM",
                both         |-> sweep /\ a.confirmed,
                invalidation |-> IF sweep THEN b.invalidation ELSE a.invalidation]
  BY DEF Triggers
<1>2. TriggerAReady(c, f) /\ (sweep \/ a.confirmed)
      /\ d.invalidation = IF sweep THEN b.invalidation ELSE a.invalidation
  <2> HIDE DEF a, sweep, b
  <2>1. d.status = "CONFIRMED"
    OBVIOUS
  <2> HIDE DEF d
  <2> QED BY <1>1, <2>1 DEF NotReady
<1>3. n \in Nat /\ n > 0 /\ c[n].low \in Int /\ c[n].high \in Int
  <2>1. Len(c) >= TriggerARows /\ TriggerARows \in Nat \ {0} /\ Len(c) \in Nat
    BY <1>2, CandlesAreTyped, TriggerAssumption DEF TriggerAReady
  <2>2. n \in 1..Len(c)
    BY <2>1
  <2> QED BY <2>1, <2>2, CandlesAreTyped
<1>4. b.invalidation \in Int
  BY <1>3 DEF TriggerB, Latest
<1>5. a.confirmed => a.invalidation \in Int
  <2> DEFINE usable == {i \in DOMAIN p : /\ p[i].kind = WantedKind(ctx)
                                         /\ p[i].time >= ctx.episode
                                         /\ p[i].confirmed <= CloseOf(c, n, CandleStep)}
             pivot == StructurePivot(p, ctx, CloseOf(c, n, CandleStep))
  <2>1. pivot = IF usable = {} THEN << >> ELSE << p[Max(usable)] >>
    BY DEF StructurePivot
  <2>2. a.confirmed => pivot # << >>
    <3> HIDE DEF pivot
    <3> SUFFICES ASSUME pivot = << >> PROVE ~a.confirmed
      OBVIOUS
    <3> QED BY DEF TriggerA, pivot
  <2>3. a.invalidation = IF pivot = << >> THEN NaN ELSE pivot[1].price
    BY DEF TriggerA
  <2>4. usable # {} => p[Max(usable)].price \in Int
    <3>1. Len(p) \in Nat /\ DOMAIN p = 1..Len(p)
      BY LenProperties
    <3>2. usable \in SUBSET (1..Len(p))
      BY <3>1
    <3> HIDE DEF usable
    <3>3. usable # {} => Max(usable) \in 1..Len(p)
      BY <3>1, <3>2, MaxOfSome
    <3>4. usable # {} => p[Max(usable)] \in PivotType
      BY <3>3, ElementOfSeq
    <3> QED BY <3>4 DEF PivotType
  <2> HIDE DEF pivot, usable, a
  <2>5. a.confirmed => usable # {} /\ pivot[1] = p[Max(usable)]
    BY <2>1, <2>2
  <2> QED BY <2>2, <2>3, <2>4, <2>5
<1> HIDE DEF a, b, d, sweep
<1> QED BY <1>2, <1>3, <1>4, <1>5 DEF d

\* Whatever a slot decides on typed data, an accepted plan in it is conservative.
LEMMA DecisionsAreConservative ==
  ASSUME NEW rule, rule.tick \in Int, NEW setup, setup.direction \in {"LONG", "SHORT"},
         NEW c \in Seq(CandleRows), NEW f, Len(f) = Len(c), \A i \in 1..Len(c) : f[i].atr \in Int,
         NEW p \in Seq(PivotType), NEW zones15, NEW hour, NEW zones1h,
         \A z \in zones15 \cup zones1h : IsZone(z), NEW slot \in Int,
         Decide(rule, setup, c, f, p, zones15, hour, zones1h, slot).status
           \in {"ACCEPTED_PLAN", "REJECTED_REQUEST_BOUNDARY"}
  PROVE  Conservative(Decide(rule, setup, c, f, p, zones15, hour, zones1h, slot).plan)
<1> DEFINE ctx == TriggerContext(setup, hour.f)
           d == Triggers(c, f, p, zones15, ctx)
           req == Request(setup, d, c, f, rule.tick)
           plan == PlanOf(req, c, zones15, hour.c, zones1h, slot, rule)
           out == Decide(rule, setup, c, f, p, zones15, hour, zones1h, slot)
<1>1. out = IF d.status # "CONFIRMED" THEN d
            ELSE [status |-> plan.status, primary |-> d.primary, both |-> d.both, plan |-> plan]
  BY DEF Decide
<1>2. d.status \in {"NOT_READY", "NO_TRIGGER", "CONFIRMED"}
  BY DEF Triggers, NotReady
<1>3. out.status \in {"ACCEPTED_PLAN", "REJECTED_REQUEST_BOUNDARY"}
  OBVIOUS
<1>4. d.status = "CONFIRMED" /\ out.plan = plan
      /\ plan.status \in {"ACCEPTED_PLAN", "REJECTED_REQUEST_BOUNDARY"}
  <2> HIDE DEF d, plan, out
  <2> QED BY <1>1, <1>2, <1>3
<1>5. Len(c) > 0 /\ d.invalidation \in Int
  BY <1>4, InvalidationIsAPrice
<1>6. req \in RequestType
  <2>1. Len(c) \in Nat /\ Len(c) \in 1..Len(c)
    BY <1>5, CandlesAreTyped
  <2>2. Latest(c).high \in Int /\ Latest(c).low \in Int /\ Latest(f).atr \in Int
    BY <2>1, CandlesAreTyped DEF Latest
  <2> HIDE DEF d
  <2> QED BY <1>5, <2>2 DEF Request, RequestType
<1> HIDE DEF d, req, ctx
<1>7. Conservative(plan)
  BY <1>4, <1>6, PlansAreConservative
<1> HIDE DEF plan, out
<1> QED BY <1>4, <1>7 DEF out

\* The invariant holds before the first slot.
LEMMA ScanStarts ==
  ASSUME Init PROVE ScanInv
<1>1. Inputs
  BY DEF Init, Inputs
<1>2. pivots.m15 \in Seq(PivotType) /\ pivots.h1 \in Seq(PivotType)
  BY <1>1, InputsAreTyped
<1>3. zones.m15 = NoZones /\ zones.h1 = NoZones /\ NoZones.next = 0
  BY DEF Init, NoZones
<1>4. Len(pivots.m15) \in Nat /\ Len(pivots.h1) \in Nat
  BY <1>2, LenProperties
<1>5. Grown
  BY <1>2, <1>3, <1>4, NothingGrown DEF Grown
<1>6. Remembered
  BY DEF Init, Remembered
<1>7. at \in (FirstSlot - 1)..LastSlot
  BY SlotAssumption DEF Init
<1>8. PlanIsConservative
  BY DEF Init, PlanIsConservative
<1> QED BY <1>1, <1>5, <1>6, <1>7, <1>8 DEF ScanInv

\* What an evaluation of the setup may end in.
LEMMA SetupStatuses ==
  ASSUME NEW ends
  PROVE  WindowedSetup(ends).status \in {"NOT_READY", "FOUR_HOUR_NEUTRAL", "FOUR_HOUR_COMPRESSED",
                                         "DAILY_BLOCK", "ONE_HOUR_EVALUATED", "RAISES"}
<1>1. \A four, day, hourly : SetupOf(four, day, hourly).status
         \in {"NOT_READY", "FOUR_HOUR_NEUTRAL", "FOUR_HOUR_COMPRESSED", "DAILY_BLOCK",
              "ONE_HOUR_EVALUATED", "RAISES"}
  BY DEF SetupOf, NotReady, Refused, Failed, Skipped
<1> QED BY <1>1 DEF WindowedSetup

\* Every slot leaves the inputs alone and remembers the setup it evaluated.
LEMMA ReachingASlot ==
  ASSUME ScanInv, NEW setup, Reach(setup)
  PROVE  /\ Inputs' /\ Remembered'
         /\ at' \in (FirstSlot - 1)..LastSlot
         /\ setup = WindowedSetup(Ends(at + 1))
<1>1. Inputs'
  BY DEF ScanInv, Inputs, Reach, inputs
<1>2. at' \in (FirstSlot - 1)..LastSlot
  BY SlotAssumption DEF ScanInv, Reach, Reaches
<1>3. setup = WindowedSetup(Ends(at + 1))
  BY CacheIsRight DEF ScanInv, Reach
<1>4. \A ends : WindowedSetup(ends)' = WindowedSetup(ends)
  BY DEF Reach, inputs, WindowedSetup
<1>5. Remembered'
  <2>1. cache' = cache \cup {[ends |-> Ends(at + 1), setup |-> setup]}
    BY DEF Reach
  <2>2. \A entry \in cache' : entry.setup = WindowedSetup(entry.ends)
    BY <1>3, <2>1 DEF ScanInv, Remembered
  <2> QED BY <1>4, <2>2 DEF Remembered
<1> QED BY <1>1, <1>2, <1>3, <1>5

\* An eligible slot's plan.
LEMMA EligibleIsConservative ==
  ASSUME ScanInv, SetupEligible
  PROVE  PlanIsConservative'
<1> DEFINE setup == CachedSetup(Ends(at + 1))
           end15 == VisibleEnd(market.c15, CandleStep, at + 1)
           c == Ending(market.c15, end15, TriggerBRows)
           f == Ending(frame15, end15, TriggerBRows)
           hour == Cut(market.hour, Ends(at + 1).hour, TargetRows1h)
           count15 == VisiblePivots(pivots.m15, at + 1)
           recent == PivotsSince(pivots.m15, count15, setup.hourly.episode)
           zones15 == ZonesOf(zones'.m15, c[1].t)
           zones1h == ZonesOf(zones'.h1, hour.c[1].t)
           out == Decide(market.rule, setup, c, f, recent, zones15, hour, zones1h, at + 1)
<1>1. /\ setup.status # "NOT_READY" /\ setup.eligible /\ Reach(setup)
      /\ seen' = out
  BY DEF SetupEligible
<1>2. setup.direction \in {"LONG", "SHORT"}
  <2> HIDE DEF setup
  <2> QED BY <1>1, ReachingASlot, EligibleHasADirection
<1>3. /\ market.c15 \in Seq(CandleRows) /\ market.rule.tick \in Int
      /\ Len(frame15) = Len(market.c15) /\ \A i \in 1..Len(market.c15) : frame15[i].atr \in Int
      /\ pivots.m15 \in Seq(PivotType) /\ pivots.h1 \in Seq(PivotType)
  BY InputsAreTyped DEF ScanInv
<1>4. c \in Seq(CandleRows) /\ Len(f) = Len(c) /\ \A i \in 1..Len(c) : f[i].atr \in Int
  <2> DEFINE n == Len(market.c15)
             S == {frame15[i] : i \in 1..n}
  <2>1. end15 \in 0..n /\ n \in Nat /\ TriggerBRows \in Nat \ {0}
    BY <1>3, EndIsBounded, CandlesAreTyped, TriggerAssumption
  <2>2. \A i \in 1..n : market.c15[i] \in CandleRows
    BY <1>3, ElementOfSeq
  <2>3. \A i \in 1..n : frame15[i] \in S
    OBVIOUS
  <2>4. \A x \in S : x.atr \in Int
    BY <1>3
  <2> HIDE DEF end15, n, S
  <2>0. end15 \in Nat /\ (\A i \in 1..end15 : market.c15[i] \in CandleRows) /\ (\A i \in 1..end15 : frame15[i] \in S)
    BY <2>1, <2>2, <2>3
  <2>5. c \in Seq(CandleRows) /\ Len(c) = Smaller(end15, TriggerBRows)
    <3>1. c \in Seq(CandleRows)
      BY <2>0, <2>1, EndingType
    <3> QED BY <2>0, <2>1, <3>1, EndingRows
  <2>6. f \in Seq(S) /\ Len(f) = Smaller(end15, TriggerBRows)
    <3>1. f \in Seq(S)
      BY <2>0, <2>1, EndingType
    <3> QED BY <2>0, <2>1, <3>1, EndingRows
  <2> HIDE DEF c, f
  <2>7. \A i \in 1..Len(f) : f[i] \in S
    BY <2>6, ElementOfSeq
  <2> QED BY <2>4, <2>5, <2>6, <2>7
<1>5. recent \in Seq(PivotType)
  <2> DEFINE V == {i \in DOMAIN pivots.m15 : pivots.m15[i].time < setup.hourly.episode}
             n == Len(pivots.m15)
  <2>1. n \in Nat /\ DOMAIN pivots.m15 = 1..n /\ \A i \in 1..n : pivots.m15[i] \in PivotType
    BY <1>3, LenProperties, ElementOfSeq
  <2>2. count15 \in 0..n
    BY <1>3, VisibleIsBounded
  <2>3. Cardinality(V) \in Nat
    <3>1. IsFiniteSet(1..n) /\ V \subseteq 1..n
      BY <2>1, FirstNumbers
    <3> HIDE DEF V, n
    <3> QED BY <3>1, FS_Subset, FS_CardinalityType
  <2>4. recent = SubSeq(pivots.m15, 1 + Cardinality(V), count15)
    BY DEF PivotsSince
  <2> HIDE DEF V, n, count15, recent
  <2>5. 1 + Cardinality(V) \in Int /\ count15 \in Int
        /\ \A i \in (1 + Cardinality(V))..count15 : pivots.m15[i] \in PivotType
    BY <2>1, <2>2, <2>3
  <2> QED BY <2>4, <2>5, SubSeqProperties
<1>6. zones'.m15 \in StateType /\ zones'.h1 \in StateType
  <2>1. Grown' /\ pivots' = pivots
    BY ZonesKeepGrowing DEF ScanInv, SetupEligible, Reach, inputs
  <2>2. /\ zones'.m15.next \in 0..Len(pivots.m15) /\ zones'.m15 = GrownZones(pivots.m15, zones'.m15.next)
        /\ zones'.h1.next \in 0..Len(pivots.h1) /\ zones'.h1 = GrownZones(pivots.h1, zones'.h1.next)
    BY <2>1 DEF Grown
  <2> QED BY <1>3, <2>2, GrownZonesType
<1>7. \A z \in zones15 \cup zones1h : IsZone(z)
  BY <1>6, ZonesOfType
<1>8. at + 1 \in Int
  BY SlotAssumption DEF ScanInv
<1> HIDE DEF setup, end15, c, f, hour, count15, recent, zones15, zones1h
<1>9. out.status \in {"ACCEPTED_PLAN", "REJECTED_REQUEST_BOUNDARY"} => Conservative(out.plan)
  <2> DEFINE rule == market.rule
             slot == at + 1
  <2>1. rule.tick \in Int /\ slot \in Int
    BY <1>3, <1>8
  <2> SUFFICES ASSUME out.status \in {"ACCEPTED_PLAN", "REJECTED_REQUEST_BOUNDARY"}
               PROVE  Conservative(out.plan)
    OBVIOUS
  <2>2. out = Decide(rule, setup, c, f, recent, zones15, hour, zones1h, slot)
    OBVIOUS
  <2> HIDE DEF out, rule, slot
  <2> QED BY <1>2, <1>4, <1>5, <1>7, <2>1, <2>2, DecisionsAreConservative
<1> HIDE DEF out
<1>10. seen'.status \in {"ACCEPTED_PLAN", "REJECTED_REQUEST_BOUNDARY"} => Conservative(seen'.plan)
  BY <1>1, <1>9
<1> QED BY <1>10 DEF PlanIsConservative, Conservative

\* Every step keeps the invariant.
LEMMA ScanContinues ==
  ASSUME ScanInv, [Next]_vars
  PROVE  ScanInv'
<1>1. CASE SetupNotReady
  <2>1. PICK setup : Reach(setup) /\ seen' = NotReady /\ zones' = zones
    BY <1>1 DEF SetupNotReady
  <2>2. Inputs' /\ Remembered' /\ at' \in (FirstSlot - 1)..LastSlot
    BY <2>1, ReachingASlot
  <2>3. Grown'
    BY <2>1 DEF ScanInv, Grown, Reach, inputs
  <2>4. PlanIsConservative'
    BY <2>1 DEF PlanIsConservative, NotReady
  <2> QED BY <2>2, <2>3, <2>4 DEF ScanInv
<1>2. CASE SetupIneligible
  <2>1. PICK setup : /\ setup = CachedSetup(Ends(at + 1)) /\ setup.status # "NOT_READY" /\ ~setup.eligible
                     /\ Reach(setup) /\ seen' = [status |-> setup.status] /\ zones' = zones
    BY <1>2 DEF SetupIneligible
  <2>2. Inputs' /\ Remembered' /\ at' \in (FirstSlot - 1)..LastSlot /\ setup = WindowedSetup(Ends(at + 1))
    BY <2>1, ReachingASlot
  <2>3. Grown'
    BY <2>1 DEF ScanInv, Grown, Reach, inputs
  <2>4. seen'.status \notin {"ACCEPTED_PLAN", "REJECTED_REQUEST_BOUNDARY"}
    <3>1. setup.status \in {"NOT_READY", "FOUR_HOUR_NEUTRAL", "FOUR_HOUR_COMPRESSED", "DAILY_BLOCK",
                            "ONE_HOUR_EVALUATED", "RAISES"}
      BY <2>2, SetupStatuses
    <3> QED BY <2>1, <3>1
  <2>5. PlanIsConservative'
    BY <2>4 DEF PlanIsConservative
  <2> QED BY <2>2, <2>3, <2>5 DEF ScanInv
<1>3. CASE SetupEligible
  <2>1. PICK setup : Reach(setup)
    BY <1>3 DEF SetupEligible
  <2>2. Inputs' /\ Remembered' /\ at' \in (FirstSlot - 1)..LastSlot
    BY <2>1, ReachingASlot
  <2>3. Grown'
    BY <1>3, ZonesKeepGrowing DEF ScanInv
  <2>4. PlanIsConservative'
    BY <1>3, EligibleIsConservative
  <2> QED BY <2>2, <2>3, <2>4 DEF ScanInv
<1>4. CASE NotAMember
  <2>1. at' \in (FirstSlot - 1)..LastSlot
    BY <1>4, SlotAssumption DEF NotAMember, Reaches, ScanInv
  <2>2. \A ends : WindowedSetup(ends)' = WindowedSetup(ends)
    BY <1>4 DEF NotAMember, inputs, WindowedSetup
  <2>3. Inputs' /\ Grown' /\ Remembered'
    BY <1>4, <2>2 DEF NotAMember, inputs, ScanInv, Inputs, Grown, Remembered
  <2>4. PlanIsConservative'
    BY <1>4 DEF NotAMember, PlanIsConservative
  <2> QED BY <2>1, <2>3, <2>4 DEF ScanInv
<1>5. CASE UNCHANGED vars
  <2>1. \A ends : WindowedSetup(ends)' = WindowedSetup(ends)
    BY <1>5 DEF vars, WindowedSetup
  <2>2. Inputs' /\ Grown' /\ Remembered' /\ at' \in (FirstSlot - 1)..LastSlot
    BY <1>5, <2>1 DEF vars, ScanInv, Inputs, Grown, Remembered
  <2>3. PlanIsConservative'
    BY <1>5 DEF vars, ScanInv, PlanIsConservative
  <2> QED BY <2>2, <2>3 DEF ScanInv
<1>6. CASE SetupRaises
  <2>1. at' \in (FirstSlot - 1)..LastSlot
    BY <1>6, SlotAssumption DEF SetupRaises, Reaches, ScanInv
  <2>2. \A ends : WindowedSetup(ends)' = WindowedSetup(ends)
    BY <1>6 DEF SetupRaises, inputs, WindowedSetup
  <2>3. Inputs' /\ Grown' /\ Remembered'
    BY <1>6, <2>2 DEF SetupRaises, inputs, ScanInv, Inputs, Grown, Remembered
  <2>4. PlanIsConservative'
    BY <1>6 DEF SetupRaises, PlanIsConservative
  <2> QED BY <2>1, <2>3, <2>4 DEF ScanInv
<1> QED BY <1>1, <1>2, <1>3, <1>4, <1>5, <1>6 DEF Next

\* The scan always remembers right, has grown its zones by the visible pivots, and
\* has accepted only conservative plans.
THEOREM ScanInvHolds == Spec => []ScanInv
<1> QED BY ScanStarts, ScanContinues, PTL DEF Spec

\* An accepted plan never flatters itself, whatever the market: entry, stop and targets
\* of build_entry_stop and build_take_profit keep the distances they promise and are
\* rounded against the trade, by less than a tick.
THEOREM PlansAreAlwaysConservative == Spec => []PlanIsConservative
<1>1. ScanInv => PlanIsConservative
  BY DEF ScanInv
<1> QED BY <1>1, ScanInvHolds, PTL

\* What _IncrementalZoneState has grown pivot by pivot is what merge_pivot_zones makes
\* of the same pivots, however the slots cut the stream.
THEOREM GrownZonesAreMerged == Spec => []IncrementalZonesAreMerged
<1>1. ScanInv => IncrementalZonesAreMerged
  <2> SUFFICES ASSUME ScanInv PROVE IncrementalZonesAreMerged
    OBVIOUS
  <2>1. pivots.m15 \in Seq(PivotType) /\ pivots.h1 \in Seq(PivotType)
    BY InputsAreTyped DEF ScanInv
  <2>2. /\ zones.m15.next \in 0..Len(pivots.m15) /\ zones.m15 = GrownZones(pivots.m15, zones.m15.next)
        /\ zones.h1.next \in 0..Len(pivots.h1) /\ zones.h1 = GrownZones(pivots.h1, zones.h1.next)
    BY DEF ScanInv, Grown
  <2>3. /\ ZonesOf(zones.m15, NaN) = MergeZones(Prefix(pivots.m15, zones.m15.next))
        /\ ZonesOf(zones.h1, NaN) = MergeZones(Prefix(pivots.h1, zones.h1.next))
    BY <2>1, <2>2, GrownAreMerged
  <2> QED BY <2>3 DEF IncrementalZonesAreMerged
<1> QED BY <1>1, ScanInvHolds, PTL

-----------------------------------------------------------------------------
(* Episodes *)

\* Row i is in a pullback.
Inside(c, f, i, direction) == Warm(f[i]) /\ InPullback(c[i], f[i], direction)
\* The unbroken pullback that ends at row end starts at row g.
RunStart(c, f, g, end, direction) ==
  /\ g \in 1..end
  /\ \A i \in g..end : Inside(c, f, i, direction)
  /\ g = 1 \/ ~Inside(c, f, g - 1, direction)

\* The runs that end at two consecutive rows start together.
LEMMA RunStartsAgree ==
  ASSUME NEW c, NEW f, NEW direction, NEW end \in Nat, NEW g, NEW h,
         RunStart(c, f, g, end, direction), RunStart(c, f, h, end + 1, direction)
  PROVE  g = h
<1> DEFINE In(i) == Inside(c, f, i, direction)
<1>1. g \in 1..end /\ (\A i \in g..end : In(i)) /\ (g = 1 \/ ~In(g - 1))
  BY DEF RunStart
<1>2. h \in 1..(end + 1) /\ (\A i \in h..(end + 1) : In(i)) /\ (h = 1 \/ ~In(h - 1))
  BY DEF RunStart
<1> HIDE DEF In
<1>3. ~(h < g)
  <2> SUFFICES ASSUME h < g PROVE FALSE
    OBVIOUS
  <2>1. g - 1 \in h..(end + 1) /\ g # 1
    BY <1>1, <1>2
  <2> QED BY <1>1, <1>2, <2>1
<1>4. ~(g < h)
  <2> SUFFICES ASSUME g < h PROVE FALSE
    OBVIOUS
  <2>1. h - 1 \in g..end /\ h # 1
    BY <1>1, <1>2
  <2> QED BY <1>1, <1>2, <2>1
<1> QED BY <1>1, <1>2, <1>3, <1>4

\* The start of an episode that is under way at the last row.
LEMMA EpisodeStarts ==
  ASSUME NEW c, NEW f, NEW direction, Len(c) \in Nat \ {0}, Inside(c, f, Len(c), direction)
  PROVE  RunStart(c, f, EpisodeStart(c, f, direction), Len(c), direction)
<1> DEFINE n == Len(c)
           In(i) == Inside(c, f, i, direction)
           S == {s \in 1..n : \A i \in s..n : In(i)}
<1>1. n \in S
  BY DEF Inside
<1>2. S \in SUBSET Nat
  OBVIOUS
<1>3. PICK s \in S : \A t \in S : s <= t
  <2> HIDE DEF S
  <2> QED BY <1>1, <1>2, SmallestExists
<1>4. s \in 1..n /\ \A i \in s..n : In(i)
  BY <1>3
<1>5. s > 1 => ~In(s - 1)
  <2> SUFFICES ASSUME s > 1, In(s - 1) PROVE FALSE
    OBVIOUS
  <2>1. s - 1 \in 1..n /\ \A i \in (s - 1)..n : i = s - 1 \/ i \in s..n
    BY <1>4
  <2>2. s - 1 \in S
    <3> HIDE DEF In
    <3> QED BY <1>4, <2>1
  <2> HIDE DEF S
  <2> QED BY <1>3, <1>4, <2>2
<1> DEFINE Is(x) == (\A i \in x..n : In(i)) /\ (x > 1 => ~In(x - 1))
           start == CHOOSE x \in 1..n : Is(x)
<1>6. start \in 1..n /\ Is(start)
  <2> HIDE DEF Is
  <2>1. Is(s)
    BY <1>4, <1>5 DEF Is
  <2> QED BY <1>4, <2>1
<1>7. EpisodeStart(c, f, direction) = start
  BY DEF EpisodeStart, Inside
<1> HIDE DEF start
<1>8. start = 1 \/ start > 1
  BY <1>6
<1> QED BY <1>6, <1>7, <1>8 DEF RunStart

RowsRec(end, it) ==
  it = [n \in 0..end |-> IF n = 0 THEN Smaller(end, PullbackRows) ELSE Smaller(end, 2 * it[n - 1])]

TryRows(c, f, end, direction, rows) == Pullback(Ending(c, end, rows), Ending(f, end, rows), direction)
SettledRows(c, f, end, direction, rows) ==
  ~StartsAtEdge(TryRows(c, f, end, direction, rows), Ending(c, end, rows)) \/ rows = end
FirstSettled(c, f, end, direction, it) ==
  CHOOSE n \in 0..end : /\ SettledRows(c, f, end, direction, it[n])
                        /\ \A m \in 0..(n - 1) : ~SettledRows(c, f, end, direction, it[m])

\* _hourly_episode_slice: the first settled of the doubling windows.
LEMMA RowsAreRecursive ==
  ASSUME NEW c, NEW f, NEW end, NEW direction, NEW it, RowsRec(end, it)
  PROVE  \E jt : /\ RowsRec(end, jt)
                 /\ HourlyEpisode(c, f, end, direction)
                      = TryRows(c, f, end, direction, jt[FirstSettled(c, f, end, direction, jt)])
BY DEF HourlyEpisode, RowsRec, TryRows, SettledRows, FirstSettled

\* The window doubles until it is settled, at the latest at the whole history.
LEMMA HourlyEpisodeIsSettled ==
  ASSUME NEW c, NEW f, NEW end \in Nat, NEW direction
  PROVE  \E rows \in 0..end : /\ end > 0 => rows > 0
                              /\ rows = end \/ rows >= PullbackRows
                              /\ HourlyEpisode(c, f, end, direction) = TryRows(c, f, end, direction, rows)
                              /\ SettledRows(c, f, end, direction, rows)
<1> DEFINE V == Nat
           P == PullbackRows
           base == Smaller(end, P)
           H == [i \in 1..end |-> [v \in V |-> Smaller(end, 2 * v)]]
<1>1. P \in Nat \ {0}
  BY SetupAssumption
<1>2. base \in V /\ \A i \in 1..end, v \in V : H[i][v] = Smaller(end, 2 * v) /\ H[i][v] \in V
  BY <1>1 DEF Smaller
<1> HIDE DEF V, base, H, P
<1>3. PICK g : g \in [0..end -> V] /\ IsRecursion(end, base, H, g)
  BY <1>2, RecursionExists
<1>4. RowsRec(end, g)
  <2>1. ASSUME NEW n \in 0..end PROVE g[n] = IF n = 0 THEN base ELSE Smaller(end, 2 * g[n - 1])
    <3>1. CASE n = 0
      BY <1>3, <3>1 DEF IsRecursion
    <3>2. CASE n # 0
      <4>1. n \in 1..end /\ n - 1 \in 0..end
        BY <3>2
      <4>2. g[n - 1] \in V /\ g[n] = H[n][g[n - 1]]
        BY <1>3, <4>1 DEF IsRecursion
      <4> QED BY <1>2, <3>2, <4>1, <4>2
    <3> QED BY <3>1, <3>2
  <2>2. g = [n \in 0..end |-> g[n]]
    BY <1>3
  <2> QED BY <2>1, <2>2 DEF RowsRec, base, P
<1>5. PICK jt : /\ RowsRec(end, jt)
                /\ HourlyEpisode(c, f, end, direction)
                     = TryRows(c, f, end, direction, jt[FirstSettled(c, f, end, direction, jt)])
  BY <1>4, RowsAreRecursive
<1>6. jt[0] = base /\ \A n \in 1..end : jt[n] = Smaller(end, 2 * jt[n - 1])
  <2>1. 0 \in 0..end /\ \A n \in 1..end : n \in 0..end /\ n # 0
    OBVIOUS
  <2> QED BY <1>5, <2>1 DEF RowsRec, base, P
<1> DEFINE Enough(n) == /\ jt[n] \in 0..end /\ (jt[n] = end \/ jt[n] >= n + 1)
                        /\ jt[n] = end \/ jt[n] >= P
           T == {n \in Nat : n <= end => Enough(n)}
<1>7. T = Nat
  <2>1. 0 \in T
    BY <1>1, <1>6 DEF base, Smaller
  <2>2. ASSUME NEW n \in T PROVE n + 1 \in T
    <3> SUFFICES ASSUME n + 1 <= end PROVE Enough(n + 1)
      BY <2>2
    <3>1. n \in Nat /\ Enough(n)
      BY <2>2
    <3> PICK m \in 1..end : m = n + 1
      BY <3>1
    <3>2. jt[m] = Smaller(end, 2 * jt[n])
      <4>1. m - 1 = n
        BY <3>1
      <4> QED BY <1>6, <4>1
    <3>3. P \in Nat /\ jt[n] \in Nat /\ jt[n] <= end /\ m <= end
      BY <1>1, <3>1
    <3>4. jt[m] \in 0..end /\ (jt[m] = end \/ jt[m] >= m + 1) /\ (jt[m] = end \/ jt[m] >= P)
      BY <3>1, <3>2, <3>3 DEF Smaller
    <3> QED BY <3>4
  <2>3. T \in SUBSET Nat
    OBVIOUS
  <2> HIDE DEF T
  <2> QED BY <2>1, <2>2, <2>3, AllNumbers
<1>8. \A n \in 0..end : Enough(n)
  <2>1. \A n \in 0..end : n \in T /\ n <= end
    BY <1>7
  <2> QED BY <2>1
<1> DEFINE Settled(n) == SettledRows(c, f, end, direction, jt[n])
           D == {n \in 0..end : Settled(n)}
<1>9. end \in D
  <2>1. jt[end] = end
    BY <1>8
  <2> QED BY <2>1 DEF SettledRows
<1>10. PICK k \in D : \A n \in D : k <= n
  <2>1. D \in SUBSET Nat
    OBVIOUS
  <2> HIDE DEF D
  <2> QED BY <1>9, <2>1, SmallestExists
<1> DEFINE first == FirstSettled(c, f, end, direction, jt)
<1>11. first \in 0..end /\ Settled(first)
  <2> DEFINE Is(n) == Settled(n) /\ \A m \in 0..(n - 1) : ~Settled(m)
  <2>1. k \in 0..end /\ Is(k)
    <3>1. \A m \in 0..(k - 1) : m \in 0..end /\ ~(k <= m)
      BY <1>10
    <3> HIDE DEF Settled
    <3>2. \A m \in 0..(k - 1) : ~Settled(m)
      BY <1>10, <3>1
    <3> QED BY <1>10, <3>2
  <2>2. first = CHOOSE n \in 0..end : Is(n)
    BY DEF FirstSettled
  <2> HIDE DEF Is, first
  <2>3. first \in 0..end /\ Is(first)
    BY <2>1, <2>2
  <2> QED BY <2>3 DEF Is
<1> HIDE DEF first
<1>12. jt[first] \in 0..end /\ (end > 0 => jt[first] > 0) /\ (jt[first] = end \/ jt[first] >= P)
  BY <1>8, <1>11
<1> QED BY <1>5, <1>11, <1>12 DEF first, P

\* What the evaluation of a window says of an episode.
LEMMA PullbackEpisode ==
  ASSUME NEW c, NEW f, NEW direction, Len(c) \in Nat, Len(f) = Len(c),
         Pullback(c, f, direction).status = "EVALUATED", Pullback(c, f, direction).episode # NaN
  PROVE  /\ Pullback(c, f, direction).status = "EVALUATED"
         /\ Pullback(c, f, direction).state \in {"SHALLOW", "STANDARD"}
         /\ Len(c) > 0
         /\ RunStart(c, f, EpisodeStart(c, f, direction), Len(c), direction)
         /\ Pullback(c, f, direction).episode = c[EpisodeStart(c, f, direction)].t
<1> DEFINE n == Len(c)
           result == Pullback(c, f, direction)
           state == PullbackState(Latest(c), Latest(f), direction)
           inside == state \in {"SHALLOW", "STANDARD"}
           start == IF inside THEN EpisodeStart(c, f, direction) ELSE 0
           fresh == inside /\ EpisodeIsNew(c, f, start, direction)
<1>1. result = IF n < PullbackRows \/ ~Warm(Latest(f)) THEN NotReady
               ELSE IF Flat(Latest(f)) THEN Refused
               ELSE IF start > 1 /\ ~Warm(f[start - 1]) THEN NotReady
               ELSE IF start > 1 /\ Flat(f[start - 1]) THEN Refused
               ELSE [status   |-> "EVALUATED", state |-> state,
                     episode  |-> IF inside THEN c[start].t ELSE NaN,
                     new      |-> fresh,
                     eligible |-> fresh /\ ~Accelerating(c, f, direction)]
  BY DEF Pullback
<1>2. result.status = "EVALUATED" /\ result.episode # NaN
  OBVIOUS
<1> HIDE DEF result, state, fresh
<1>3. ~(n < PullbackRows) /\ Warm(Latest(f)) /\ ~Flat(Latest(f))
      /\ result.status = "EVALUATED" /\ result.state = state
      /\ result.episode = IF inside THEN c[start].t ELSE NaN
  <2> HIDE DEF inside, start, n
  <2> QED BY <1>1, <1>2 DEF NotReady, Refused
<1>4. inside
  <2> HIDE DEF inside, start
  <2> QED BY <1>2, <1>3
<1>5. n > 0 /\ n \in Nat \ {0}
  BY <1>3, SetupAssumption
<1>6. Inside(c, f, n, direction)
  BY <1>3, <1>4 DEF Inside, InPullback, state, Latest
<1>7. RunStart(c, f, EpisodeStart(c, f, direction), n, direction)
  BY <1>5, <1>6, EpisodeStarts
<1> QED BY <1>3, <1>4, <1>5, <1>7 DEF result

\* The episode of the hour that ends at a row is where the run of pullback rows
\* that ends there starts in the whole stream.
LEMMA EpisodeIsTheRun ==
  ASSUME NEW c, NEW f, NEW end \in Nat, NEW direction,
         HourlyEpisode(c, f, end, direction).status = "EVALUATED",
         HourlyEpisode(c, f, end, direction).episode # NaN
  PROVE  \E g : /\ RunStart(c, f, g, end, direction)
                /\ HourlyEpisode(c, f, end, direction).episode = c[g].t
<1> DEFINE result == HourlyEpisode(c, f, end, direction)
<1>1. PICK rows \in 0..end : /\ end > 0 => rows > 0
                             /\ result = TryRows(c, f, end, direction, rows)
                             /\ SettledRows(c, f, end, direction, rows)
  BY HourlyEpisodeIsSettled
<1> DEFINE w == Ending(c, end, rows)
           v == Ending(f, end, rows)
           n == Len(w)
           s == EpisodeStart(w, v, direction)
<1>2. result = Pullback(w, v, direction)
  BY <1>1 DEF TryRows
<1>3. result.status = "EVALUATED" /\ result.episode # NaN
  OBVIOUS
<1> HIDE DEF result
<1>4. CASE end = 0
  <2>1. rows = 0
    BY <1>1, <1>4
  <2>2. w = SubSeq(c, 1, 0) /\ v = SubSeq(f, 1, 0)
    BY <1>4, <2>1 DEF Ending
  <2>3. Len(w) = 0
    BY <2>2
  <2>4. result = NotReady
    BY <1>2, <2>3, SetupAssumption DEF Pullback
  <2> QED BY <1>3, <2>4 DEF NotReady
<1>5. CASE end > 0
  <2>1. rows \in Nat \ {0} /\ Smaller(end, rows) = rows
    BY <1>1, <1>5 DEF Smaller
  <2>2. /\ Len(w) = rows /\ \A i \in 1..rows : w[i] = c[(end - rows) + i]
        /\ Len(v) = rows /\ \A i \in 1..rows : v[i] = f[(end - rows) + i]
    <3>1. Len(w) = rows /\ \A i \in 1..rows : w[i] = c[(end - rows) + i]
      <4>1. Len(w) = Smaller(end, rows) /\ \A i \in 1..Smaller(end, rows) : w[i] = c[(end - Smaller(end, rows)) + i]
        BY ZenonT(40), <2>1, EndingRows
      <4> QED BY <2>1, <4>1
    <3>2. Len(v) = rows /\ \A i \in 1..rows : v[i] = f[(end - rows) + i]
      <4>1. Len(v) = Smaller(end, rows) /\ \A i \in 1..Smaller(end, rows) : v[i] = f[(end - Smaller(end, rows)) + i]
        BY ZenonT(40), <2>1, EndingRows
      <4> QED BY <2>1, <4>1
    <3> QED BY <3>1, <3>2
  <2> HIDE DEF w, v
  <2>3. /\ result.status = "EVALUATED" /\ result.state \in {"SHALLOW", "STANDARD"}
        /\ RunStart(w, v, s, rows, direction) /\ result.episode = w[s].t
    BY <1>2, <1>3, <2>1, <2>2, PullbackEpisode
  <2> HIDE DEF s
  <2> DEFINE g == (end - rows) + s
  <2>4. /\ s \in 1..rows /\ \A i \in s..rows : Inside(w, v, i, direction)
        /\ s = 1 \/ ~Inside(w, v, s - 1, direction)
    BY <2>3 DEF RunStart
  <2>5. \A i \in 1..rows : Inside(w, v, i, direction) <=> Inside(c, f, (end - rows) + i, direction)
    BY <2>2 DEF Inside
  <2>6. g \in 1..end /\ result.episode = c[g].t
    BY <2>1, <2>2, <2>3, <2>4, <1>1
  <2>7. ASSUME NEW i \in g..end PROVE Inside(c, f, i, direction)
    <3>1. i - (end - rows) \in s..rows /\ i - (end - rows) \in 1..rows
      BY <2>4, <1>1
    <3> PICK j \in s..rows : j = i - (end - rows)
      BY <3>1
    <3>2. Inside(w, v, j, direction) /\ j \in 1..rows
      BY <2>4, <3>1
    <3>3. Inside(c, f, (end - rows) + j, direction)
      BY <2>5, <3>2
    <3>4. (end - rows) + j = i
      BY <1>1, <2>1
    <3> QED BY <3>3, <3>4
  <2>8. g = 1 \/ ~Inside(c, f, g - 1, direction)
    <3>1. CASE s = 1
      <4>1. result.episode = w[1].t
        BY <2>3, <3>1
      <4>2. StartsAtEdge(result, w)
        BY <2>3, <4>1 DEF StartsAtEdge
      <4>3. rows = end
        BY <1>1, <4>2 DEF SettledRows, w
      <4> QED BY <3>1, <4>3
    <3>2. CASE s # 1
      <4>1. s - 1 \in 1..rows /\ ~Inside(w, v, s - 1, direction) /\ (end - rows) + (s - 1) = g - 1
        BY <2>4, <3>2, <1>1
      <4> PICK j \in 1..rows : j = s - 1
        BY <4>1
      <4>2. ~Inside(c, f, (end - rows) + j, direction)
        BY <2>5, <4>1
      <4> QED BY <4>1, <4>2
    <3> QED BY <3>1, <3>2
  <2>9. RunStart(c, f, g, end, direction)
    <3> HIDE DEF g
    <3> QED BY <2>6, <2>7, <2>8 DEF RunStart
  <2> QED BY <2>6, <2>9 DEF result
<1> QED BY <1>4, <1>5

\* A setup that names an episode has it from the hours of its ends.
LEMMA SetupEpisode ==
  ASSUME NEW ends, Episode(WindowedSetup(ends)) # NaN
  PROVE  LET s == WindowedSetup(ends)
             h == HourlyEpisode(market.hour.c, market.hour.f, ends.hour, s.direction)
         IN  Episode(s) = h.episode /\ h.status = "EVALUATED" /\ h.episode # NaN
<1> DEFINE four == Cut(market.four, ends.four, FourHourRows)
           day == Cut(market.day, ends.day, SlopeLag + 1)
           hourly == [direction \in {"LONG", "SHORT"} |->
                        HourlyEpisode(market.hour.c, market.hour.f, ends.hour, direction)]
           s == WindowedSetup(ends)
           trend == FourHour(four.c, four.f)
           daily == Daily(day.c, day.f, trend.direction)
           pullback == hourly[trend.direction]
<1>1. s = SetupOf(four, day, hourly)
  BY DEF WindowedSetup
<1>2. s = IF trend.status # "EVALUATED" THEN Failed(trend)
          ELSE IF trend.direction = "NEUTRAL" THEN Skipped("FOUR_HOUR_NEUTRAL")
          ELSE IF trend.compressed THEN Skipped("FOUR_HOUR_COMPRESSED")
          ELSE IF daily.status = "NOT_READY" THEN NotReady
          ELSE IF daily.context = "BLOCK" THEN Skipped("DAILY_BLOCK")
          ELSE IF pullback.status # "EVALUATED" THEN Failed(pullback)
          ELSE [status |-> "ONE_HOUR_EVALUATED", eligible |-> pullback.eligible,
                direction |-> trend.direction, hourly |-> pullback]
  BY <1>1 DEF SetupOf
<1>3. s.status = "ONE_HOUR_EVALUATED" /\ Episode(s) = s.hourly.episode
  <2> HIDE DEF s
  <2> QED BY DEF Episode, s
<1>4. trend.status = "EVALUATED" => trend.direction \in {"LONG", "SHORT", "NEUTRAL"}
  <2>1. \A order, slope : Trend(order, slope) \in {"LONG", "SHORT", "NEUTRAL"}
    BY DEF Trend
  <2> HIDE DEF four
  <2>2. trend.status = "EVALUATED" =>
          \E order, slope : trend.direction = Trend(order, slope)
    BY DEF FourHour, NotReady, Refused
  <2> QED BY <2>1, <2>2
<1> HIDE DEF s, trend, daily, pullback, hourly
<1>5. /\ pullback.status = "EVALUATED" /\ s.direction = trend.direction /\ s.hourly = pullback
      /\ trend.direction \in {"LONG", "SHORT"}
  BY <1>2, <1>3, <1>4 DEF NotReady, Refused, Failed, Skipped
<1>6. pullback = HourlyEpisode(market.hour.c, market.hour.f, ends.hour, s.direction)
  BY <1>5 DEF pullback, hourly
<1>7. Episode(s) # NaN
  BY DEF s
<1> QED BY <1>3, <1>5, <1>6, <1>7 DEF s

\* Every setup remembered was evaluated at the ends of some slot.
Slots == \A entry \in cache : entry.ends.hour \in Nat

\* Setups of consecutive hours name the same episode while it lasts.
LEMMA EpisodesAreRuns ==
  ASSUME Remembered, Slots
  PROVE  EpisodeKeepsItsIdentity
<1> SUFFICES ASSUME NEW x \in cache, NEW y \in cache, y.ends.hour = x.ends.hour + 1,
                    Episode(x.setup) # NaN, Episode(y.setup) # NaN,
                    x.setup.direction = y.setup.direction
             PROVE  Episode(x.setup) = Episode(y.setup)
  BY DEF EpisodeKeepsItsIdentity
<1> DEFINE c == market.hour.c
           f == market.hour.f
           d == x.setup.direction
           end == x.ends.hour
<1>1. x.setup = WindowedSetup(x.ends) /\ y.setup = WindowedSetup(y.ends) /\ end \in Nat
  BY DEF Remembered, Slots
<1>2. /\ Episode(x.setup) = HourlyEpisode(c, f, end, d).episode
      /\ HourlyEpisode(c, f, end, d).status = "EVALUATED"
      /\ HourlyEpisode(c, f, end, d).episode # NaN
  BY <1>1, SetupEpisode
<1>3. /\ Episode(y.setup) = HourlyEpisode(c, f, end + 1, d).episode
      /\ HourlyEpisode(c, f, end + 1, d).status = "EVALUATED"
      /\ HourlyEpisode(c, f, end + 1, d).episode # NaN
  BY <1>1, SetupEpisode
<1> HIDE DEF c, f, d, end
<1>4. PICK g : RunStart(c, f, g, end, d) /\ HourlyEpisode(c, f, end, d).episode = c[g].t
  BY <1>1, <1>2, EpisodeIsTheRun
<1>5. PICK h : RunStart(c, f, h, end + 1, d) /\ HourlyEpisode(c, f, end + 1, d).episode = c[h].t
  <2>1. end + 1 \in Nat
    BY <1>1
  <2> QED BY <1>3, <2>1, EpisodeIsTheRun
<1>6. g = h
  BY <1>1, <1>4, <1>5, RunStartsAgree
<1> QED BY <1>2, <1>3, <1>4, <1>5, <1>6

\* While one pullback lasts, every hour gives it the same identity, however long it is
\* and wherever the doubling windows of _hourly_episode_slice cut it.
THEOREM EpisodesKeepTheirIdentity == Spec => []EpisodeKeepsItsIdentity
<1>1. Init => Slots
  BY DEF Init, Slots
<1>2. ASSUME ScanInv, Slots, [Next]_vars PROVE Slots'
  <2>1. ASSUME NEW setup, Reach(setup) PROVE Slots'
    <3>1. market.hour.c \in Seq(CandleRows)
      BY <1>2, InputsAreTyped DEF ScanInv
    <3>2. VisibleEnd(market.hour.c, HourStep, at + 1) \in 0..Len(market.hour.c)
      BY <3>1, EndIsBounded
    <3>3. Ends(at + 1).hour \in Nat
      BY <3>2 DEF Ends, EndsOf
    <3>4. cache' = cache \cup {[ends |-> Ends(at + 1), setup |-> setup]}
      BY <2>1 DEF Reach
    <3> QED BY <1>2, <3>3, <3>4 DEF Slots
  <2>2. CASE cache' = cache
    BY <1>2, <2>2 DEF Slots
  <2> QED BY <1>2, <2>1, <2>2 DEF Next, SetupNotReady, SetupRaises, SetupIneligible,
            SetupEligible, NotAMember, vars
<1>3. ScanInv /\ Slots => EpisodeKeepsItsIdentity
  BY EpisodesAreRuns DEF ScanInv
<1> QED BY <1>1, <1>2, <1>3, ScanInvHolds, PTL DEF Spec

\* Rows m to n of one stream are rows j to k of another.
SameRows(s, m, n, t, j, k) ==
  /\ n - m = k - j
  /\ \A i \in 1..(n - m + 1) : s[m + i - 1] = t[j + i - 1]

\* Two windows of the same rows are the same.
LEMMA WindowsAgree ==
  ASSUME NEW s, NEW t, NEW m \in Int, NEW n \in Int, NEW j \in Int, NEW k \in Int,
         SameRows(s, m, n, t, j, k)
  PROVE  SubSeq(s, m, n) = SubSeq(t, j, k)
<1> DEFINE S == {s[i] : i \in m..n} \cup {t[i] : i \in j..k}
           x == SubSeq(s, m, n)
           y == SubSeq(t, j, k)
<1>1. (\A i \in m..n : s[i] \in S) /\ (\A i \in j..k : t[i] \in S)
  OBVIOUS
<1> HIDE DEF S
<1>2. /\ x \in Seq(S) /\ Len(x) = (IF m <= n THEN n - m + 1 ELSE 0)
      /\ \A i \in 1..(n - m + 1) : x[i] = s[m + i - 1]
  BY <1>1, SubSeqProperties
<1>3. /\ y \in Seq(S) /\ Len(y) = (IF j <= k THEN k - j + 1 ELSE 0)
      /\ \A i \in 1..(k - j + 1) : y[i] = t[j + i - 1]
  BY <1>1, SubSeqProperties
<1>4. k - j + 1 = n - m + 1 /\ (j <= k <=> m <= n) /\ \A i \in 1..(n - m + 1) : s[m + i - 1] = t[j + i - 1]
  BY DEF SameRows
<1> HIDE DEF x, y
<1>5. Len(x) = Len(y) /\ \A i \in 1..Len(x) : i \in 1..(n - m + 1)
  BY <1>2, <1>3, <1>4
<1>6. \A i \in 1..Len(x) : x[i] = y[i]
  BY <1>2, <1>3, <1>4, <1>5
<1>7. x = y
  BY <1>2, <1>3, <1>5, <1>6, SeqEqual
<1> QED BY <1>7 DEF x, y

\* The last k rows of two streams are the same.
SameEnd(x, y, k) ==
  /\ Len(x) \in Nat /\ Len(y) \in Nat /\ k \in Nat /\ k <= Len(x) /\ k <= Len(y)
  /\ \A i \in Nat : i < k => x[Len(x) - i] = y[Len(y) - i]

\* The latest row of such streams.
LEMMA LatestAgree ==
  ASSUME NEW x, NEW y, NEW k, SameEnd(x, y, k), k > 0
  PROVE  Latest(x) = Latest(y)
<1>1. 0 \in Nat /\ 0 < k /\ Len(x) - 0 = Len(x) /\ Len(y) - 0 = Len(y)
  BY DEF SameEnd
<1> QED BY <1>1 DEF SameEnd, Latest

\* Their last rows.
LEMMA LastRowsAgree ==
  ASSUME NEW x, NEW y, NEW k, SameEnd(x, y, k), NEW j \in 0..k
  PROVE  LastRows(x, j) = LastRows(y, j)
<1> DEFINE a == Len(x)
           b == Len(y)
<1>1. a \in Nat /\ b \in Nat /\ k \in Nat /\ \A i \in Nat : i < k => x[a - i] = y[b - i]
  BY DEF SameEnd
<1> HIDE DEF a, b
<1> PICK m \in Int, n \in Int : m = a - j + 1 /\ n = b - j + 1
  BY <1>1
<1>2. ASSUME NEW i \in 1..(a - m + 1) PROVE x[m + i - 1] = y[n + i - 1]
  <2>1. j - i \in Nat /\ j - i < k /\ m + i - 1 = a - (j - i) /\ n + i - 1 = b - (j - i)
    BY <1>1
  <2> QED BY <1>1, <2>1
<1>3. SubSeq(x, m, a) = SubSeq(y, n, b)
  <2>1. a - m = b - n /\ a \in Int /\ b \in Int
    BY <1>1
  <2>2. SameRows(x, m, a, y, n, b)
    BY <1>2, <2>1 DEF SameRows
  <2> QED BY <2>1, <2>2, WindowsAgree
<1> QED BY <1>3 DEF LastRows, a, b

\* A window ends as the prefix does that it ends.
LEMMA EndingsEndAlike ==
  ASSUME NEW s, NEW end \in Nat, NEW rows \in Nat \ {0}, NEW wide \in Nat \ {0}, NEW k \in Nat,
         k <= Smaller(end, rows), k <= Smaller(end, wide)
  PROVE  SameEnd(Ending(s, end, rows), Ending(s, end, wide), k)
<1> DEFINE x == Ending(s, end, rows)
           y == Ending(s, end, wide)
           a == Smaller(end, rows)
           b == Smaller(end, wide)
<1>1. a \in Nat /\ b \in Nat /\ a <= end /\ b <= end
  BY DEF Smaller
<1>2. Len(x) = a /\ \A i \in 1..a : x[i] = s[(end - a) + i]
  <2>1. Len(x) = a
    BY EndingRows
  <2>2. \A i \in 1..a : x[i] = s[(end - a) + i]
    BY EndingRows
  <2> QED BY <2>1, <2>2
<1>3. Len(y) = b /\ \A i \in 1..b : y[i] = s[(end - b) + i]
  <2>1. Len(y) = b
    BY EndingRows
  <2>2. \A i \in 1..b : y[i] = s[(end - b) + i]
    BY EndingRows
  <2> QED BY <2>1, <2>2
<1>4. k <= a /\ k <= b
  OBVIOUS
<1> HIDE DEF x, y, a, b
<1>5. ASSUME NEW i \in Nat, i < k PROVE x[a - i] = y[b - i]
  <2>1. a - i \in 1..a /\ b - i \in 1..b /\ (end - a) + (a - i) = end - i /\ (end - b) + (b - i) = end - i
    BY <1>1, <1>4, <1>5
  <2> QED BY SMTT(30), <1>2, <1>3, <2>1
<1>6. SameEnd(x, y, k)
  BY <1>1, <1>2, <1>3, <1>4, <1>5 DEF SameEnd
<1> QED BY <1>6 DEF x, y

\* No row of a window or of the prefix it ends when nothing has closed.
LEMMA NothingClosed ==
  ASSUME NEW s, NEW rows \in Nat \ {0}
  PROVE  Ending(s, 0, rows) = Ending(s, 0, 0) /\ Len(Ending(s, 0, 0)) = 0
<1>1. Ending(s, 0, rows) = SubSeq(s, 1, 0) /\ Ending(s, 0, 0) = SubSeq(s, 1, 0)
  BY DEF Ending
<1>2. SubSeq(s, 1, 0) = << >>
  BY SubSeqEmpty
<1>3. Len(<< >>) = 0
  OBVIOUS
<1> QED BY <1>1, <1>2, <1>3

\* The 4H evaluation looks at its last rows only.
LEMMA FourHourAgrees ==
  ASSUME NEW c, NEW f, NEW d, NEW g, SameEnd(c, d, FourHourRows), SameEnd(f, g, FourHourRows)
  PROVE  FourHour(c, f) = FourHour(d, g)
<1>1. FourHourRows \in 0..FourHourRows
  BY SetupAssumption
<1>2. LastRows(c, FourHourRows) = LastRows(d, FourHourRows)
  BY <1>1, LastRowsAgree
<1>3. LastRows(f, FourHourRows) = LastRows(g, FourHourRows)
  BY <1>1, LastRowsAgree
<1>4. ~(Len(c) < FourHourRows) /\ ~(Len(d) < FourHourRows)
  BY DEF SameEnd
<1> QED BY <1>2, <1>3, <1>4 DEF FourHour

\* The 1D context looks at its last rows only.
LEMMA DailyAgrees ==
  ASSUME NEW c, NEW f, NEW d, NEW g, NEW direction,
         SameEnd(c, d, SlopeLag + 1), SameEnd(f, g, SlopeLag + 1)
  PROVE  Daily(c, f, direction) = Daily(d, g, direction)
<1>0. SlopeLag \in Nat \ {0}
  BY SetupAssumption
<1>1. ~(Len(c) < SlopeLag + 1) /\ ~(Len(d) < SlopeLag + 1)
  BY <1>0 DEF SameEnd
<1>2. Latest(f) = Latest(g)
  BY <1>0, LatestAgree
<1> DEFINE a == Len(f)
           b == Len(g)
<1>3. /\ a \in Nat /\ b \in Nat /\ SlopeLag + 1 <= a /\ SlopeLag + 1 <= b
      /\ \A i \in 0..SlopeLag : f[a - i] = g[b - i]
  <2>1. \A i \in 0..SlopeLag : i \in Nat /\ i < SlopeLag + 1
    BY <1>0
  <2>2. \A i \in Nat : i < SlopeLag + 1 => f[a - i] = g[b - i]
    BY DEF SameEnd
  <2>3. a \in Nat /\ b \in Nat /\ SlopeLag + 1 <= a /\ SlopeLag + 1 <= b
    BY DEF SameEnd
  <2> QED BY <2>1, <2>2, <2>3
<1> HIDE DEF a, b
<1>4. f[a - SlopeLag] = g[b - SlopeLag]
  BY <1>0, <1>3
<1>5. SlopeOver(f) = SlopeOver(g)
  BY <1>2, <1>4 DEF SlopeOver, a, b
<1> DEFINE Cold(x) == x.sma["sma180"] = NaN
           fc == \E i \in (a - SlopeLag)..a : Cold(f[i])
           gc == \E i \in (b - SlopeLag)..b : Cold(g[i])
<1>6. fc <=> gc
  <2>1. ASSUME NEW i \in (a - SlopeLag)..a PROVE \E j \in (b - SlopeLag)..b : f[i] = g[j]
    <3>1. a - i \in 0..SlopeLag /\ b - (a - i) \in (b - SlopeLag)..b /\ a - (a - i) = i
      BY <1>0, <1>3
    <3> QED BY <1>3, <3>1
  <2>2. ASSUME NEW j \in (b - SlopeLag)..b PROVE \E i \in (a - SlopeLag)..a : f[i] = g[j]
    <3>1. b - j \in 0..SlopeLag /\ a - (b - j) \in (a - SlopeLag)..a /\ b - (b - j) = j
      BY <1>0, <1>3
    <3> QED BY <1>3, <3>1
  <2> HIDE DEF Cold
  <2> QED BY <2>1, <2>2
<1>7. Daily(c, f, direction) =
        IF ~WarmAverages(Latest(f)) \/ fc THEN NotReady
        ELSE LET trend == Trend(MaOrder(Latest(f).sma), SlopeOver(f))
             IN  [status  |-> "EVALUATED",
                  context |-> IF trend = "NEUTRAL" THEN "MIXED"
                              ELSE IF trend = direction THEN "ALIGNED" ELSE "BLOCK"]
  BY <1>1 DEF Daily, a
<1>8. Daily(d, g, direction) =
        IF ~WarmAverages(Latest(g)) \/ gc THEN NotReady
        ELSE LET trend == Trend(MaOrder(Latest(g).sma), SlopeOver(g))
             IN  [status  |-> "EVALUATED",
                  context |-> IF trend = "NEUTRAL" THEN "MIXED"
                              ELSE IF trend = direction THEN "ALIGNED" ELSE "BLOCK"]
  BY <1>1 DEF Daily, b
<1> HIDE DEF fc, gc
<1> QED BY <1>2, <1>5, <1>6, <1>7, <1>8

\* A run of pullback rows has one start.
LEMMA RunStartIsUnique ==
  ASSUME NEW c, NEW f, NEW direction, NEW end \in Nat, NEW g, NEW h,
         RunStart(c, f, g, end, direction), RunStart(c, f, h, end, direction)
  PROVE  g = h
<1> DEFINE In(i) == Inside(c, f, i, direction)
<1>1. /\ g \in 1..end /\ \A i \in g..end : In(i)
      /\ g = 1 \/ ~In(g - 1)
      /\ h \in 1..end /\ \A i \in h..end : In(i)
      /\ h = 1 \/ ~In(h - 1)
  BY DEF RunStart
<1> HIDE DEF In
<1>2. ASSUME g < h PROVE FALSE
  <2>1. h - 1 \in g..end /\ h # 1
    BY <1>1, <1>2
  <2> QED BY <1>1, <2>1
<1>3. ASSUME h < g PROVE FALSE
  <2>1. g - 1 \in h..end /\ g # 1
    BY <1>1, <1>3
  <2> QED BY <1>1, <2>1
<1> QED BY <1>1, <1>2, <1>3

\* w and v are the last r rows of c and f.
TailOf(w, v, c, f, r, n) ==
  /\ n \in Nat /\ r \in 1..n
  /\ Len(c) = n /\ Len(f) = n /\ Len(w) = r /\ Len(v) = r
  /\ \A i \in 1..r : w[i] = c[(n - r) + i] /\ v[i] = f[(n - r) + i]

\* They end alike.
LEMMA TailsEndAlike ==
  ASSUME NEW w, NEW v, NEW c, NEW f, NEW r, NEW n, TailOf(w, v, c, f, r, n)
  PROVE  SameEnd(w, c, r) /\ SameEnd(v, f, r)
<1>1. /\ n \in Nat /\ r \in 1..n
      /\ Len(c) = n /\ Len(f) = n /\ Len(w) = r /\ Len(v) = r
      /\ \A i \in 1..r : w[i] = c[(n - r) + i] /\ v[i] = f[(n - r) + i]
  BY DEF TailOf
<1>2. ASSUME NEW i \in Nat, i < r PROVE w[r - i] = c[n - i] /\ v[r - i] = f[n - i]
  <2> PICK j \in 1..r : j = r - i
    BY <1>1, <1>2
  <2>1. (n - r) + j = n - i
    BY <1>1
  <2> QED BY <1>1, <2>1
<1> QED BY <1>1, <1>2 DEF SameEnd

\* The acceleration check looks at its last rows only.
LEMMA AcceleratingAgrees ==
  ASSUME NEW c, NEW f, NEW d, NEW g, NEW direction,
         SameEnd(c, d, PullbackRows), SameEnd(f, g, PullbackRows)
  PROVE  Accelerating(c, f, direction) = Accelerating(d, g, direction)
<1>1. PullbackRows \in Nat /\ PullbackRows > 2 /\ 2 \in 0..PullbackRows /\ PullbackRows \in 0..PullbackRows
  BY SetupAssumption
<1>2. LastRows(c, 2) = LastRows(d, 2) /\ LastRows(c, PullbackRows) = LastRows(d, PullbackRows)
  BY <1>1, LastRowsAgree
<1>3. Latest(f) = Latest(g)
  BY <1>1, LatestAgree
<1>4. f[Len(f) - 1] = g[Len(g) - 1]
  <2>1. 1 \in Nat /\ 1 < PullbackRows
    BY <1>1
  <2> QED BY <2>1 DEF SameEnd
<1> QED BY <1>2, <1>3, <1>4 DEF Accelerating

\* The pullback of a window is that of the whole history, unless it reaches the
\* first row of the window.
LEMMA PullbackAgrees ==
  ASSUME NEW w, NEW v, NEW c, NEW f, NEW r, NEW n, NEW direction,
         TailOf(w, v, c, f, r, n), r >= PullbackRows,
         ~StartsAtEdge(Pullback(w, v, direction), w)
  PROVE  Pullback(w, v, direction) = Pullback(c, f, direction)
<1>1. /\ n \in Nat /\ r \in 1..n
      /\ Len(c) = n /\ Len(f) = n /\ Len(w) = r /\ Len(v) = r
      /\ \A i \in 1..r : w[i] = c[(n - r) + i] /\ v[i] = f[(n - r) + i]
  BY DEF TailOf
<1>2. SameEnd(w, c, r) /\ SameEnd(v, f, r)
  BY TailsEndAlike
<1>3. PullbackRows \in Nat /\ PullbackRows > 2
  BY SetupAssumption
<1>4. SameEnd(w, c, PullbackRows) /\ SameEnd(v, f, PullbackRows)
  BY <1>1, <1>2, <1>3 DEF SameEnd
<1>5. Latest(w) = Latest(c) /\ Latest(v) = Latest(f)
  BY <1>1, <1>2, LatestAgree
<1>6. ~(Len(w) < PullbackRows) /\ ~(Len(c) < PullbackRows)
  BY <1>1, <1>3
<1> DEFINE state == PullbackState(Latest(c), Latest(f), direction)
           inside == state \in {"SHALLOW", "STANDARD"}
           start == IF inside THEN EpisodeStart(w, v, direction) ELSE 0
           begin == IF inside THEN EpisodeStart(c, f, direction) ELSE 0
           fresh == inside /\ EpisodeIsNew(w, v, start, direction)
           new == inside /\ EpisodeIsNew(c, f, begin, direction)
           hot == Accelerating(c, f, direction)
<1>7. Pullback(w, v, direction) =
        IF ~Warm(Latest(f)) THEN NotReady
        ELSE IF Flat(Latest(f)) THEN Refused
        ELSE IF start > 1 /\ ~Warm(v[start - 1]) THEN NotReady
        ELSE IF start > 1 /\ Flat(v[start - 1]) THEN Refused
        ELSE [status   |-> "EVALUATED", state |-> state,
              episode  |-> IF inside THEN w[start].t ELSE NaN,
              new      |-> fresh,
              eligible |-> fresh /\ ~Accelerating(w, v, direction)]
  BY <1>5, <1>6 DEF Pullback
<1>8. Pullback(c, f, direction) =
        IF ~Warm(Latest(f)) THEN NotReady
        ELSE IF Flat(Latest(f)) THEN Refused
        ELSE IF begin > 1 /\ ~Warm(f[begin - 1]) THEN NotReady
        ELSE IF begin > 1 /\ Flat(f[begin - 1]) THEN Refused
        ELSE [status   |-> "EVALUATED", state |-> state,
              episode  |-> IF inside THEN c[begin].t ELSE NaN,
              new      |-> new,
              eligible |-> new /\ ~hot]
  BY <1>6 DEF Pullback
<1>9. Accelerating(w, v, direction) = hot
  BY <1>4, AcceleratingAgrees
<1>10. CASE ~inside \/ ~Warm(Latest(f)) \/ Flat(Latest(f))
  <2> HIDE DEF hot, state
  <2> QED BY <1>7, <1>8, <1>9, <1>10
<1>11. CASE inside /\ Warm(Latest(f)) /\ ~Flat(Latest(f))
  <2>1. Inside(w, v, r, direction) /\ Inside(c, f, n, direction)
    BY <1>1, <1>5, <1>11 DEF Inside, InPullback, Latest
  <2>2. RunStart(w, v, start, r, direction) /\ RunStart(c, f, begin, n, direction)
    <3>1. Len(w) \in Nat \ {0} /\ Len(c) \in Nat \ {0}
      BY <1>1
    <3>2. RunStart(w, v, EpisodeStart(w, v, direction), r, direction)
      BY <1>1, <2>1, <3>1, EpisodeStarts
    <3>3. RunStart(c, f, EpisodeStart(c, f, direction), n, direction)
      BY <1>1, <2>1, <3>1, EpisodeStarts
    <3> QED BY <1>11, <3>2, <3>3
  <2> HIDE DEF start, begin
  <2>3. start # 1
    <3> SUFFICES ASSUME start = 1 PROVE FALSE
      OBVIOUS
    <3> DEFINE result == Pullback(w, v, direction)
    <3>1. result.status = "EVALUATED" /\ result.state = state /\ result.episode = w[1].t
      <4> HIDE DEF state, hot, fresh
      <4> QED BY <1>7, <1>11
    <3> QED BY <1>11, <3>1 DEF StartsAtEdge
  <2>4. /\ start \in 1..r /\ \A i \in start..r : Inside(w, v, i, direction)
        /\ ~Inside(w, v, start - 1, direction)
    BY <2>2, <2>3 DEF RunStart
  <2>5. \A i \in 1..r : Inside(w, v, i, direction) <=> Inside(c, f, (n - r) + i, direction)
    BY <1>1 DEF Inside
  <2> DEFINE g == (n - r) + start
  <2>6. RunStart(c, f, g, n, direction)
    <3>1. g \in 1..n
      BY <1>1, <2>4
    <3>2. ASSUME NEW i \in g..n PROVE Inside(c, f, i, direction)
      <4> PICK j \in 1..r : j = i - (n - r) /\ j \in start..r
        BY <1>1, <2>4
      <4>1. (n - r) + j = i
        BY <1>1
      <4> QED BY <2>4, <2>5, <4>1
    <3>3. ~Inside(c, f, g - 1, direction)
      <4> PICK j \in 1..r : j = start - 1
        BY <1>1, <2>3, <2>4
      <4>1. (n - r) + j = g - 1
        BY <1>1, <2>4
      <4> QED BY <2>4, <2>5, <4>1
    <3> HIDE DEF g
    <3> QED BY <3>1, <3>2, <3>3 DEF RunStart
  <2>7. begin = g
    BY <1>1, <2>2, <2>6, RunStartIsUnique
  <2>8. w[start] = c[begin]
    BY <1>1, <2>4, <2>7
  <2>9. w[start - 1] = c[begin - 1] /\ v[start - 1] = f[begin - 1]
    <3> PICK j \in 1..r : j = start - 1
      BY <1>1, <2>3, <2>4
    <3>1. (n - r) + j = begin - 1
      BY <1>1, <2>4, <2>7
    <3> QED BY <1>1, <3>1
  <2>10. start > 1 /\ begin > 1
    BY <1>1, <2>3, <2>4, <2>7
  <2>11. EpisodeIsNew(w, v, start, direction) = EpisodeIsNew(c, f, begin, direction)
    BY <2>9, <2>10 DEF EpisodeIsNew
  <2> HIDE DEF state, hot
  <2> QED BY <1>7, <1>8, <1>9, <2>8, <2>9, <2>10, <2>11
<1> QED BY <1>10, <1>11

\* _hourly_episode_slice loses nothing: its window evaluates as the whole history does.
LEMMA HourlyEpisodeIsThePullback ==
  ASSUME NEW c, NEW f, NEW end \in Nat, NEW direction
  PROVE  HourlyEpisode(c, f, end, direction)
           = Pullback(Ending(c, end, end), Ending(f, end, end), direction)
<1>1. PICK rows \in 0..end : /\ end > 0 => rows > 0
                             /\ rows = end \/ rows >= PullbackRows
                             /\ HourlyEpisode(c, f, end, direction) = TryRows(c, f, end, direction, rows)
                             /\ SettledRows(c, f, end, direction, rows)
  BY HourlyEpisodeIsSettled
<1>2. CASE rows = end
  BY <1>1, <1>2 DEF TryRows
<1>3. CASE rows # end
  <2>1. rows \in Nat \ {0} /\ rows < end /\ end \in Nat \ {0}
    BY <1>1, <1>3
  <2> DEFINE w == Ending(c, end, rows)
             v == Ending(f, end, rows)
             wc == Ending(c, end, end)
             wf == Ending(f, end, end)
  <2>2. Smaller(end, rows) = rows /\ Smaller(end, end) = end
    BY <2>1 DEF Smaller
  <2>3. /\ Len(w) = rows /\ Len(v) = rows /\ Len(wc) = end /\ Len(wf) = end
    BY <2>1, <2>2, EndingRows
  <2>4. /\ \A i \in 1..rows : w[i] = c[(end - rows) + i] /\ v[i] = f[(end - rows) + i]
        /\ \A i \in 1..end : wc[i] = c[i] /\ wf[i] = f[i]
    <3>1. \A i \in 1..Smaller(end, rows) : w[i] = c[(end - Smaller(end, rows)) + i]
      BY <2>1, EndingRows
    <3>2. \A i \in 1..Smaller(end, rows) : v[i] = f[(end - Smaller(end, rows)) + i]
      BY <2>1, EndingRows
    <3>3. \A i \in 1..Smaller(end, end) : wc[i] = c[(end - Smaller(end, end)) + i]
      BY <2>1, EndingRows
    <3>4. \A i \in 1..Smaller(end, end) : wf[i] = f[(end - Smaller(end, end)) + i]
      BY <2>1, EndingRows
    <3> HIDE DEF w, v, wc, wf
    <3>5. \A i \in 1..end : (end - end) + i = i
      OBVIOUS
    <3> QED BY <2>2, <3>1, <3>2, <3>3, <3>4, <3>5
  <2> HIDE DEF w, v, wc, wf
  <2>5. TailOf(w, v, wc, wf, rows, end)
    <3>1. ASSUME NEW i \in 1..rows
          PROVE  w[i] = wc[(end - rows) + i] /\ v[i] = wf[(end - rows) + i]
      <4> PICK j \in 1..end : j = (end - rows) + i
        BY <2>1
      <4> QED BY <2>4
    <3>2. rows \in 1..end
      BY <2>1
    <3> QED BY <2>3, <3>1, <3>2 DEF TailOf
  <2>6. ~StartsAtEdge(Pullback(w, v, direction), w)
    BY <1>1, <1>3 DEF SettledRows, TryRows, w, v
  <2>7. Pullback(w, v, direction) = Pullback(wc, wf, direction)
    BY <1>1, <1>3, <2>5, <2>6, PullbackAgrees
  <2> QED BY <1>1, <2>7 DEF TryRows, w, v, wc, wf
<1> QED BY <1>2, <1>3

\* Windows of fewer rows than an evaluation needs are as short as the history is.
LEMMA ShortEndings ==
  ASSUME NEW s, NEW end \in Nat, NEW rows \in Nat \ {0}
  PROVE  Len(Ending(s, end, rows)) = Smaller(end, rows) /\ Len(Ending(s, end, end)) = end
<1>1. Len(Ending(s, end, rows)) = Smaller(end, rows)
  BY EndingRows
<1>2. CASE end = 0
  BY <1>1, <1>2, NothingClosed
<1>3. CASE end # 0
  <2>1. Len(Ending(s, end, end)) = Smaller(end, end)
    BY <1>3, EndingRows
  <2> QED BY <1>1, <2>1 DEF Smaller
<1> QED BY <1>2, <1>3

\* The 4H window loses nothing.
LEMMA FourHourWindow ==
  ASSUME NEW c, NEW f, NEW end \in Nat
  PROVE  FourHour(Ending(c, end, FourHourRows), Ending(f, end, FourHourRows))
           = FourHour(Ending(c, end, end), Ending(f, end, end))
<1>0. FourHourRows \in Nat \ {0}
  BY SetupAssumption
<1>1. CASE end < FourHourRows
  <2>1. Len(Ending(c, end, FourHourRows)) < FourHourRows /\ Len(Ending(c, end, end)) < FourHourRows
    BY <1>0, <1>1, ShortEndings DEF Smaller
  <2> QED BY <2>1 DEF FourHour
<1>2. CASE ~(end < FourHourRows)
  <2>1. end \in Nat \ {0} /\ FourHourRows <= Smaller(end, FourHourRows) /\ FourHourRows <= Smaller(end, end)
    BY <1>0, <1>2 DEF Smaller
  <2>2. /\ SameEnd(Ending(c, end, FourHourRows), Ending(c, end, end), FourHourRows)
        /\ SameEnd(Ending(f, end, FourHourRows), Ending(f, end, end), FourHourRows)
    BY <1>0, <2>1, EndingsEndAlike
  <2> QED BY <2>2, FourHourAgrees
<1> QED BY <1>1, <1>2

\* Nor does the 1D window.
LEMMA DailyWindow ==
  ASSUME NEW c, NEW f, NEW end \in Nat, NEW direction
  PROVE  Daily(Ending(c, end, SlopeLag + 1), Ending(f, end, SlopeLag + 1), direction)
           = Daily(Ending(c, end, end), Ending(f, end, end), direction)
<1> DEFINE rows == SlopeLag + 1
<1>0. rows \in Nat \ {0}
  BY SetupAssumption
<1> HIDE DEF rows
<1>1. CASE end < rows
  <2>1. Len(Ending(c, end, rows)) < rows /\ Len(Ending(c, end, end)) < rows
    BY <1>0, <1>1, ShortEndings DEF Smaller
  <2> QED BY <2>1 DEF Daily, rows
<1>2. CASE ~(end < rows)
  <2>1. end \in Nat \ {0} /\ rows <= Smaller(end, rows) /\ rows <= Smaller(end, end)
    BY <1>0, <1>2 DEF Smaller
  <2>2. /\ SameEnd(Ending(c, end, rows), Ending(c, end, end), rows)
        /\ SameEnd(Ending(f, end, rows), Ending(f, end, end), rows)
    BY <1>0, <2>1, EndingsEndAlike
  <2>3. /\ SameEnd(Ending(c, end, rows), Ending(c, end, end), SlopeLag + 1)
        /\ SameEnd(Ending(f, end, rows), Ending(f, end, end), SlopeLag + 1)
    BY <2>2 DEF rows
  <2> QED BY <2>3, DailyAgrees DEF rows
<1> QED BY <1>1, <1>2

\* What the scan evaluates in windows is what the source evaluates in full.
LEMMA SetupsAgree ==
  ASSUME NEW ends, ends.four \in Nat, ends.day \in Nat, ends.hour \in Nat
  PROVE  WindowedSetup(ends) = SourceSetup(market, ends)
<1> DEFINE four == Cut(market.four, ends.four, FourHourRows)
           fourAll == Cut(market.four, ends.four, ends.four)
           day == Cut(market.day, ends.day, SlopeLag + 1)
           dayAll == Cut(market.day, ends.day, ends.day)
           hourly == [direction \in {"LONG", "SHORT"} |->
                        HourlyEpisode(market.hour.c, market.hour.f, ends.hour, direction)]
           hourlyAll == [direction \in {"LONG", "SHORT"} |->
                           Pullback(Prefix(market.hour.c, ends.hour), Prefix(market.hour.f, ends.hour), direction)]
           trend == FourHour(four.c, four.f)
<1>1. trend = FourHour(fourAll.c, fourAll.f)
  BY FourHourWindow DEF Cut
<1>2. \A direction : Daily(day.c, day.f, direction) = Daily(dayAll.c, dayAll.f, direction)
  BY DailyWindow DEF Cut
<1>3. ASSUME NEW direction \in {"LONG", "SHORT"} PROVE hourly[direction] = hourlyAll[direction]
  <2>1. HourlyEpisode(market.hour.c, market.hour.f, ends.hour, direction)
          = Pullback(Ending(market.hour.c, ends.hour, ends.hour), Ending(market.hour.f, ends.hour, ends.hour), direction)
    BY HourlyEpisodeIsThePullback
  <2>2. \A s : Ending(s, ends.hour, ends.hour) = Prefix(s, ends.hour)
    BY DEF Ending, Prefix
  <2> QED BY <2>1, <2>2
<1>4. hourly = hourlyAll
  BY <1>3
<1>5. WindowedSetup(ends) = SetupOf(four, day, hourly)
  BY DEF WindowedSetup
<1>6. SourceSetup(market, ends) = SetupOf(fourAll, dayAll, hourlyAll)
  BY DEF SourceSetup
<1> HIDE DEF four, fourAll, day, dayAll, hourly, hourlyAll
<1>7. SetupOf(four, day, hourly) = SetupOf(fourAll, dayAll, hourly)
  BY <1>1, <1>2 DEF SetupOf
<1> QED BY <1>4, <1>5, <1>6, <1>7

-----------------------------------------------------------------------------
(* Nothing looks ahead: frames, pivots and zones of what has closed *)

\* The rows of a stream that end at its row e are those of its prefix.
SameStart(x, y, e) == \A i \in Nat : 1 <= i /\ i <= e => x[i] = y[i]

\* A window within that prefix.
LEMMA WindowsOfPrefix ==
  ASSUME NEW x, NEW y, NEW e \in Nat, SameStart(x, y, e), NEW k \in Int, k <= e, NEW n \in Nat \ {0}, k >= n
  PROVE  WindowAt(x, k, n) = WindowAt(y, k, n)
<1> PICK m \in Nat : m = k - n + 1
  OBVIOUS
<1>1. ASSUME NEW i \in 1..(k - m + 1) PROVE x[m + i - 1] = y[m + i - 1]
  <2>1. m + i - 1 \in Nat /\ 1 <= m + i - 1 /\ m + i - 1 <= e
    OBVIOUS
  <2> QED BY <2>1 DEF SameStart
<1>2. SameRows(x, m, k, y, m, k)
  BY <1>1 DEF SameRows
<1>3. SubSeq(x, m, k) = SubSeq(y, m, k)
  BY <1>2, WindowsAgree
<1> QED BY <1>3 DEF WindowAt

\* True ranges look at the row and the row before.
LEMMA TrueRangesAgree ==
  ASSUME NEW c, NEW d, NEW e \in Nat, SameStart(d, c, e), NEW i \in 1..e
  PROVE  TrueRange(d, i) = TrueRange(c, i)
<1>1. d[i] = c[i]
  BY DEF SameStart
<1>2. i # 1 => d[i - 1] = c[i - 1]
  BY DEF SameStart
<1> QED BY <1>1, <1>2 DEF TrueRange

\* Wilder's average true range of a prefix.
LEMMA AtrsAgree ==
  ASSUME NEW c \in Seq(CandleRows), NEW d \in Seq(CandleRows), NEW e \in 0..Len(c), Len(d) = e,
         SameStart(d, c, e)
  PROVE  SameStart(WilderAtr(d), WilderAtr(c), e)
<1> DEFINE u == [j \in DOMAIN c |-> TrueRange(c, j)]
           v == [j \in DOMAIN d |-> TrueRange(d, j)]
           a == WilderAtr(c)
           b == WilderAtr(d)
           P == AtrPeriod
<1>1. /\ DOMAIN c = 1..Len(c) /\ DOMAIN d = 1..e /\ e \in Nat /\ Len(c) \in Nat /\ e <= Len(c)
      /\ P \in Nat \ {0}
  BY CandlesAreTyped, WindowAssumption
<1>2. ASSUME NEW i \in 1..e PROVE v[i] = u[i]
  <2>1. TrueRange(d, i) = TrueRange(c, i)
    BY <1>1, TrueRangesAgree
  <2> QED BY <1>1, <2>1
<1>3. SameStart(v, u, e)
  BY <1>2 DEF SameStart
<1> HIDE DEF u, v
<1>4. ASSUME NEW i \in 1..e, NEW before PROVE AtrStep(d, i, before) = AtrStep(c, i, before)
  <2>1. AtrStep(c, i, before) = IF i < P THEN NaN ELSE IF i = P THEN Mean(WindowAt(u, P, P))
                                ELSE (before * (P - 1) + u[i]) \div P
    BY DEF AtrStep, u
  <2>2. AtrStep(d, i, before) = IF i < P THEN NaN ELSE IF i = P THEN Mean(WindowAt(v, P, P))
                                ELSE (before * (P - 1) + v[i]) \div P
    BY DEF AtrStep, v
  <2>3. i = P => WindowAt(v, P, P) = WindowAt(u, P, P)
    BY <1>1, <1>3, WindowsOfPrefix
  <2>4. v[i] = u[i]
    BY <1>2
  <2> QED BY <2>1, <2>2, <2>3, <2>4
<1>5. AtrSteps(c) /\ AtrSteps(d)
  BY AtrType
<1> HIDE DEF a, b, P
<1> DEFINE T == {i \in Nat : 1 <= i /\ i <= e => b[i] = a[i]}
<1>6. 0 \in T
  OBVIOUS
<1>7. \A i \in 1..e : AtrStep(d, i, b[0]) = AtrStep(c, i, a[0]) \/ i # 1
  <2> SUFFICES ASSUME 1 \in 1..e PROVE AtrStep(d, 1, b[0]) = AtrStep(c, 1, a[0])
    OBVIOUS
  <2>1. 1 < P \/ 1 = P
    BY <1>1
  <2>2. AtrStep(c, 1, a[0]) = AtrStep(c, 1, b[0])
    BY <2>1 DEF AtrStep, P
  <2> QED BY <1>4, <2>2
<1>8. ASSUME NEW j \in T PROVE j + 1 \in T
  <2> SUFFICES ASSUME j + 1 <= e PROVE b[j + 1] = a[j + 1]
    BY <1>8
  <2> PICK i \in 1..e : i = j + 1
    BY <1>1, <1>8
  <2>1. i - 1 = j /\ i \in 1..Len(c) /\ (j = 0 \/ b[j] = a[j])
    BY <1>1, <1>8
  <2>2. a[i] = AtrStep(c, i, a[i - 1]) /\ b[i] = AtrStep(d, i, b[i - 1])
    BY <1>5, <2>1 DEF AtrSteps, a, b
  <2>3. CASE j = 0
    BY <1>7, <2>1, <2>2, <2>3
  <2>4. CASE b[j] = a[j]
    BY <1>4, <2>1, <2>2, <2>4
  <2> QED BY <2>1, <2>3, <2>4
<1>9. T = Nat
  <2>1. T \in SUBSET Nat
    OBVIOUS
  <2> HIDE DEF T
  <2> QED BY <1>6, <1>8, <2>1, AllNumbers
<1> QED BY <1>9 DEF SameStart, a, b

\* The volume windows of a row.
LEMMA VolumesAgree ==
  ASSUME NEW c \in Seq(CandleRows), NEW d \in Seq(CandleRows), NEW e \in 0..Len(c), Len(d) = e,
         SameStart(d, c, e), NEW i \in 1..e
  PROVE  VolumeStatistics(d, i) = VolumeStatistics(c, i)
<1> DEFINE u == [j \in DOMAIN c |-> c[j].vol]
           v == [j \in DOMAIN d |-> d[j].vol]
<1>1. /\ DOMAIN c = 1..Len(c) /\ DOMAIN d = 1..e /\ e \in Nat /\ Len(c) \in Nat /\ e <= Len(c)
      /\ PullbackBars \in Nat \ {0} /\ VolumeBars \in Nat \ {0}
  BY CandlesAreTyped, WindowAssumption
<1>2. SameStart(v, u, e)
  BY <1>1 DEF SameStart
<1> HIDE DEF u, v
<1>3. i > 1 => v[i - 1] = u[i - 1]
  BY <1>1, <1>2 DEF SameStart
<1>4. Full(i - 1, PullbackBars) => WindowAt(v, i - 1, PullbackBars) = WindowAt(u, i - 1, PullbackBars)
  <2>1. i - 1 \in Int /\ i - 1 <= e
    BY <1>1
  <2> QED BY <1>1, <1>2, <2>1, WindowsOfPrefix DEF Full
<1>5. Full(i - 1, VolumeBars) => WindowAt(v, i - 1, VolumeBars) = WindowAt(u, i - 1, VolumeBars)
  <2>1. i - 1 \in Int /\ i - 1 <= e
    BY <1>1
  <2> QED BY <1>1, <1>2, <2>1, WindowsOfPrefix DEF Full
<1>6. Full(i - 1 - PullbackBars, VolumeBars)
        => WindowAt(v, i - 1 - PullbackBars, VolumeBars) = WindowAt(u, i - 1 - PullbackBars, VolumeBars)
  <2>1. i - 1 - PullbackBars \in Int /\ i - 1 - PullbackBars <= e
    BY <1>1
  <2> QED BY <1>1, <1>2, <2>1, WindowsOfPrefix DEF Full
<1>7. Rolling(Mean, v, i - 1, PullbackBars) = Rolling(Mean, u, i - 1, PullbackBars)
  BY <1>4 DEF Rolling
<1>8. Rolling(Median, v, i - 1, VolumeBars) = Rolling(Median, u, i - 1, VolumeBars)
  BY <1>5 DEF Rolling
<1>9. Rolling(Median, v, i - 1 - PullbackBars, VolumeBars) = Rolling(Median, u, i - 1 - PullbackBars, VolumeBars)
  BY <1>6 DEF Rolling
<1> QED BY <1>3, <1>7, <1>8, <1>9 DEF VolumeStatistics, u, v

\* The frame of a prefix is the prefix of the frame: no indicator looks ahead.
LEMMA FramesAgree ==
  ASSUME NEW c \in Seq(CandleRows), NEW d \in Seq(CandleRows), NEW e \in 0..Len(c), Len(d) = e,
         SameStart(d, c, e)
  PROVE  SameStart(IndicatorFrame(d), IndicatorFrame(c), e)
<1> DEFINE u == [j \in DOMAIN c |-> c[j].close]
           v == [j \in DOMAIN d |-> d[j].close]
<1>1. DOMAIN c = 1..Len(c) /\ DOMAIN d = 1..e /\ e \in Nat /\ Len(c) \in Nat /\ e <= Len(c)
  BY CandlesAreTyped
<1>2. SameStart(v, u, e)
  BY <1>1 DEF SameStart
<1>3. SameStart(WilderAtr(d), WilderAtr(c), e)
  BY AtrsAgree
<1> SUFFICES ASSUME NEW i \in Nat, 1 <= i, i <= e
             PROVE  IndicatorFrame(d)[i] = IndicatorFrame(c)[i]
  BY DEF SameStart
<1>4. i \in 1..e /\ i \in 1..Len(c)
  BY <1>1
<1> DEFINE smaC == [w \in DOMAIN SmaWindow |-> Rolling(Mean, u, i, SmaWindow[w])]
           smaD == [w \in DOMAIN SmaWindow |-> Rolling(Mean, v, i, SmaWindow[w])]
<1>5. IndicatorFrame(c)[i] = [sma |-> smaC, tr |-> TrueRange(c, i), atr |-> WilderAtr(c)[i],
                              volume |-> VolumeStatistics(c, i)]
  BY <1>1, <1>4 DEF IndicatorFrame
<1>6. IndicatorFrame(d)[i] = [sma |-> smaD, tr |-> TrueRange(d, i), atr |-> WilderAtr(d)[i],
                              volume |-> VolumeStatistics(d, i)]
  BY <1>1, <1>4 DEF IndicatorFrame
<1> HIDE DEF u, v
<1>7. smaD = smaC
  <2>1. ASSUME NEW w \in DOMAIN SmaWindow PROVE Rolling(Mean, v, i, SmaWindow[w]) = Rolling(Mean, u, i, SmaWindow[w])
    <3>1. SmaWindow[w] \in Nat \ {0}
      BY WindowAssumption
    <3>2. Full(i, SmaWindow[w]) => WindowAt(v, i, SmaWindow[w]) = WindowAt(u, i, SmaWindow[w])
      BY <1>1, <1>2, <1>4, <3>1, WindowsOfPrefix DEF Full
    <3> QED BY <3>2 DEF Rolling
  <2> QED BY <2>1
<1>8. TrueRange(d, i) = TrueRange(c, i)
  BY <1>1, <1>4, TrueRangesAgree
<1>9. VolumeStatistics(d, i) = VolumeStatistics(c, i)
  BY <1>4, VolumesAgree
<1>10. WilderAtr(d)[i] = WilderAtr(c)[i]
  BY <1>3 DEF SameStart
<1> HIDE DEF smaC, smaD
<1> QED BY <1>5, <1>6, <1>7, <1>8, <1>9, <1>10

\* Joining one sequence more appends it.
JoinSteps(S, n, seqs, g) ==
  /\ n \in Nat /\ seqs \in [1..n -> Seq(S)] /\ g \in [0..n -> Seq(S)]
  /\ g[0] = << >>
  /\ \A i \in 1..n : g[i] = g[i - 1] \o seqs[i]

\* The first k of some sequences.
FirstOnes(S, seqs, k, part) == part \in [1..k -> Seq(S)] /\ \A i \in 1..k : part[i] = seqs[i]

\* Joining the first k of some sequences is one of those steps.
LEMMA JoiningStops ==
  ASSUME NEW S, NEW n, NEW seqs, NEW g, JoinSteps(S, n, seqs, g),
         NEW k \in 0..n, NEW part, FirstOnes(S, seqs, k, part)
  PROVE  FlattenSeq(part) = g[k]
<1>0. n \in Nat /\ seqs \in [1..n -> Seq(S)] /\ g \in [0..n -> Seq(S)]
  BY DEF JoinSteps
<1>1. k \in Nat /\ k <= n /\ \A i \in 1..k : i \in 1..n
  BY <1>0
<1>5. part \in [1..k -> Seq(S)] /\ \A i \in 1..k : part[i] = seqs[i]
  BY DEF FirstOnes
<1>2. part \in Seq(Seq(S)) /\ Len(part) = k
  BY <1>1, <1>5, IsASeq
<1>3. CASE k = 0
  <2>1. part = << >>
    BY <1>2, <1>3, EmptySeq
  <2>2. FlattenSeq(part) = part
    BY <1>2, <1>3 DEF FlattenSeq
  <2> QED BY <1>3, <2>1, <2>2 DEF JoinSteps
<1>4. CASE k # 0
  <2> DEFINE it == [i \in 1..k |-> g[i]]
  <2>0. \A i \in 1..n : g[i] = (IF i = 1 THEN seqs[i] ELSE g[i - 1] \o seqs[i]) /\ g[i] \in Seq(S)
    <3> SUFFICES ASSUME NEW i \in 1..n PROVE g[i] = IF i = 1 THEN seqs[i] ELSE g[i - 1] \o seqs[i]
      BY <1>0
    <3>1. g[i] = g[i - 1] \o seqs[i] /\ seqs[i] \in Seq(S)
      BY <1>0 DEF JoinSteps
    <3>2. i = 1 => g[i] = << >> \o seqs[i]
      <4>1. i = 1 => i - 1 = 0
        OBVIOUS
      <4>2. g[0] = << >>
        BY DEF JoinSteps
      <4> QED BY <3>1, <4>1, <4>2
    <3>3. << >> \o seqs[i] = seqs[i]
      BY <3>1, ConcatEmptySeq
    <3> QED BY <3>1, <3>2, <3>3
  <2>1. FlattenRec(part, it)
    <3>1. ASSUME NEW i \in 1..k PROVE g[i] = IF i = 1 THEN part[i] ELSE it[i - 1] \o part[i]
      <4>1. i \in 1..n /\ (i # 1 => i - 1 \in 1..k) /\ part[i] = seqs[i]
        BY <1>1, <1>5
      <4>2. i # 1 => it[i - 1] = g[i - 1]
        BY <4>1
      <4> QED BY <2>0, <4>1, <4>2
    <3>2. it = [i \in 1..k |-> IF i = 1 THEN part[i] ELSE it[i - 1] \o part[i]]
      BY <3>1
    <3> HIDE DEF it
    <3> QED BY <1>2, <3>2 DEF FlattenRec
  <2> HIDE DEF it
  <2>2. PICK jt : FlattenRec(part, jt) /\ FlattenSeq(part) = jt[k]
    BY <1>2, <1>4, <2>1, FlattenIsRecursive
  <2> DEFINE T == {i \in Nat : 1 <= i /\ i <= k => jt[i] = g[i]}
  <2>3. 0 \in T
    OBVIOUS
  <2>4. ASSUME NEW j \in T PROVE j + 1 \in T
    <3> SUFFICES ASSUME j + 1 <= k PROVE jt[j + 1] = g[j + 1]
      BY <2>4
    <3> PICK i \in 1..k : i = j + 1
      BY <1>1, <2>4
    <3>1. i - 1 = j /\ i \in 1..n /\ (i # 1 => jt[j] = g[j])
      BY <1>1, <2>4
    <3>2. jt[i] = IF i = 1 THEN part[i] ELSE jt[i - 1] \o part[i]
      BY <1>2, <2>2 DEF FlattenRec
    <3>3. part[i] = seqs[i]
      BY <1>5
    <3>4. g[i] = IF i = 1 THEN seqs[i] ELSE g[i - 1] \o seqs[i]
      BY <2>0, <3>1
    <3> HIDE DEF T
    <3> QED BY <3>1, <3>2, <3>3, <3>4
  <2>5. T = Nat
    <3>1. T \in SUBSET Nat
      OBVIOUS
    <3> HIDE DEF T
    <3> QED BY <2>3, <2>4, <3>1, AllNumbers
  <2>6. k \in T
    <3> HIDE DEF T
    <3> QED BY <1>1, <2>5
  <2>7. jt[k] = g[k]
    BY <1>1, <1>4, <2>6
  <2> QED BY <2>2, <2>7
<1> QED BY <1>3, <1>4

\* The steps exist.
LEMMA JoinStepsExist ==
  ASSUME NEW S, NEW n \in Nat, NEW seqs \in [1..n -> Seq(S)]
  PROVE  \E g : JoinSteps(S, n, seqs, g)
<1> DEFINE V == Seq(S)
           H == [i \in 1..n |-> [v \in V |-> v \o seqs[i]]]
           none == << >>
<1>1. \A i \in 1..n, v \in V : H[i][v] = v \o seqs[i]
  OBVIOUS
<1>2. \A i \in 1..n, v \in V : H[i][v] \in V
  <2>1. \A i \in 1..n, v \in V : v \o seqs[i] \in V
    BY ConcatProperties
  <2> QED BY <2>1
<1>3. none \in V
  BY EmptySeq
<1> HIDE DEF H, V, none
<1>4. PICK g : g \in [0..n -> V] /\ IsRecursion(n, none, H, g)
  BY <1>2, <1>3, RecursionExists
<1>5. ASSUME NEW i \in 1..n PROVE g[i] = g[i - 1] \o seqs[i]
  <2>1. i - 1 \in 0..n
    OBVIOUS
  <2>2. g[i - 1] \in V /\ g[i] = H[i][g[i - 1]]
    BY <1>4, <2>1 DEF IsRecursion
  <2> QED BY <1>1, <2>2
<1>6. g[0] = none
  BY <1>4 DEF IsRecursion
<1>7. JoinSteps(S, n, seqs, g)
  BY <1>4, <1>5, <1>6 DEF JoinSteps, none, V
<1> QED BY <1>7

\* b is the first part of a; what follows it is not in V.
StartsWith(a, b, S, V) ==
  /\ a \in Seq(S) /\ b \in Seq(S) /\ Len(b) <= Len(a)
  /\ \A i \in 1..Len(b) : a[i] = b[i]
  /\ \A i \in Nat : Len(b) < i /\ i <= Len(a) => a[i] \notin V

\* Appending more of the kind that is not in V.
LEMMA StartsWithMore ==
  ASSUME NEW S, NEW V, NEW a, NEW b, StartsWith(a, b, S, V), NEW t \in Seq(S),
         \A i \in 1..Len(t) : t[i] \notin V
  PROVE  StartsWith(a \o t, b, S, V)
<1>1. /\ a \in Seq(S) /\ b \in Seq(S) /\ Len(a) \in Nat /\ Len(b) \in Nat /\ Len(t) \in Nat /\ Len(b) <= Len(a)
  BY LenProperties DEF StartsWith
<1>2. /\ a \o t \in Seq(S) /\ Len(a \o t) = Len(a) + Len(t)
      /\ \A i \in 1..(Len(a) + Len(t)) : (a \o t)[i] = IF i <= Len(a) THEN a[i] ELSE t[i - Len(a)]
  BY <1>1, ConcatProperties
<1> DEFINE x == a \o t
<1> HIDE DEF x
<1>3. \A i \in 1..Len(b) : x[i] = b[i]
  <2> TAKE i \in 1..Len(b)
  <2>1. i \in 1..(Len(a) + Len(t)) /\ i <= Len(a) /\ i \in 1..Len(b)
    BY <1>1
  <2>2. a[i] = b[i]
    BY <2>1 DEF StartsWith
  <2> QED BY <1>2, <2>1, <2>2 DEF x
<1>4. ASSUME NEW i \in Nat, Len(b) < i, i <= Len(x) PROVE x[i] \notin V
  <2>1. i \in 1..(Len(a) + Len(t))
    BY <1>1, <1>2, <1>4 DEF x
  <2>2. CASE i <= Len(a)
    <3>1. x[i] = a[i]
      BY <1>2, <2>1, <2>2 DEF x
    <3>2. a[i] \notin V
      BY <1>4, <2>2 DEF StartsWith
    <3> QED BY <3>1, <3>2
  <2>3. CASE ~(i <= Len(a))
    <3>0. i - Len(a) \in 1..Len(t)
      BY <1>1, <2>1, <2>3
    <3> PICK j \in 1..Len(t) : j = i - Len(a)
      BY <3>0
    <3>1. x[i] = t[j]
      BY <1>2, <2>1, <2>3 DEF x
    <3> QED BY <3>1
  <2> QED BY <2>2, <2>3
<1>5. StartsWith(x, b, S, V)
  BY <1>1, <1>2, <1>3, <1>4 DEF StartsWith, x
<1> QED BY <1>5 DEF x

\* Sequences of which the first k are over V and the others never: joined, they
\* start with the first k joined.
LEMMA JoinedInOrder ==
  ASSUME NEW S, NEW V \in SUBSET S, NEW n \in Nat, NEW seqs \in [1..n -> Seq(S)], NEW k \in 0..n,
         NEW part, FirstOnes(V, seqs, k, part),
         \A i \in (k + 1)..n : \A j \in 1..Len(seqs[i]) : seqs[i][j] \notin V
  PROVE  StartsWith(FlattenSeq(seqs), FlattenSeq(part), S, V) /\ FlattenSeq(part) \in Seq(V)
<1>0. k \in Nat /\ k <= n
  OBVIOUS
<1>1. FirstOnes(S, seqs, k, part) /\ FirstOnes(S, seqs, n, seqs) /\ part \in [1..k -> Seq(V)]
  <2>1. part \in [1..k -> Seq(V)] /\ \A i \in 1..k : part[i] = seqs[i]
    BY DEF FirstOnes
  <2>2. \A i \in 1..k : part[i] \in Seq(S)
    BY <2>1
  <2> QED BY <2>1, <2>2 DEF FirstOnes
<1>2. FlattenSeq(part) \in Seq(V)
  BY <1>0, <1>1, FlattenType
<1>3. PICK g : JoinSteps(S, n, seqs, g)
  BY JoinStepsExist
<1>11. g \in [0..n -> Seq(S)]
  BY <1>3 DEF JoinSteps
<1>4. FlattenSeq(part) = g[k]
  BY <1>1, <1>3, JoiningStops
<1>5. FlattenSeq(seqs) = g[n]
  <2>1. n \in 0..n
    OBVIOUS
  <2> QED BY <1>1, <1>3, <2>1, JoiningStops
<1> DEFINE T == {i \in Nat : k <= i /\ i <= n => StartsWith(g[i], g[k], S, V)}
<1>6. StartsWith(g[k], g[k], S, V)
  <2>1. g[k] \in Seq(S) /\ Len(g[k]) \in Nat
    BY <1>0, <1>11, LenProperties
  <2> QED BY <2>1 DEF StartsWith
<1>7. 0 \in T
  BY <1>0, <1>6
<1>8. ASSUME NEW j \in T PROVE j + 1 \in T
  <2> SUFFICES ASSUME k <= j + 1, j + 1 <= n PROVE StartsWith(g[j + 1], g[k], S, V)
    BY <1>8
  <2>1. CASE k = j + 1
    BY <1>6, <2>1
  <2>2. CASE k <= j
    <3> PICK i \in (k + 1)..n : i = j + 1
      BY <1>0, <1>8, <2>2
    <3>1. i \in 1..n /\ i - 1 = j /\ StartsWith(g[j], g[k], S, V)
      BY <1>0, <1>8, <2>2
    <3>2. g[i] = g[j] \o seqs[i]
      BY <1>3, <3>1 DEF JoinSteps
    <3>3. seqs[i] \in Seq(S) /\ \A l \in 1..Len(seqs[i]) : seqs[i][l] \notin V
      BY <3>1
    <3>4. StartsWith(g[j] \o seqs[i], g[k], S, V)
      BY <3>1, <3>3, StartsWithMore
    <3> QED BY <3>2, <3>4
  <2> QED BY <1>0, <1>8, <2>1, <2>2
<1>9. T = Nat
  <2>1. T \in SUBSET Nat
    OBVIOUS
  <2> HIDE DEF T
  <2> QED BY <1>7, <1>8, <2>1, AllNumbers
<1>10. StartsWith(g[n], g[k], S, V)
  <2>1. n \in T
    <3> HIDE DEF T
    <3> QED BY <1>9
  <2> QED BY <1>0, <2>1
<1> QED BY <1>2, <1>4, <1>5, <1>10

\* A set of the first numbers, downward closed, is the first ones of them.
LEMMA InitialSegment ==
  ASSUME NEW n \in Nat, NEW V \in SUBSET (1..n), \A i \in V : \A j \in 1..n : j <= i => j \in V
  PROVE  V = 1..Cardinality(V) /\ Cardinality(V) \in 0..n
<1>1. CASE V = {}
  <2>1. Cardinality(V) = 0
    BY <1>1, FS_EmptySet
  <2> QED BY <1>1, <2>1
<1>2. CASE V # {}
  <2> PICK m : m = Max(V)
    OBVIOUS
  <2>1. m \in V /\ \A i \in V : i <= m
    BY <1>2, MaxOfSome
  <2>2. m \in 1..n
    BY <2>1
  <2>3. V = 1..m
    <3>1. \A i \in 1..m : i \in V
      BY <2>1, <2>2
    <3>2. \A i \in V : i \in 1..m
      BY <2>1, <2>2
    <3> QED BY <3>1, <3>2
  <2>4. Cardinality(1..m) = m
    BY <2>2, FirstNumbers
  <2> QED BY <2>2, <2>3, <2>4
<1> QED BY <1>1, <1>2

\* Row e is the last that has closed by the slot.
ClosedBy(c, step, slot, e) == \A i \in 1..Len(c) : c[i].t + step <= slot <=> i <= e

\* The visible end of a slot is the last row that has closed by it.
LEMMA EndIsTheLastClosed ==
  ASSUME NEW c \in Seq(CandleRows), NEW step \in Nat \ {0}, ValidCandles(c, step), NEW slot \in Int
  PROVE  ClosedBy(c, step, slot, VisibleEnd(c, step, slot)) /\ VisibleEnd(c, step, slot) \in 0..Len(c)
<1> DEFINE n == Len(c)
           V == {i \in 1..n : c[i].t + step <= slot}
<1>1. n \in Nat /\ DOMAIN c = 1..n /\ \A i \in 1..n : c[i].t \in Int
  BY CandlesAreTyped DEF Times
<1>2. Ascending(c, step)
  BY TimesAscend
<1>3. ASSUME NEW i \in V, NEW j \in 1..n, j <= i PROVE j \in V
  <2>1. i = j \/ c[j].t + step <= c[i].t
    BY SMTT(30), <1>1, <1>2, <1>3 DEF Ascending
  <2>2. c[i].t \in Int /\ c[j].t \in Int /\ c[i].t + step <= slot
    BY <1>1
  <2>3. c[j].t + step <= slot
    BY <2>1, <2>2
  <2> QED BY <2>3
<1>4. V = 1..Cardinality(V) /\ Cardinality(V) \in 0..n
  <2>1. V \in SUBSET (1..n)
    OBVIOUS
  <2> HIDE DEF V, n
  <2> QED BY <1>1, <1>3, <2>1, InitialSegment
<1>5. VisibleEnd(c, step, slot) = Cardinality(V)
  BY <1>1 DEF VisibleEnd
<1>6. \A i \in 1..n : i \in V <=> i <= Cardinality(V)
  BY <1>1, <1>4
<1> QED BY <1>4, <1>5, <1>6 DEF ClosedBy

\* What a row confirms looks at its own prefix only.
LEMMA RowsConfirmAlike ==
  ASSUME NEW c, NEW f, NEW d, NEW g, NEW e \in Nat, SameStart(d, c, e), SameStart(g, f, e), NEW step,
         NEW k \in Nat, k - PivotLeft >= 1, k + PivotRight <= e
  PROVE  PivotsAt(d, g, k, step) = PivotsAt(c, f, k, step)
<1>1. PivotLeft \in Nat \ {0} /\ PivotRight \in Nat \ {0}
  BY PivotAssumption
<1>2. \A j \in (k - PivotLeft)..(k - 1) : d[j] = c[j]
  BY <1>1 DEF SameStart
<1>3. \A j \in (k + 1)..(k + PivotRight) : d[j] = c[j]
  BY <1>1 DEF SameStart
<1>4. d[k] = c[k] /\ d[k + PivotRight] = c[k + PivotRight] /\ g[k + PivotRight] = f[k + PivotRight]
  BY <1>1 DEF SameStart
<1>5. HighPivot(d, k) <=> HighPivot(c, k)
  BY <1>2, <1>3, <1>4 DEF HighPivot
<1>6. LowPivot(d, k) <=> LowPivot(c, k)
  BY <1>2, <1>3, <1>4 DEF LowPivot
<1>7. \A kind : PivotEvent(d, g, k, kind, step) = PivotEvent(c, f, k, kind, step)
  BY <1>4 DEF PivotEvent, CloseOf
<1> QED BY <1>4, <1>5, <1>6, <1>7 DEF PivotsAt

\* The pivots of a prefix are the first of the pivots of the whole stream, and
\* those that follow were confirmed later.
LEMMA PivotsOfAPrefix ==
  ASSUME NEW c \in Seq(CandleRows), NEW f, \A i \in 1..Len(c) : f[i].atr \in Int,
         NEW step \in Nat \ {0}, ValidCandles(c, step), NEW slot \in Int,
         NEW e \in 0..Len(c), ClosedBy(c, step, slot, e),
         NEW d, Len(d) = e, SameStart(d, c, e), NEW g, SameStart(g, f, e)
  PROVE  /\ StartsWith(ConfirmedPivots(c, f, step), ConfirmedPivots(d, g, step), PivotType,
                       {p \in PivotType : p.confirmed <= slot})
         /\ ConfirmedPivots(d, g, step) \in Seq({p \in PivotType : p.confirmed <= slot})
<1> DEFINE V == {p \in PivotType : p.confirmed <= slot}
           L == PivotLeft
           R == PivotRight
<1>1. Len(c) \in Nat /\ e \in Nat /\ e <= Len(c) /\ L \in Nat \ {0} /\ R \in Nat \ {0}
  BY CandlesAreTyped, PivotAssumption
<1>0. \A i \in 1..Len(c) : c[i].t \in Int
  BY CandlesAreTyped DEF Times
<1>2. CASE Len(c) < L + R + 1
  <2>1. ConfirmedPivots(c, f, step) = << >> /\ ConfirmedPivots(d, g, step) = << >>
    BY <1>1, <1>2 DEF ConfirmedPivots
  <2>2. << >> \in Seq(PivotType) /\ << >> \in Seq(V) /\ Len(<< >>) = 0
    BY EmptySeq
  <2> QED BY <2>1, <2>2 DEF StartsWith
<1>3. CASE ~(Len(c) < L + R + 1)
  <2>13. Len(c) - L - R \in Nat
    BY <1>1, <1>3
  <2> PICK m \in Nat : m = Len(c) - L - R
    BY <2>13
  <2>14. (IF e < L + R + 1 THEN 0 ELSE e - L - R) \in 0..m
    BY <1>1
  <2> PICK k \in 0..m : k = IF e < L + R + 1 THEN 0 ELSE e - L - R
    BY <2>14
  <2> DEFINE rows == [n \in 1..m |-> PivotsAt(c, f, n + L, step)]
             part == [n \in 1..k |-> PivotsAt(d, g, n + L, step)]
  <2>1. ConfirmedPivots(c, f, step) = FlattenSeq(rows)
    BY <1>3 DEF ConfirmedPivots
  <2>2. ConfirmedPivots(d, g, step) = FlattenSeq(part)
    <3>1. CASE e < L + R + 1
      <4>1. part = << >> /\ Len(<< >>) = 0
        BY <3>1
      <4>2. FlattenSeq(<< >>) = << >>
        BY DEF FlattenSeq
      <4>3. ConfirmedPivots(d, g, step) = << >>
        BY <3>1 DEF ConfirmedPivots
      <4> QED BY <4>1, <4>2, <4>3
    <3>2. CASE ~(e < L + R + 1)
      <4>1. Len(d) - PivotLeft - PivotRight = k
        BY <3>2
      <4> QED BY <3>2, <4>1 DEF ConfirmedPivots
    <3> QED BY <3>1, <3>2
  <2>3. ASSUME NEW n \in 1..m
        PROVE  rows[n] \in Seq(PivotsOf(c, n + L, step)) /\ n + L + R \in 1..Len(c)
    <3> PICK i \in 1..Len(c) : i = n + L /\ i + R <= Len(c)
      BY <1>1
    <3>1. PivotsAt(c, f, i, step) \in Seq(PivotsOf(c, i, step))
      BY PivotsOfARow
    <3>2. rows[n] = PivotsAt(c, f, i, step)
      OBVIOUS
    <3> HIDE DEF rows
    <3> QED BY <1>1, <3>1, <3>2
  <2>4. ASSUME NEW n \in 1..k PROVE part[n] = rows[n] /\ rows[n] \in Seq(V) /\ n \in 1..m
    <3>1. n \in 1..m /\ n + L + R <= e /\ n + L \in Nat /\ (n + L) - L >= 1
      BY <1>1
    <3>2. PivotsAt(d, g, n + L, step) = PivotsAt(c, f, n + L, step)
      BY <1>1, <3>1, RowsConfirmAlike
    <3>3. rows[n] \in Seq(PivotsOf(c, n + L, step)) /\ n + L + R \in 1..Len(c)
      BY <2>3, <3>1
    <3>4. c[n + L + R].t + step <= slot
      BY <3>1, <3>3 DEF ClosedBy
    <3>5. PivotsOf(c, n + L, step) \subseteq V
      BY <3>4 DEF PivotsOf, CloseOf
    <3>6. part[n] = rows[n]
      BY <3>1, <3>2
    <3> HIDE DEF V, rows, part
    <3> QED BY <3>1, <3>3, <3>5, <3>6
  <2>5. ASSUME NEW n \in (k + 1)..m PROVE \A j \in 1..Len(rows[n]) : rows[n][j] \notin V
    <3>1. n \in 1..m /\ n + L + R > e
      BY <1>1
    <3>2. rows[n] \in Seq(PivotsOf(c, n + L, step)) /\ n + L + R \in 1..Len(c)
      BY <2>3, <3>1
    <3>3. ~(c[n + L + R].t + step <= slot)
      BY <1>1, <3>1, <3>2 DEF ClosedBy
    <3>4. \A x \in PivotsOf(c, n + L, step) : x \notin V
      BY <3>3 DEF PivotsOf, CloseOf
    <3> HIDE DEF V, rows
    <3>5. \A j \in 1..Len(rows[n]) : rows[n][j] \in PivotsOf(c, n + L, step)
      BY <3>2, ElementOfSeq
    <3> QED BY <3>4, <3>5
  <2>6. rows \in [1..m -> Seq(PivotType)]
    <3>1. ASSUME NEW n \in 1..m PROVE rows[n] \in Seq(PivotType)
      <4>1. PivotsOf(c, n + L, step) \subseteq PivotType
        BY DEF PivotsOf
      <4> HIDE DEF rows
      <4> QED BY <2>3, <4>1
    <3>2. rows = [n \in 1..m |-> rows[n]]
      OBVIOUS
    <3> HIDE DEF rows
    <3> QED BY <3>1, <3>2
  <2>7. FirstOnes(V, rows, k, part)
    <3>1. ASSUME NEW n \in 1..k PROVE part[n] = rows[n] /\ part[n] \in Seq(V)
      BY <2>4
    <3>2. part = [n \in 1..k |-> part[n]]
      OBVIOUS
    <3> HIDE DEF rows, part, V
    <3>3. part \in [1..k -> Seq(V)]
      BY <3>1, <3>2
    <3> QED BY <3>1, <3>3 DEF FirstOnes
  <2>8. V \in SUBSET PivotType
    OBVIOUS
  <2> HIDE DEF rows, part, V
  <2>9. \A i \in 1..k : rows[i] \in Seq(V)
    BY <2>4
  <2>10. StartsWith(FlattenSeq(rows), FlattenSeq(part), PivotType, V) /\ FlattenSeq(part) \in Seq(V)
    BY <2>5, <2>6, <2>7, <2>8, <2>9, JoinedInOrder
  <2> QED BY <2>1, <2>2, <2>10 DEF V
<1> QED BY <1>2, <1>3

\* So the slot sees as many pivots of the whole stream as its own history has, and
\* the same ones.
LEMMA VisiblePivotsAreTheirs ==
  ASSUME NEW a, NEW b, NEW slot \in Int,
         StartsWith(a, b, PivotType, {p \in PivotType : p.confirmed <= slot}),
         b \in Seq({p \in PivotType : p.confirmed <= slot})
  PROVE  VisiblePivots(a, slot) = Len(b) /\ Prefix(a, Len(b)) = b /\ Len(b) \in 0..Len(a)
<1> DEFINE V == {p \in PivotType : p.confirmed <= slot}
           n == Len(b)
           N == Len(a)
           I == {i \in 1..N : a[i].confirmed <= slot}
<1>1. /\ a \in Seq(PivotType) /\ b \in Seq(PivotType) /\ n \in Nat /\ N \in Nat /\ n <= N /\ DOMAIN a = 1..N
      /\ \A i \in 1..n : a[i] = b[i]
      /\ \A i \in Nat : n < i /\ i <= N => a[i] \notin V
  BY LenProperties DEF StartsWith
<1>2. I = 1..n
  <2>1. ASSUME NEW i \in 1..n PROVE i \in I
    <3>1. b[i] \in V /\ a[i] = b[i] /\ i \in 1..N
      BY <1>1, ElementOfSeq
    <3> QED BY <3>1
  <2>2. ASSUME NEW i \in I PROVE i \in 1..n
    <3>1. a[i] \in PivotType /\ a[i].confirmed <= slot /\ i \in Nat /\ 1 <= i /\ i <= N
      BY <1>1, ElementOfSeq
    <3>2. a[i] \in V
      BY <3>1
    <3> HIDE DEF n, N, V
    <3> QED BY <1>1, <3>1, <3>2
  <2> HIDE DEF I, n
  <2> QED BY <2>1, <2>2
<1>3. VisiblePivots(a, slot) = Cardinality(I)
  BY <1>1 DEF VisiblePivots
<1>4. Cardinality(1..n) = n
  BY <1>1, FirstNumbers
<1>5. Prefix(a, n) = b
  <2>0. a \in Seq(PivotType) /\ n \in 0..Len(a)
    BY <1>1
  <2> HIDE DEF V, I, N
  <2>1. /\ Prefix(a, n) \in Seq(PivotType) /\ Len(Prefix(a, n)) = n
        /\ \A i \in 1..n : Prefix(a, n)[i] = a[i]
    BY <2>0, PrefixProperties
  <2> DEFINE x == Prefix(a, n)
  <2> HIDE DEF x
  <2>2. x \in Seq(PivotType) /\ Len(x) = Len(b) /\ \A i \in 1..Len(x) : x[i] = b[i]
    BY <1>1, <2>1 DEF x
  <2>3. x = b
    BY <1>1, <2>2, SeqEqual
  <2> QED BY <2>3 DEF x
<1>6. n \in 0..N
  BY <1>1
<1>7. VisiblePivots(a, slot) = n
  BY <1>2, <1>3, <1>4
<1> QED BY <1>5, <1>6, <1>7

\* The pivots a slot may see are those of its own history.
LEMMA SlotPivots ==
  ASSUME NEW c \in Seq(CandleRows), NEW f, \A i \in 1..Len(c) : f[i].atr \in Int,
         NEW step \in Nat \ {0}, ValidCandles(c, step), NEW slot \in Int,
         NEW e, e = VisibleEnd(c, step, slot), NEW g, SameStart(g, f, e),
         NEW p, p = ConfirmedPivots(c, f, step)
  PROVE  /\ ConfirmedPivots(Prefix(c, e), g, step) = Prefix(p, VisiblePivots(p, slot))
         /\ VisiblePivots(p, slot) \in 0..Len(p)
<1> DEFINE d == Prefix(c, e)
           V == {x \in PivotType : x.confirmed <= slot}
           b == ConfirmedPivots(d, g, step)
<1>1. ClosedBy(c, step, slot, e) /\ e \in 0..Len(c)
  BY EndIsTheLastClosed
<1>2. Len(d) = e /\ \A i \in 1..e : d[i] = c[i]
  BY <1>1, PrefixProperties
<1>3. SameStart(d, c, e)
  BY <1>2 DEF SameStart
<1> HIDE DEF d
<1>4. StartsWith(p, b, PivotType, V) /\ b \in Seq(V)
  BY <1>1, <1>2, <1>3, PivotsOfAPrefix
<1> HIDE DEF b
<1>5. VisiblePivots(p, slot) = Len(b) /\ Prefix(p, Len(b)) = b /\ Len(b) \in 0..Len(p)
  BY <1>4, VisiblePivotsAreTheirs
<1> QED BY <1>5 DEF b, d

\* The first k pivots are those before some time.
EarlierOnes(p, k, since) == \A i \in 1..Len(p) : p[i].time < since <=> i <= k

\* The pivots of the rows that opened before some time come first.
LEMMA EarlierPivots ==
  ASSUME NEW c \in Seq(CandleRows), NEW f, \A i \in 1..Len(c) : f[i].atr \in Int,
         NEW step \in Nat \ {0}, ValidCandles(c, step), NEW since \in Int,
         NEW p, p = ConfirmedPivots(c, f, step)
  PROVE  \E k \in 0..Len(p) : EarlierOnes(p, k, since)
<1> DEFINE V == {x \in PivotType : x.time < since}
           L == PivotLeft
           R == PivotRight
           E == {i \in 1..Len(c) : c[i].t < since}
<1>1. /\ Len(c) \in Nat /\ L \in Nat \ {0} /\ R \in Nat \ {0} /\ \A i \in 1..Len(c) : c[i].t \in Int
  BY CandlesAreTyped, PivotAssumption DEF Times
<1>2. CASE Len(c) < L + R + 1
  <2>1. p = << >> /\ Len(<< >>) = 0
    BY <1>2 DEF ConfirmedPivots
  <2>2. 0 \in 0..Len(p) /\ \A i \in 1..Len(p) : p[i].time < since <=> i <= 0
    BY <2>1
  <2> QED BY <2>2 DEF EarlierOnes
<1>3. CASE ~(Len(c) < L + R + 1)
  <2>1. Ascending(c, step)
    BY TimesAscend
  <2>2. ASSUME NEW i \in E, NEW j \in 1..Len(c), j <= i PROVE j \in E
    <3>0. i \in 1..Len(c) /\ i \in Nat /\ j \in Nat /\ i <= Len(c) /\ 1 <= j
      BY <1>1
    <3>1. i = j \/ c[j].t + step <= c[i].t
      BY <2>1, <2>2, <3>0 DEF Ascending
    <3>2. c[i].t \in Int /\ c[j].t \in Int /\ c[i].t < since
      BY <1>1
    <3>3. c[j].t < since
      BY <3>1, <3>2
    <3> QED BY <3>3
  <2> PICK e : e = Cardinality(E)
    OBVIOUS
  <2>3. E = 1..e /\ e \in 0..Len(c)
    <3>1. E \in SUBSET (1..Len(c))
      OBVIOUS
    <3> HIDE DEF E
    <3> QED BY <1>1, <2>2, <3>1, InitialSegment
  <2>4. \A i \in 1..Len(c) : c[i].t < since <=> i <= e
    BY <1>1, <2>3
  <2>5. Len(c) - L - R \in Nat
    BY <1>1, <1>3
  <2> PICK m \in Nat : m = Len(c) - L - R
    BY <2>5
  <2>6. (IF e <= L THEN 0 ELSE IF e - L > m THEN m ELSE e - L) \in 0..m
    BY <1>1, <2>3
  <2> PICK k \in 0..m : k = IF e <= L THEN 0 ELSE IF e - L > m THEN m ELSE e - L
    BY <2>6
  <2>7. \A n \in 1..m : n <= k <=> n + L <= e
    BY <1>1, <2>3
  <2> DEFINE rows == [n \in 1..m |-> PivotsAt(c, f, n + L, step)]
             part == [n \in 1..k |-> rows[n]]
  <2>8. p = FlattenSeq(rows)
    BY <1>3 DEF ConfirmedPivots
  <2>9. ASSUME NEW n \in 1..m PROVE rows[n] \in Seq(PivotsOf(c, n + L, step)) /\ n + L \in 1..Len(c)
    <3>0. n + L \in 1..Len(c) /\ n + L + R <= Len(c)
      BY <1>1
    <3> PICK i \in 1..Len(c) : i = n + L /\ i + R <= Len(c)
      BY <3>0
    <3>1. PivotsAt(c, f, i, step) \in Seq(PivotsOf(c, i, step))
      BY PivotsOfARow
    <3>2. rows[n] = PivotsAt(c, f, i, step)
      OBVIOUS
    <3> HIDE DEF rows
    <3> QED BY <1>1, <3>1, <3>2
  <2>10. ASSUME NEW n \in 1..k PROVE rows[n] \in Seq(V)
    <3>1. n \in 1..m /\ n + L <= e
      BY <2>7
    <3>2. rows[n] \in Seq(PivotsOf(c, n + L, step)) /\ n + L \in 1..Len(c)
      BY <2>9, <3>1
    <3>3. c[n + L].t < since
      BY <2>4, <3>1, <3>2
    <3>4. PivotsOf(c, n + L, step) \subseteq V
      BY <3>3 DEF PivotsOf
    <3> HIDE DEF V, rows
    <3> QED BY <3>2, <3>4
  <2>11. ASSUME NEW n \in (k + 1)..m PROVE \A j \in 1..Len(rows[n]) : rows[n][j] \notin V
    <3>1. n \in 1..m /\ ~(n + L <= e)
      BY <2>7
    <3>2. rows[n] \in Seq(PivotsOf(c, n + L, step)) /\ n + L \in 1..Len(c)
      BY <2>9, <3>1
    <3>3. ~(c[n + L].t < since)
      BY <2>4, <3>1, <3>2
    <3>4. \A x \in PivotsOf(c, n + L, step) : x \notin V
      BY <3>3 DEF PivotsOf
    <3> HIDE DEF V, rows
    <3>5. \A j \in 1..Len(rows[n]) : rows[n][j] \in PivotsOf(c, n + L, step)
      BY <3>2, ElementOfSeq
    <3> QED BY <3>4, <3>5
  <2>12. rows \in [1..m -> Seq(PivotType)]
    <3>1. ASSUME NEW n \in 1..m PROVE rows[n] \in Seq(PivotType)
      <4>1. PivotsOf(c, n + L, step) \subseteq PivotType
        BY DEF PivotsOf
      <4> HIDE DEF rows
      <4> QED BY <2>9, <4>1
    <3>2. rows = [n \in 1..m |-> rows[n]]
      OBVIOUS
    <3> HIDE DEF rows
    <3> QED BY <3>1, <3>2
  <2>13. V \in SUBSET PivotType
    OBVIOUS
  <2> HIDE DEF rows, V
  <2>14. FirstOnes(V, rows, k, part)
    BY <2>10 DEF FirstOnes
  <2>15. \A i \in 1..k : rows[i] \in Seq(V)
    BY <2>10
  <2> DEFINE b == FlattenSeq(part)
  <2> HIDE DEF part
  <2>16. StartsWith(p, b, PivotType, V) /\ b \in Seq(V)
    <3>1. /\ StartsWith(FlattenSeq(rows), FlattenSeq(part), PivotType, V)
          /\ FlattenSeq(part) \in Seq(V)
      BY <2>11, <2>12, <2>13, <2>14, <2>15, JoinedInOrder
    <3> QED BY <2>8, <3>1
  <2> HIDE DEF b
  <2>17. /\ p \in Seq(PivotType) /\ Len(b) \in Nat /\ Len(p) \in Nat /\ Len(b) <= Len(p)
         /\ \A i \in 1..Len(b) : p[i] = b[i]
         /\ \A i \in Nat : Len(b) < i /\ i <= Len(p) => p[i] \notin V
    BY <2>16, LenProperties DEF StartsWith
  <2>18. ASSUME NEW i \in 1..Len(p) PROVE p[i].time < since <=> i <= Len(b)
    <3>1. p[i] \in PivotType
      BY <2>17, ElementOfSeq
    <3>2. p[i] \in V <=> p[i].time < since
      BY <3>1 DEF V
    <3>3. i <= Len(b) => p[i] \in V
      <4> SUFFICES ASSUME i <= Len(b) PROVE p[i] \in V
        OBVIOUS
      <4>1. i \in 1..Len(b)
        BY <2>17
      <4> QED BY <2>16, <2>17, <4>1, ElementOfSeq
    <3>4. ~(i <= Len(b)) => p[i] \notin V
      BY <2>17
    <3> QED BY <3>2, <3>3, <3>4
  <2>19. Len(b) \in 0..Len(p)
    BY <2>17
  <2> QED BY <2>18, <2>19 DEF EarlierOnes
<1> QED BY <1>2, <1>3

\* Pivots of an episode are found among those that opened since it began.
LEMMA StructurePivotAgrees ==
  ASSUME NEW p \in Seq(PivotType), NEW count \in 0..Len(p), NEW ctx,
         NEW k \in 0..Len(p), EarlierOnes(p, k, ctx.episode), NEW close,
         ctx.episode \in Int
  PROVE  StructurePivot(PivotsSince(p, count, ctx.episode), ctx, close)
           = StructurePivot(Prefix(p, count), ctx, close)
<1> DEFINE N == Len(p)
           w == PivotsSince(p, count, ctx.episode)
           a == Prefix(p, count)
           M == IF k < count THEN count - k ELSE 0
           Fits(x) == x.kind = WantedKind(ctx) /\ x.time >= ctx.episode /\ x.confirmed <= close
           U == {i \in DOMAIN w : Fits(w[i])}
           W == {i \in DOMAIN a : Fits(a[i])}
<1>1. N \in Nat /\ DOMAIN p = 1..N /\ k \in Nat /\ k <= N /\ count \in Nat /\ count <= N
  BY LenProperties
<1>2. Cardinality({i \in DOMAIN p : p[i].time < ctx.episode}) = k
  <2>1. {i \in DOMAIN p : p[i].time < ctx.episode} = 1..k
    BY <1>1 DEF EarlierOnes
  <2> QED BY <1>1, <2>1, FirstNumbers
<1>3. w = SubSeq(p, k + 1, count)
  <2>1. 1 + k = k + 1
    BY <1>1
  <2> QED BY <1>2, <2>1 DEF PivotsSince
<1>4. Len(w) = M /\ DOMAIN w = 1..M /\ \A i \in 1..M : w[i] = p[k + i]
  <2>1. k + 1 \in Int /\ count \in Int /\ \A i \in (k + 1)..count : p[i] \in PivotType
    BY <1>1, ElementOfSeq
  <2>2. /\ w \in Seq(PivotType) /\ Len(w) = (IF k + 1 <= count THEN count - (k + 1) + 1 ELSE 0)
        /\ \A i \in 1..(count - (k + 1) + 1) : w[i] = p[(k + 1) + i - 1]
    BY <1>3, <2>1, SubSeqProperties
  <2> HIDE DEF w
  <2>3. Len(w) = M
    BY <1>1, <2>2
  <2>4. \A i \in 1..M : i \in 1..(count - (k + 1) + 1) /\ (k + 1) + i - 1 = k + i
    BY <1>1
  <2> HIDE DEF M
  <2>5. \A i \in 1..M : w[i] = p[k + i]
    BY <2>2, <2>4
  <2> QED BY <2>2, <2>3, <2>5, LenProperties
<1>5. Len(a) = count /\ DOMAIN a = 1..count /\ \A i \in 1..count : a[i] = p[i]
  <2>1. a \in Seq(PivotType) /\ Len(a) = count /\ \A i \in 1..count : a[i] = p[i]
    BY PrefixProperties
  <2> HIDE DEF a
  <2> QED BY <2>1, LenProperties
<1>6. StructurePivot(w, ctx, close) = IF U = {} THEN << >> ELSE << w[Max(U)] >>
  BY DEF StructurePivot
<1>7. StructurePivot(a, ctx, close) = IF W = {} THEN << >> ELSE << a[Max(W)] >>
  BY DEF StructurePivot
<1>8. ASSUME NEW i \in U PROVE k + i \in W /\ i \in 1..M
  <2>1. i \in 1..M /\ Fits(w[i])
    BY <1>4
  <2>2. k + i \in 1..count
    BY <1>1, <2>1
  <2>3. w[i] = p[k + i] /\ a[k + i] = p[k + i]
    BY <1>4, <1>5, <2>1, <2>2
  <2> HIDE DEF w, a, Fits
  <2> QED BY <1>5, <2>1, <2>2, <2>3
<1>9. ASSUME NEW j \in W PROVE j - k \in U /\ j \in 1..count
  <2>1. j \in 1..count /\ Fits(a[j]) /\ a[j] = p[j]
    BY <1>5
  <2>2. j \in 1..N /\ p[j].time \in Int
    <3>1. j \in 1..N
      BY <1>1, <2>1
    <3> QED BY SMTT(30), <3>1, ElementOfSeq DEF PivotType, Times
  <2>3. ~(p[j].time < ctx.episode)
    BY <2>1, <2>2
  <2>4. ~(j <= k)
    BY <2>2, <2>3 DEF EarlierOnes
  <2>5. j - k \in 1..M /\ k + (j - k) = j
    BY <1>1, <2>1, <2>4
  <2>6. w[j - k] = p[j]
    BY <1>4, <2>5
  <2> HIDE DEF w, a, Fits
  <2> QED BY <1>4, <2>1, <2>5, <2>6
<1>10. M \in Nat /\ U \in SUBSET (1..M) /\ W \in SUBSET (1..count)
  BY <1>1, <1>4, <1>5
<1> HIDE DEF U, W, w, a, M
<1>11. CASE W = {}
  <2>1. U = {}
    BY <1>8, <1>11
  <2> QED BY <1>6, <1>7, <1>11, <2>1 DEF w, a
<1>12. CASE W # {}
  <2>1. U # {}
    BY <1>9, <1>12
  <2> PICK x, y : x = Max(U) /\ y = Max(W)
    OBVIOUS
  <2>2. x \in U /\ \A i \in U : i <= x
    BY <1>10, <2>1, MaxOfSome
  <2>3. y \in W /\ \A i \in W : i <= y
    BY <1>1, <1>10, <1>12, MaxOfSome
  <2>4. x \in 1..M /\ k + x \in W /\ y \in 1..count /\ y - k \in U
    BY <1>8, <1>9, <2>2, <2>3
  <2>5. k + x <= y /\ y - k <= x
    BY <2>2, <2>3, <2>4
  <2>6. y = k + x
    BY <1>1, <1>10, <2>4, <2>5
  <2>7. w[x] = a[y]
    BY <1>4, <1>5, <2>4, <2>6
  <2> QED BY <1>6, <1>7, <1>12, <2>1, <2>7 DEF w, a
<1> QED BY <1>11, <1>12

-----------------------------------------------------------------------------
(* Zones, triggers and plans decided from a window *)

\* The zones a slot keeps are the merged zones of the pivots it may see that are
\* not older than its window.
LEMMA ZonesSince ==
  ASSUME NEW p \in Seq(PivotType), NEW k \in 0..Len(p), NEW since
  PROVE  /\ ZonesOf(GrownZones(p, k), since) = {z \in MergeZones(Prefix(p, k)) : z.last >= since}
         /\ MergeZones(Prefix(p, k)) \subseteq ZoneType
<1> DEFINE z == GrownZones(p, k)
           all == z.completed \cup {Zone(z.current[kind]) : kind \in {x \in PivotKinds : z.current[x] # << >>}}
<1>1. z.completed \subseteq ZoneType /\ \A x \in PivotKinds : z.current[x] \in Seq(PivotType)
  <2>1. z \in StateType
    BY GrownZonesType
  <2> HIDE DEF z
  <2> QED BY <2>1 DEF StateType
<1>2. \A s : ZonesOf(z, s) = {y \in all : y.last >= s}
  BY DEF ZonesOf
<1>3. ZonesOf(z, NaN) = MergeZones(Prefix(p, k))
  BY GrownAreMerged
<1> HIDE DEF z
<1>4. all \subseteq ZoneType
  <2>1. \A x \in PivotKinds : z.current[x] # << >> => Zone(z.current[x]) \in ZoneType
    BY <1>1, ZonesAreTyped DEF Members
  <2> QED BY <1>1, <2>1
<1>5. \A y \in ZoneType : y.last >= NaN
  BY DEF ZoneType, Times, NaN
<1> HIDE DEF all
<1>6. MergeZones(Prefix(p, k)) = all
  BY <1>2, <1>3, <1>4, <1>5
<1> QED BY <1>2, <1>4, <1>6 DEF z

\* w is the last rows of d.
IsTail(w, d) == SameEnd(w, d, Len(w)) /\ Len(w) > 0

\* The rows of a tail, counted from its start.
LEMMA TailRows ==
  ASSUME NEW w, NEW d, IsTail(w, d)
  PROVE  /\ Len(w) \in Nat /\ Len(d) \in Nat /\ Len(w) > 0 /\ Len(w) <= Len(d)
         /\ \A i \in 1..Len(w) : w[i] = d[(Len(d) - Len(w)) + i]
<1> DEFINE b == Len(w)
           N == Len(d)
<1>1. b \in Nat /\ N \in Nat /\ b > 0 /\ b <= N /\ \A i \in Nat : i < b => w[b - i] = d[N - i]
  BY DEF IsTail, SameEnd
<1> HIDE DEF b, N
<1>2. ASSUME NEW i \in 1..b PROVE w[i] = d[(N - b) + i]
  <2>1. b - i \in Nat /\ b - i < b /\ b - (b - i) = i /\ N - (b - i) = (N - b) + i
    BY <1>1
  <2>2. w[b - (b - i)] = d[N - (b - i)]
    BY <1>1, <2>1
  <2> QED BY <2>1, <2>2
<1> QED BY <1>1, <1>2 DEF b, N

\* A tail of the length of the stream, or not shorter than what one looks at.
LEMMA TailsOfTails ==
  ASSUME NEW w, NEW d, IsTail(w, d), NEW k \in Nat, k <= Len(w)
  PROVE  SameEnd(w, d, k)
<1> DEFINE b == Len(w)
           N == Len(d)
<1>1. b \in Nat /\ N \in Nat /\ b <= N /\ \A i \in Nat : i < b => w[b - i] = d[N - i]
  BY DEF IsTail, SameEnd
<1> HIDE DEF b, N
<1>2. k <= b
  BY DEF b
<1>3. k <= N /\ \A i \in Nat : i < k => w[b - i] = d[N - i]
  BY <1>1, <1>2
<1> QED BY <1>1, <1>2, <1>3 DEF SameEnd, b, N

\* Only rows after a zone was confirmed destroy it, and they are in the window.
LEMMA DestroyedAlike ==
  ASSUME NEW d \in Seq(CandleRows), Ascending(d, CandleStep), NEW w, IsTail(w, d),
         NEW z \in ZoneType, z.last >= w[1].t, NEW ctx
  PROVE  ZoneDestroyed(z, w, ctx) <=> ZoneDestroyed(z, d, ctx)
<1> DEFINE b == Len(w)
           N == Len(d)
           Breaks(x) == /\ x.t + CandleStep > z.confirmed
                        /\ IF Long(ctx) THEN x.close < z.lower ELSE x.close > z.upper
<1>1. /\ b \in Nat /\ N \in Nat /\ b > 0 /\ b <= N /\ \A i \in 1..b : w[i] = d[(N - b) + i]
      /\ \A i \in 1..N : d[i].t \in Int
  BY TailRows, CandlesAreTyped DEF Times
<1>2. ZoneDestroyed(z, w, ctx) <=> \E i \in 1..(b - 1) : Breaks(w[i])
  BY DEF ZoneDestroyed, CloseOf
<1>3. ZoneDestroyed(z, d, ctx) <=> \E i \in 1..(N - 1) : Breaks(d[i])
  BY DEF ZoneDestroyed, CloseOf
<1>4. z.last \in Int /\ z.confirmed \in Int /\ z.last < z.confirmed
  BY DEF ZoneType, Times
<1> HIDE DEF b, N
<1>5. ASSUME NEW i \in 1..(b - 1), Breaks(w[i]) PROVE \E j \in 1..(N - 1) : Breaks(d[j])
  <2>1. (N - b) + i \in 1..(N - 1) /\ i \in 1..b
    BY <1>1
  <2>2. w[i] = d[(N - b) + i]
    BY <1>1, <2>1
  <2> HIDE DEF Breaks
  <2> QED BY <1>5, <2>1, <2>2
<1>6. ASSUME NEW j \in 1..(N - 1), Breaks(d[j]) PROVE \E i \in 1..(b - 1) : Breaks(w[i])
  <2>1. j > N - b
    <3> SUFFICES ASSUME ~(j > N - b) PROVE FALSE
      OBVIOUS
    <3> PICK s \in 1..N : s = (N - b) + 1
      BY <1>1
    <3>1. j \in Nat /\ s \in Nat /\ 1 <= j /\ j < s /\ s <= N /\ 1 \in 1..b
      BY <1>1
    <3>2. d[j].t + CandleStep <= d[s].t
      BY <3>1 DEF Ascending, N
    <3>3. w[1] = d[s]
      BY <1>1, <3>1
    <3>4. d[j].t \in Int /\ d[s].t \in Int /\ CandleStep \in Int
      BY <1>1, <3>1 DEF CandleStep
    <3>5. d[j].t + CandleStep > z.confirmed
      BY <1>6
    <3>6. d[s].t <= z.last
      BY <1>4, <3>3, <3>4
    <3> QED BY <1>4, <3>2, <3>4, <3>5, <3>6
  <2>2. j - (N - b) \in 1..(b - 1) /\ j - (N - b) \in 1..b /\ (N - b) + (j - (N - b)) = j
    BY <1>1, <2>1
  <2>3. w[j - (N - b)] = d[j]
    BY <1>1, <2>2
  <2> HIDE DEF Breaks
  <2> QED BY <1>6, <2>2, <2>3
<1> HIDE DEF Breaks
<1> QED BY <1>2, <1>3, <1>5, <1>6

\* Trigger B chooses among the same zones.
LEMMA SweepZonesAgree ==
  ASSUME NEW d \in Seq(CandleRows), Ascending(d, CandleStep), NEW w, IsTail(w, d),
         Len(w) = TriggerBRows, NEW all \in SUBSET ZoneType, NEW some,
         some = {z \in all : z.last >= w[1].t}, NEW ctx
  PROVE  SweepZones(some, w, ctx) = SweepZones(all, d, ctx)
<1> DEFINE b == Len(w)
           N == Len(d)
           first == d[N - TriggerBRows + 1].t
<1>1. /\ b \in Nat /\ N \in Nat /\ b > 0 /\ b <= N /\ \A i \in 1..b : w[i] = d[(N - b) + i]
      /\ b = TriggerBRows
  BY TailRows
<1>2. Latest(w) = Latest(d)
  BY <1>1, LatestAgree DEF IsTail
<1>3. w[1] = d[N - TriggerBRows + 1] /\ w[b - TriggerBRows + 1] = w[1]
  <2>1. 1 \in 1..b /\ (N - b) + 1 = N - TriggerBRows + 1 /\ b - TriggerBRows + 1 = 1
    BY <1>1
  <2> QED BY <1>1, <2>1
<1>4. \A z \in ZoneType : z.last >= w[1].t => (ZoneDestroyed(z, w, ctx) <=> ZoneDestroyed(z, d, ctx))
  BY DestroyedAlike
<1>5. \A z \in ZoneType : first <= z.last <=> z.last >= w[1].t
  <2>1. N - TriggerBRows + 1 \in 1..N
    BY <1>1
  <2>2. first \in Int
    BY <2>1, CandlesAreTyped DEF Times
  <2> QED BY <1>3, <2>2 DEF ZoneType, Times
<1> DEFINE Fits(z, opened) == /\ z.kind = WantedKind(ctx)
                              /\ z.confirmed <= opened
                              /\ z.last < opened
<1>6. SweepZones(some, w, ctx) = {z \in some : /\ Fits(z, Latest(w).t) /\ w[1].t <= z.last
                                               /\ ~ZoneDestroyed(z, w, ctx)}
  BY <1>3 DEF SweepZones, b
<1>7. SweepZones(all, d, ctx) = {z \in all : /\ Fits(z, Latest(d).t) /\ first <= z.last
                                             /\ ~ZoneDestroyed(z, d, ctx)}
  BY DEF SweepZones
<1>8. \A z \in ZoneType : w[1].t <= z.last <=> z.last >= w[1].t
  <2>1. w[1].t = first
    BY <1>3
  <2>2. N - TriggerBRows + 1 \in 1..N
    BY <1>1
  <2>3. first \in Int
    BY <2>2, CandlesAreTyped DEF Times
  <2> QED BY <2>1, <2>3 DEF ZoneType, Times
<1> HIDE DEF first, Fits
<1>9. \A z \in all : z \in ZoneType
  OBVIOUS
<1>10. \A z : z \in SweepZones(some, w, ctx) <=> z \in SweepZones(all, d, ctx)
  BY <1>2, <1>4, <1>5, <1>6, <1>7, <1>8, <1>9
<1> QED BY <1>10

\* Trigger A finds the same structure in both.
SamePivots(p, q, ctx) == \A close : StructurePivot(p, ctx, close) = StructurePivot(q, ctx, close)

\* Trigger A looks at its last rows.
LEMMA TriggerAAgrees ==
  ASSUME NEW c, NEW d, NEW f, NEW g, SameEnd(c, d, TriggerARows), SameEnd(f, g, TriggerARows),
         Len(f) = Len(c), Len(g) = Len(d), NEW p, NEW q, NEW ctx,
         SamePivots(p, q, ctx)
  PROVE  /\ TriggerA(c, f, p, ctx) = TriggerA(d, g, q, ctx)
         /\ TriggerAReady(c, f) <=> TriggerAReady(d, g)
<1> DEFINE a == Len(c)
           b == Len(d)
           T == TouchBars
<1>1. /\ a \in Nat /\ b \in Nat /\ TriggerARows <= a /\ TriggerARows <= b
      /\ TriggerARows \in Nat /\ T \in Nat \ {0} /\ T < TriggerARows
      /\ \A i \in Nat : i < TriggerARows => c[a - i] = d[b - i]
      /\ \A i \in Nat : i < TriggerARows => f[a - i] = g[b - i]
  BY TriggerAssumption DEF SameEnd
<1> HIDE DEF a, b, T
<1>2. \A i \in 0..T : c[a - i] = d[b - i] /\ f[a - i] = g[b - i]
  BY <1>1
<1>3. c[a] = d[b] /\ f[a] = g[b] /\ c[a - 1] = d[b - 1]
  <2>1. 0 \in 0..T /\ 1 \in 0..T /\ a - 0 = a /\ b - 0 = b
    BY <1>1
  <2> QED BY <1>2, <2>1
<1>4. Latest(f) = Latest(g)
  BY <1>3 DEF Latest, a, b
<1> DEFINE Touches(k, row) == \/ Beyond(ctx, row.sma["sma30"], k.close)
                              \/ k.low <= ctx.upper /\ k.high >= ctx.lower
           Cold(row) == row.sma["sma30"] = NaN
<1>5. PullbackTouch(c, f, ctx) <=> \E i \in (a - T)..(a - 1) : Touches(c[i], f[i])
  BY DEF PullbackTouch, a, T
<1>6. PullbackTouch(d, g, ctx) <=> \E i \in (b - T)..(b - 1) : Touches(d[i], g[i])
  BY DEF PullbackTouch, b, T
<1>7. ASSUME NEW i \in (a - T)..a
      PROVE  \E j \in (b - T)..b : c[i] = d[j] /\ f[i] = g[j] /\ (i # a => j \in (b - T)..(b - 1))
  <2>1. a - i \in 0..T /\ a - (a - i) = i /\ b - (a - i) \in (b - T)..b /\ (i # a => b - (a - i) # b)
    BY <1>1
  <2>2. c[i] = d[b - (a - i)] /\ f[i] = g[b - (a - i)]
    BY <1>2, <2>1
  <2>3. i # a => b - (a - i) \in (b - T)..(b - 1)
    BY <1>1, <2>1
  <2> QED BY <2>1, <2>2, <2>3
<1>8. ASSUME NEW j \in (b - T)..b
      PROVE  \E i \in (a - T)..a : c[i] = d[j] /\ f[i] = g[j] /\ (j # b => i \in (a - T)..(a - 1))
  <2>1. b - j \in 0..T /\ b - (b - j) = j /\ a - (b - j) \in (a - T)..a /\ (j # b => a - (b - j) # a)
    BY SMTT(30), <1>1
  <2>2. c[a - (b - j)] = d[j] /\ f[a - (b - j)] = g[j]
    BY <1>2, <2>1
  <2>3. j # b => a - (b - j) \in (a - T)..(a - 1)
    BY <1>1, <2>1
  <2> QED BY <2>1, <2>2, <2>3
<1>9. (\A i \in (a - T)..(a - 1) : i \in (a - T)..a /\ i # a) /\ \A j \in (b - T)..(b - 1) : j \in (b - T)..b /\ j # b
  BY <1>1
<1> HIDE DEF Touches, Cold
<1>10. PullbackTouch(c, f, ctx) <=> PullbackTouch(d, g, ctx)
  BY <1>5, <1>6, <1>7, <1>8, <1>9
<1>11. (\A i \in (a - T)..a : ~Cold(f[i])) <=> (\A j \in (b - T)..b : ~Cold(g[j]))
  BY <1>7, <1>8
<1>12. TriggerAReady(c, f) <=> (\A i \in (a - T)..a : ~Cold(f[i])) /\ VolumeReady(Latest(f))
  BY <1>1 DEF TriggerAReady, Cold, a, T
<1>13. TriggerAReady(d, g) <=> (\A j \in (b - T)..b : ~Cold(g[j])) /\ VolumeReady(Latest(g))
  BY <1>1 DEF TriggerAReady, Cold, b, T
<1>14. TriggerAReady(c, f) <=> TriggerAReady(d, g)
  BY <1>4, <1>11, <1>12, <1>13
<1>15. CloseOf(c, a, CandleStep) = CloseOf(d, b, CandleStep)
  BY <1>3 DEF CloseOf
<1> DEFINE x == StructurePivot(p, ctx, CloseOf(c, a, CandleStep))
           y == StructurePivot(q, ctx, CloseOf(d, b, CandleStep))
<1>16. x = y
  BY <1>15 DEF SamePivots
<1>17. TriggerA(c, f, p, ctx) = TriggerA(d, g, q, ctx)
  <2> DEFINE Names == {"NO_MA_PULLBACK_TOUCH", "MA_RECLAIM_FAILED", "PREVIOUS_BAR_BREAK_FAILED",
                       "PULLBACK_VOLUME_NOT_CONTRACTING", "STOP_STRUCTURE_MISSING"}
             Reasons(touch, k, row, before, pivot) ==
               {r \in Names :
                CASE r = "NO_MA_PULLBACK_TOUCH"       -> ~touch
                  [] r = "MA_RECLAIM_FAILED"          -> ~Beyond(ctx, k.close, row.sma["sma30"])
                  [] r = "PREVIOUS_BAR_BREAK_FAILED"  -> ~Beyond(ctx, k.close, BreakLevel(before, ctx))
                  [] r = "PULLBACK_VOLUME_NOT_CONTRACTING" -> ~PullbackContracting(row)
                  [] r = "STOP_STRUCTURE_MISSING"     -> pivot = << >>}
               \cup VolumeReasons(k, row, ctx)
             Answer(touch, k, row, before, pivot) ==
               [confirmed    |-> Reasons(touch, k, row, before, pivot) = {},
                invalidation |-> IF pivot = << >> THEN NaN ELSE pivot[1].price]
  <2>1. TriggerA(c, f, p, ctx) = Answer(PullbackTouch(c, f, ctx), c[a], f[a], c[a - 1], x)
    BY DEF TriggerA, a
  <2>2. TriggerA(d, g, q, ctx) = Answer(PullbackTouch(d, g, ctx), d[b], g[b], d[b - 1], y)
    BY DEF TriggerA, b
  <2>3. Answer(PullbackTouch(c, f, ctx), c[a], f[a], c[a - 1], x)
          = Answer(PullbackTouch(d, g, ctx), c[a], f[a], c[a - 1], x)
    BY <1>10
  <2> HIDE DEF Answer, x, y
  <2> QED BY <1>3, <1>16, <2>1, <2>2, <2>3
<1> QED BY <1>14, <1>17

\* Trigger B looks at the latest row, the close before it and the zones.
LEMMA TriggerBAgrees ==
  ASSUME NEW c, NEW d, NEW f, NEW g, SameEnd(c, d, 2), SameEnd(f, g, 2), NEW some, NEW all, NEW ctx,
         SweepZones(some, c, ctx) = SweepZones(all, d, ctx)
  PROVE  TriggerB(c, f, some, ctx) = TriggerB(d, g, all, ctx)
<1>1. Latest(c) = Latest(d) /\ Latest(f) = Latest(g)
  BY LatestAgree
<1>2. c[Len(c) - 1] = d[Len(d) - 1]
  <2>1. 1 \in Nat /\ 1 < 2
    OBVIOUS
  <2> QED BY <2>1 DEF SameEnd
<1> QED BY <1>1, <1>2 DEF TriggerB

\* The triggers of the window are those of the whole history.
LEMMA TriggersAgree ==
  ASSUME NEW d \in Seq(CandleRows), Ascending(d, CandleStep), NEW g, Len(g) = Len(d),
         NEW w, NEW v, SameEnd(w, d, Len(w)), SameEnd(v, g, Len(w)), Len(v) = Len(w),
         Len(w) = Smaller(Len(d), TriggerBRows),
         NEW all \in SUBSET ZoneType, NEW some, Len(w) > 0 => some = {z \in all : z.last >= w[1].t}, NEW ctx,
         NEW p, NEW q, SamePivots(p, q, ctx)
  PROVE  Triggers(w, v, p, some, ctx) = Triggers(d, g, q, all, ctx)
<1> DEFINE A == TriggerARows
           B == TriggerBRows
<1>1. /\ A \in Nat \ {0} /\ B \in Nat \ {0} /\ A <= B /\ TouchBars \in Nat \ {0} /\ TouchBars < A
      /\ Len(d) \in Nat /\ Len(w) \in Nat /\ Len(w) <= Len(d) /\ 2 <= A
  BY TriggerAssumption DEF SameEnd
<1>2. (Len(w) >= A <=> Len(d) >= A) /\ (Len(w) >= B <=> Len(d) >= B) /\ (Len(w) >= B => Len(w) = B)
  BY <1>1 DEF Smaller
<1>3. CASE ~(Len(w) >= A)
  <2>1. ~TriggerAReady(w, v) /\ ~TriggerAReady(d, g)
    BY <1>2, <1>3 DEF TriggerAReady
  <2> QED BY <2>1 DEF Triggers
<1>4. CASE Len(w) >= A
  <2>1. IsTail(w, d) /\ IsTail(v, g) /\ A <= Len(w) /\ A <= Len(v) /\ Len(v) = Len(w)
    BY <1>1, <1>4 DEF IsTail
  <2>2. SameEnd(w, d, A) /\ SameEnd(v, g, A)
    BY <1>1, <2>1, TailsOfTails
  <2>3. SameEnd(w, d, 2) /\ SameEnd(v, g, 2)
    <3>1. 2 \in Nat /\ 2 <= Len(w) /\ 2 <= Len(v)
      BY <1>1, <2>1
    <3> QED BY <2>1, <3>1, TailsOfTails
  <2>4. TriggerA(w, v, p, ctx) = TriggerA(d, g, q, ctx) /\ (TriggerAReady(w, v) <=> TriggerAReady(d, g))
    BY <2>2, TriggerAAgrees
  <2>5. Len(w) >= B => TriggerB(w, v, some, ctx) = TriggerB(d, g, all, ctx)
    <3> SUFFICES ASSUME Len(w) >= B PROVE TriggerB(w, v, some, ctx) = TriggerB(d, g, all, ctx)
      OBVIOUS
    <3>1. Len(w) = TriggerBRows /\ some = {z \in all : z.last >= w[1].t}
      BY <1>1, <1>2
    <3>2. SweepZones(some, w, ctx) = SweepZones(all, d, ctx)
      BY <2>1, <3>1, SweepZonesAgree
    <3> QED BY <2>3, <3>2, TriggerBAgrees
  <2> DEFINE a == TriggerA(w, v, p, ctx)
             x == TriggerB(w, v, some, ctx)
             y == TriggerB(d, g, all, ctx)
             Merged(ready, long, s, t) ==
               IF ~ready THEN NotReady
               ELSE LET sweep == long /\ t.confirmed
                    IN  IF ~(sweep \/ s.confirmed) THEN [status |-> "NO_TRIGGER"]
                        ELSE [status       |-> "CONFIRMED",
                              primary      |-> IF sweep THEN "SWEEP_RECLAIM" ELSE "MA_RECLAIM",
                              both         |-> sweep /\ s.confirmed,
                              invalidation |-> IF sweep THEN t.invalidation ELSE s.invalidation]
  <2>6. Triggers(w, v, p, some, ctx) = Merged(TriggerAReady(w, v), Len(w) >= B, a, x)
    BY DEF Triggers
  <2>7. Triggers(d, g, q, all, ctx) = Merged(TriggerAReady(d, g), Len(d) >= B, a, y)
    BY <2>4 DEF Triggers
  <2>8. CASE Len(w) >= B
    <3>1. Len(d) >= B /\ x = y
      BY <1>2, <2>5, <2>8
    <3> HIDE DEF a, x, y
    <3> QED BY <2>4, <2>6, <2>7, <2>8, <3>1
  <2>9. CASE ~(Len(w) >= B)
    <3>1. ~(Len(d) >= B)
      BY <1>2, <2>9
    <3> HIDE DEF a, x, y
    <3> QED BY <2>4, <2>6, <2>7, <2>9, <3>1
  <2> QED BY <2>8, <2>9
<1> QED BY <1>3, <1>4

\* w is what a slot keeps of the candles d: the last rows.
WindowOf(w, d, rows, step) ==
  /\ d \in Seq(CandleRows) /\ step \in Nat \ {0} /\ Ascending(d, step) /\ rows \in Nat \ {0}
  /\ SameEnd(w, d, Len(w)) /\ Len(w) = Smaller(Len(d), rows)

\* some are what it keeps of the zones: those that reach into the window.
ZonesKept(some, all, w) ==
  all \subseteq ZoneType /\ (Len(w) > 0 => some = {z \in all : z.last >= w[1].t})

\* The same lookback begins in both, inside the window.
LEMMA LookbackAgrees ==
  ASSUME NEW w, NEW d, NEW rows, NEW step, WindowOf(w, d, rows, step), NEW n \in Nat \ {0}, n <= rows
  PROVE  /\ Len(w) < n <=> Len(d) < n
         /\ ~(Len(w) < n) => /\ LookbackStart(w, n) = LookbackStart(d, n)
                             /\ LookbackStart(d, n) \in Int /\ w[1].t \in Int /\ w[1].t <= LookbackStart(d, n)
<1>1. /\ d \in Seq(CandleRows) /\ step \in Nat \ {0} /\ Ascending(d, step) /\ rows \in Nat \ {0}
      /\ Len(w) = Smaller(Len(d), rows) /\ Len(w) \in Nat /\ Len(d) \in Nat
  BY DEF WindowOf, SameEnd
<1>2. Len(w) < n <=> Len(d) < n
  BY <1>1 DEF Smaller
<1>3. ASSUME ~(Len(w) < n)
      PROVE  /\ LookbackStart(w, n) = LookbackStart(d, n)
             /\ LookbackStart(d, n) \in Int /\ w[1].t \in Int /\ w[1].t <= LookbackStart(d, n)
  <2>1. IsTail(w, d)
    BY <1>1, <1>3 DEF IsTail, WindowOf
  <2> DEFINE b == Len(w)
             N == Len(d)
  <2>2. b \in Nat /\ N \in Nat /\ b > 0 /\ b <= N /\ n <= b /\ \A i \in 1..b : w[i] = d[(N - b) + i]
    <3>1. b \in Nat /\ N \in Nat /\ b > 0 /\ b <= N /\ \A i \in 1..b : w[i] = d[(N - b) + i]
      BY <2>1, TailRows
    <3> HIDE DEF N
    <3>2. n <= b
      BY <1>1, <1>3
    <3> QED BY <3>1, <3>2
  <2> HIDE DEF b, N
  <2> PICK s \in Nat, t \in Nat : s = (N - b) + 1 /\ t = N - n + 1
    BY <2>2
  <2>3. s \in 1..N /\ t \in 1..N /\ s <= t
    BY <2>2
  <2>4. w[1] = d[s]
    <3>1. 1 \in 1..b
      BY <2>2
    <3> QED BY <2>2, <3>1
  <2>5. w[b - n + 1] = d[t]
    <3>1. b - n + 1 \in 1..b /\ (N - b) + (b - n + 1) = t
      BY <2>2
    <3> QED BY <2>2, <3>1
  <2>6. LookbackStart(w, n) = d[t].t /\ LookbackStart(d, n) = d[t].t
    BY <2>5 DEF LookbackStart, b, N
  <2>7. d[s].t \in Int /\ d[t].t \in Int
    BY <1>1, <2>3, CandlesAreTyped DEF Times, N
  <2>8. s = t \/ d[s].t + step <= d[t].t
    BY <1>1, <2>3 DEF Ascending, N
  <2>9. d[s].t <= d[t].t
    BY <1>1, <2>7, <2>8
  <2> QED BY <2>4, <2>6, <2>7, <2>9
<1> QED BY <1>2, <1>3

\* The zones kept give the same targets.
LEMMA CandidatesAgree ==
  ASSUME NEW all \in SUBSET ZoneType, NEW low \in Int, NEW since \in Int, low <= since,
         NEW some, some = {z \in all : z.last >= low}, NEW source, NEW es, NEW req, NEW close
  PROVE  Candidates(some, source, since, es, req, close) = Candidates(all, source, since, es, req, close)
<1> DEFINE Fits(y) == y.kind = TargetKind(req) /\ y.confirmed <= close /\ y.last >= since
<1>1. {y \in some : Fits(y)} = {y \in all : Fits(y)}
  <2>1. \A y \in all : y.last \in Int
    BY DEF ZoneType, Times
  <2>2. \A y \in all : y.last >= since => y.last >= low
    BY <2>1
  <2> QED BY <2>2
<1> QED BY <1>1 DEF Candidates

\* The plan made from the windows is the plan made from the whole history.
LEMMA PlansAgree ==
  ASSUME NEW w, NEW d, NEW rows, WindowOf(w, d, rows, CandleStep), TargetRows15 <= rows,
         NEW hw, NEW hd, WindowOf(hw, hd, TargetRows1h, HourStep),
         NEW some15, NEW all15, ZonesKept(some15, all15, w),
         NEW some1h, NEW all1h, ZonesKept(some1h, all1h, hw), NEW req, NEW close, NEW rule
  PROVE  PlanOf(req, w, some15, hw, some1h, close, rule) = PlanOf(req, d, all15, hd, all1h, close, rule)
<1> DEFINE es == EntryStop(req)
           ts(c, zs, h, hs) ==
                     Candidates(zs, 1, LookbackStart(c, TargetRows15), es, req, close)
                \cup Candidates(hs, 2, LookbackStart(h, TargetRows1h), es, req, close)
           Outcome(short, targets) ==
             IF ~es.accepted THEN [status |-> "REJECTED_ENTRY_STOP", request |-> req, stop |-> es]
             ELSE IF short THEN [status |-> "PLAN_INPUT_ERROR", request |-> req, stop |-> es]
             ELSE LET tp == TakeProfit(es, req, targets)
                  IN  IF ~tp.accepted THEN [status |-> "REJECTED_TAKE_PROFIT", request |-> req, stop |-> es]
                      ELSE [status  |-> IF RequestFits(close, rule) THEN "ACCEPTED_PLAN"
                                        ELSE "REJECTED_REQUEST_BOUNDARY",
                            request |-> req, stop |-> es, profit |-> tp]
           short == Len(w) < TargetRows15 \/ Len(hw) < TargetRows1h
           shortAll == Len(d) < TargetRows15 \/ Len(hd) < TargetRows1h
<1>1. TargetRows15 \in Nat \ {0} /\ TargetRows1h \in Nat \ {0} /\ TargetRows1h <= TargetRows1h
  BY PlanAssumption
<1>2. /\ Len(w) < TargetRows15 <=> Len(d) < TargetRows15
      /\ ~(Len(w) < TargetRows15) =>
            /\ LookbackStart(w, TargetRows15) = LookbackStart(d, TargetRows15)
            /\ LookbackStart(d, TargetRows15) \in Int /\ w[1].t \in Int /\ w[1].t <= LookbackStart(d, TargetRows15)
  BY <1>1, LookbackAgrees
<1>3. /\ Len(hw) < TargetRows1h <=> Len(hd) < TargetRows1h
      /\ ~(Len(hw) < TargetRows1h) =>
            /\ LookbackStart(hw, TargetRows1h) = LookbackStart(hd, TargetRows1h)
            /\ LookbackStart(hd, TargetRows1h) \in Int /\ hw[1].t \in Int /\ hw[1].t <= LookbackStart(hd, TargetRows1h)
  BY <1>1, LookbackAgrees
<1>4. Len(w) \in Nat /\ Len(hw) \in Nat
  BY DEF WindowOf, SameEnd
<1>5. PlanOf(req, w, some15, hw, some1h, close, rule) = Outcome(short, ts(w, some15, hw, some1h))
  BY DEF PlanOf
<1>6. PlanOf(req, d, all15, hd, all1h, close, rule) = Outcome(shortAll, ts(d, all15, hd, all1h))
  BY DEF PlanOf
<1>7. short <=> shortAll
  BY <1>2, <1>3
<1>8. CASE short
  <2> HIDE DEF es, ts, short, shortAll
  <2> QED BY <1>5, <1>6, <1>7, <1>8
<1>9. CASE ~short
  <2>1. ~(Len(w) < TargetRows15) /\ ~(Len(hw) < TargetRows1h) /\ Len(w) > 0 /\ Len(hw) > 0
    BY <1>1, <1>4, <1>9
  <2>2. /\ all15 \in SUBSET ZoneType /\ some15 = {z \in all15 : z.last >= w[1].t}
        /\ all1h \in SUBSET ZoneType /\ some1h = {z \in all1h : z.last >= hw[1].t}
    BY <2>1 DEF ZonesKept
  <2>3. Candidates(some15, 1, LookbackStart(d, TargetRows15), es, req, close)
          = Candidates(all15, 1, LookbackStart(d, TargetRows15), es, req, close)
    BY <1>2, <2>1, <2>2, CandidatesAgree
  <2>4. Candidates(some1h, 2, LookbackStart(hd, TargetRows1h), es, req, close)
          = Candidates(all1h, 2, LookbackStart(hd, TargetRows1h), es, req, close)
    BY <1>3, <2>1, <2>2, CandidatesAgree
  <2>5. ts(w, some15, hw, some1h) = ts(d, all15, hd, all1h)
    BY <1>2, <1>3, <2>1, <2>3, <2>4
  <2> HIDE DEF es, ts, short, shortAll, Outcome
  <2>6. short = shortAll
    BY <1>7, <1>9 DEF short, shortAll
  <2> QED BY <1>5, <1>6, <2>5, <2>6
<1> QED BY <1>8, <1>9

\* Decided from the windows or from the whole history: the same.
LEMMA DecisionsAgree ==
  ASSUME NEW rule, NEW setup, NEW slot,
         NEW w, NEW d, WindowOf(w, d, TriggerBRows, CandleStep),
         NEW v, NEW g, Len(g) = Len(d), Len(v) = Len(w), SameEnd(v, g, Len(w)),
         NEW hw, NEW hd, WindowOf(hw.c, hd.c, TargetRows1h, HourStep),
         Latest(hw.f) = Latest(hd.f),
         NEW some15, NEW all15, ZonesKept(some15, all15, w),
         NEW some1h, NEW all1h, ZonesKept(some1h, all1h, hw.c),
         NEW p, NEW q, SamePivots(p, q, TriggerContext(setup, hd.f))
  PROVE  Decide(rule, setup, w, v, p, some15, hw, some1h, slot)
           = Decide(rule, setup, d, g, q, all15, hd, all1h, slot)
<1> DEFINE ctx == TriggerContext(setup, hd.f)
           x == Triggers(w, v, p, some15, ctx)
           y == Triggers(d, g, q, all15, ctx)
<1>1. TriggerContext(setup, hw.f) = ctx
  BY DEF TriggerContext
<1>2. /\ d \in Seq(CandleRows) /\ Ascending(d, CandleStep) /\ SameEnd(w, d, Len(w))
      /\ Len(w) = Smaller(Len(d), TriggerBRows) /\ Len(w) \in Nat
  BY DEF WindowOf, SameEnd
<1>3. all15 \in SUBSET ZoneType /\ (Len(w) > 0 => some15 = {z \in all15 : z.last >= w[1].t})
  BY DEF ZonesKept
<1>4. x = y
  <2> HIDE DEF x, y, ctx
  <2>1. SamePivots(p, q, ctx)
    BY DEF ctx
  <2>2. Triggers(w, v, p, some15, ctx) = Triggers(d, g, q, all15, ctx)
    BY <1>2, <1>3, <2>1, TriggersAgree
  <2> QED BY <2>2 DEF x, y
<1>5. Decide(rule, setup, w, v, p, some15, hw, some1h, slot) =
        IF x.status # "CONFIRMED" THEN x
        ELSE LET plan == PlanOf(Request(setup, x, w, v, rule.tick), w, some15, hw.c, some1h, slot, rule)
             IN  [status |-> plan.status, primary |-> x.primary, both |-> x.both, plan |-> plan]
  BY <1>1 DEF Decide
<1>6. Decide(rule, setup, d, g, q, all15, hd, all1h, slot) =
        IF y.status # "CONFIRMED" THEN y
        ELSE LET plan == PlanOf(Request(setup, y, d, g, rule.tick), d, all15, hd.c, all1h, slot, rule)
             IN  [status |-> plan.status, primary |-> y.primary, both |-> y.both, plan |-> plan]
  BY DEF Decide
<1>7. x.status = "CONFIRMED" => Len(w) > 0
  <2>1. x.status = "CONFIRMED" => TriggerAReady(w, v)
    BY DEF Triggers, NotReady
  <2>2. TriggerAReady(w, v) => Len(w) > 0
    BY <1>2, TriggerAssumption DEF TriggerAReady
  <2> QED BY <2>1, <2>2
<1> HIDE DEF x, y, ctx
<1>8. CASE x.status # "CONFIRMED"
  BY <1>4, <1>5, <1>6, <1>8
<1>9. CASE x.status = "CONFIRMED"
  <2>1. Latest(w) = Latest(d) /\ Latest(v) = Latest(g)
    BY <1>2, <1>7, <1>9, LatestAgree
  <2>2. Request(setup, x, w, v, rule.tick) = Request(setup, y, d, g, rule.tick)
    BY <1>4, <2>1 DEF Request
  <2> DEFINE req == Request(setup, y, d, g, rule.tick)
  <2> HIDE DEF req
  <2>3. PlanOf(req, w, some15, hw.c, some1h, slot, rule) = PlanOf(req, d, all15, hd.c, all1h, slot, rule)
    BY PlanAssumption, PlansAgree
  <2> QED BY <1>4, <1>5, <1>6, <1>9, <2>2, <2>3 DEF req
<1> QED BY <1>8, <1>9

-----------------------------------------------------------------------------
(* The scan and the source decide alike *)

\* The last rows of a stream up to row end, and all of them, end alike.
LEMMA WindowIsATail ==
  ASSUME NEW s, NEW end \in Nat, NEW rows \in Nat \ {0}
  PROVE  LET w == Ending(s, end, rows)
             d == Ending(s, end, end)
         IN  /\ Len(w) = Smaller(end, rows) /\ Len(d) = end
             /\ SameEnd(w, d, Len(w))
             /\ Latest(w) = Latest(d)
<1> DEFINE w == Ending(s, end, rows)
           d == Ending(s, end, end)
<1>1. Len(w) = Smaller(end, rows) /\ Len(d) = end
  BY ShortEndings
<1>2. CASE end = 0
  <2>1. w = d
    BY <1>2, NothingClosed
  <2>2. Len(w) = 0 /\ Len(d) = 0
    BY <1>1, <1>2, <2>1
  <2> HIDE DEF w, d
  <2>3. SameEnd(w, d, Len(w))
    BY <2>2 DEF SameEnd
  <2> QED BY <1>1, <2>1, <2>3 DEF w, d
<1>3. CASE end # 0
  <2> DEFINE k == Smaller(end, rows)
  <2>1. end \in Nat \ {0} /\ k \in Nat /\ k > 0 /\ k <= Smaller(end, rows) /\ k <= Smaller(end, end)
    BY <1>3 DEF Smaller
  <2> HIDE DEF k
  <2>2. SameEnd(w, d, k)
    BY <2>1, EndingsEndAlike
  <2>3. Latest(w) = Latest(d)
    BY <2>1, <2>2, LatestAgree
  <2> QED BY <1>1, <2>2, <2>3 DEF k
<1> QED BY <1>2, <1>3

\* What has closed by some row of a valid stream is a valid stream.
LEMMA PrefixAscends ==
  ASSUME NEW c \in Seq(CandleRows), NEW step, Ascending(c, step), NEW end \in 0..Len(c)
  PROVE  /\ Prefix(c, end) \in Seq(CandleRows) /\ Len(Prefix(c, end)) = end
         /\ Ascending(Prefix(c, end), step)
         /\ SameStart(Prefix(c, end), c, end)
<1> DEFINE d == Prefix(c, end)
<1>1. d \in Seq(CandleRows) /\ Len(d) = end /\ \A i \in 1..end : d[i] = c[i]
  BY PrefixProperties
<1>2. end \in Nat /\ Len(c) \in Nat /\ end <= Len(c)
  BY LenProperties
<1> HIDE DEF d
<1>3. SameStart(d, c, end)
  BY <1>1, <1>2 DEF SameStart
<1>4. Ascending(d, step)
  <2> SUFFICES ASSUME NEW i \in Nat, NEW j \in Nat, 1 <= i, i < j, j <= end
               PROVE  d[i].t + step <= d[j].t
    BY <1>1 DEF Ascending
  <2>1. d[i] = c[i] /\ d[j] = c[j]
    BY <1>2, <1>3 DEF SameStart
  <2>2. c[i].t + step <= c[j].t
    BY <1>2 DEF Ascending
  <2> QED BY <2>1, <2>2
<1> QED BY <1>1, <1>3, <1>4 DEF d

\* The window of candles a slot keeps is a window of what has closed.
LEMMA SlotWindow ==
  ASSUME NEW c \in Seq(CandleRows), NEW step \in Nat \ {0}, ValidCandles(c, step),
         NEW end \in 0..Len(c), NEW rows \in Nat \ {0}
  PROVE  WindowOf(Ending(c, end, rows), Prefix(c, end), rows, step)
<1> DEFINE w == Ending(c, end, rows)
           d == Prefix(c, end)
<1>1. end \in Nat /\ d = Ending(c, end, end)
  BY LenProperties DEF Ending, Prefix
<1>2. Len(w) = Smaller(end, rows) /\ SameEnd(w, d, Len(w))
  BY <1>1, WindowIsATail
<1>3. Ascending(c, step)
  BY TimesAscend
<1>4. d \in Seq(CandleRows) /\ Len(d) = end /\ Ascending(d, step)
  BY <1>3, PrefixAscends
<1> HIDE DEF w, d
<1>5. WindowOf(w, d, rows, step)
  BY <1>2, <1>4 DEF WindowOf
<1> QED BY <1>5 DEF w, d

\* The window of the frame of the whole stream is a window of the frame of what has closed.
LEMMA FrameWindow ==
  ASSUME NEW c \in Seq(CandleRows), NEW end \in 0..Len(c), NEW rows \in Nat \ {0}
  PROVE  LET d == Prefix(c, end)
             g == IndicatorFrame(d)
             v == Ending(IndicatorFrame(c), end, rows)
         IN  /\ Len(g) = Len(d) /\ Len(v) = Smaller(end, rows) /\ Len(d) = end
             /\ SameEnd(v, g, Len(v)) /\ SameStart(g, IndicatorFrame(c), end)
<1> DEFINE d == Prefix(c, end)
           g == IndicatorFrame(d)
           f == IndicatorFrame(c)
           v == Ending(f, end, rows)
           m == Smaller(end, rows)
<1>1. end \in Nat /\ Len(c) \in Nat /\ end <= Len(c)
  BY LenProperties
<1>2. d \in Seq(CandleRows) /\ Len(d) = end /\ \A i \in 1..end : d[i] = c[i]
  BY PrefixProperties
<1> HIDE DEF d
<1>3. SameStart(d, c, end)
  BY <1>2 DEF SameStart
<1>4. SameStart(g, f, end) /\ Len(g) = end
  BY <1>2, <1>3, FramesAgree, FrameRows
<1> HIDE DEF f, g
<1>5. Len(v) = m /\ \A i \in 1..m : v[i] = f[(end - m) + i]
  BY ZenonT(40), <1>1, EndingRows
<1>6. m \in Nat /\ m <= end
  BY <1>1 DEF Smaller
<1> HIDE DEF v, m
<1>7. SameEnd(v, g, m)
  <2> SUFFICES ASSUME NEW i \in Nat, i < m PROVE v[m - i] = g[end - i]
    BY <1>1, <1>4, <1>5, <1>6 DEF SameEnd
  <2> PICK j \in 1..m : j = m - i
    BY <1>6
  <2>1. (end - m) + j = end - i /\ end - i \in Nat /\ 1 <= end - i /\ end - i <= end
    BY <1>1, <1>6
  <2>2. g[end - i] = f[end - i]
    BY <1>4, <2>1 DEF SameStart
  <2> QED BY <1>5, <2>1, <2>2
<1> QED BY <1>2, <1>4, <1>5, <1>7 DEF d, g, f, v, m

\* An eligible setup names the hour its pullback began with, or no hour.
LEMMA EpisodeIsATime ==
  ASSUME Inputs, NEW ends, ends.hour \in 0..Len(market.hour.c),
         WindowedSetup(ends).status # "NOT_READY", WindowedSetup(ends).eligible
  PROVE  WindowedSetup(ends).hourly.episode \in Int
<1> DEFINE s == WindowedSetup(ends)
           c == market.hour.c
<1>1. s.status = "ONE_HOUR_EVALUATED"
  BY EligibleHasADirection
<1>2. Episode(s) = s.hourly.episode
  BY <1>1 DEF Episode
<1>3. CASE Episode(s) = NaN
  BY <1>2, <1>3 DEF NaN
<1>4. CASE Episode(s) # NaN
  <2> DEFINE h == HourlyEpisode(c, market.hour.f, ends.hour, s.direction)
  <2>1. Episode(s) = h.episode /\ h.status = "EVALUATED" /\ h.episode # NaN
    BY <1>4, SetupEpisode
  <2>2. c \in Seq(CandleRows)
    BY InputsAreTyped
  <2>3. ends.hour \in Nat /\ ends.hour <= Len(c) /\ Len(c) \in Nat
    BY <2>2, LenProperties
  <2> HIDE DEF s, c
  <2>4. PICK g : RunStart(c, market.hour.f, g, ends.hour, s.direction) /\ h.episode = c[g].t
    BY <2>1, <2>3, EpisodeIsTheRun
  <2>5. g \in 1..Len(c)
    BY <2>3, <2>4 DEF RunStart
  <2>6. c[g].t \in Int
    BY <2>2, <2>5, CandlesAreTyped DEF Times
  <2> QED BY <1>2, <2>1, <2>4, <2>6 DEF s
<1> QED BY <1>3, <1>4

\* The trigger rules find the same structure in the pivots of the episode as in all.
LEMMA RecentPivotsSuffice ==
  ASSUME NEW c \in Seq(CandleRows), NEW f, \A i \in 1..Len(c) : f[i].atr \in Int,
         NEW step \in Nat \ {0}, ValidCandles(c, step),
         NEW p, p = ConfirmedPivots(c, f, step), NEW count \in 0..Len(p), NEW ctx, ctx.episode \in Int
  PROVE  SamePivots(PivotsSince(p, count, ctx.episode), Prefix(p, count), ctx)
<1>1. p \in Seq(PivotType)
  BY PivotsAreTyped
<1>2. PICK k \in 0..Len(p) : EarlierOnes(p, k, ctx.episode)
  BY EarlierPivots
<1>3. ASSUME NEW close
      PROVE  StructurePivot(PivotsSince(p, count, ctx.episode), ctx, close)
               = StructurePivot(Prefix(p, count), ctx, close)
  BY <1>1, <1>2, StructurePivotAgrees
<1> QED BY <1>3 DEF SamePivots

\* The zones a slot keeps of the pivots it sees.
LEMMA SlotKeepsZones ==
  ASSUME NEW p \in Seq(PivotType), NEW n \in 0..Len(p), NEW w
  PROVE  ZonesKept(ZonesOf(GrownZones(p, n), w[1].t), MergeZones(Prefix(p, n)), w)
<1>1. /\ ZonesOf(GrownZones(p, n), w[1].t) = {z \in MergeZones(Prefix(p, n)) : z.last >= w[1].t}
      /\ MergeZones(Prefix(p, n)) \subseteq ZoneType
  BY ZonesSince
<1> QED BY <1>1 DEF ZonesKept

\* The ends of the windows of a slot.
LEMMA EndsAreBounded ==
  ASSUME Inputs, NEW slot
  PROVE  /\ Ends(slot).four \in Nat /\ Ends(slot).day \in Nat
         /\ Ends(slot).hour \in 0..Len(market.hour.c) /\ Ends(slot).hour \in Nat
         /\ WindowedSetup(Ends(slot)) = SourceSetup(market, EndsOf(market, slot))
<1>1. /\ market.hour.c \in Seq(CandleRows) /\ market.four.c \in Seq(CandleRows)
      /\ market.day.c \in Seq(CandleRows)
  BY MarketAssumption DEF Inputs
<1>2. /\ VisibleEnd(market.hour.c, HourStep, slot) \in 0..Len(market.hour.c)
      /\ VisibleEnd(market.four.c, FourHourStep, slot) \in 0..Len(market.four.c)
      /\ VisibleEnd(market.day.c, DayStep, slot) \in 0..Len(market.day.c)
  BY <1>1, EndIsBounded
<1>3. /\ Ends(slot).four \in Nat /\ Ends(slot).day \in Nat
      /\ Ends(slot).hour \in 0..Len(market.hour.c) /\ Ends(slot).hour \in Nat
  BY <1>2 DEF Ends, EndsOf
<1>4. WindowedSetup(Ends(slot)) = SourceSetup(market, Ends(slot))
  BY <1>3, SetupsAgree
<1> QED BY <1>3, <1>4 DEF Ends

\* What an eligible slot decides from windows, a cached setup, a count of pivots and
\* grown zones is what the source decides from everything that has closed.
LEMMA EligibleAgrees ==
  ASSUME ScanInv, SetupEligible
  PROVE  AsSource(seen') = SourceSlot(market, at + 1)
<1> DEFINE slot == at + 1
           ends == Ends(slot)
           setup == CachedSetup(ends)
           c15 == market.c15
           hc == market.hour.c
           hf == market.hour.f
           end15 == VisibleEnd(c15, CandleStep, slot)
           count15 == VisiblePivots(pivots.m15, slot)
           count1h == VisiblePivots(pivots.h1, slot)
           w == Ending(c15, end15, TriggerBRows)
           v == Ending(frame15, end15, TriggerBRows)
           d == Prefix(c15, end15)
           g == IndicatorFrame(d)
           hw == Cut(market.hour, ends.hour, TargetRows1h)
           hd == Cut(market.hour, ends.hour, ends.hour)
           recent == PivotsSince(pivots.m15, count15, setup.hourly.episode)
           known == ConfirmedPivots(d, g, CandleStep)
           known1h == ConfirmedPivots(hd.c, hd.f, HourStep)
           some15 == ZonesOf(zones'.m15, w[1].t)
           some1h == ZonesOf(zones'.h1, hw.c[1].t)
           ctx == TriggerContext(setup, hd.f)
<1>1. /\ setup.status # "NOT_READY" /\ setup.eligible /\ Reach(setup)
      /\ seen' = Decide(market.rule, setup, w, v, recent, some15, hw, some1h, slot)
  BY DEF SetupEligible
<1>2. setup = WindowedSetup(ends) /\ setup = SourceSetup(market, EndsOf(market, slot))
  <2>1. setup = WindowedSetup(ends)
    BY CacheIsRight DEF ScanInv
  <2> HIDE DEF setup, slot
  <2>2. WindowedSetup(ends) = SourceSetup(market, EndsOf(market, slot))
    BY EndsAreBounded DEF ScanInv
  <2> QED BY <2>1, <2>2
<1>3. /\ c15 \in Seq(CandleRows) /\ hc \in Seq(CandleRows) /\ hf \in Seq(IndicatorRows) /\ Len(hf) = Len(hc)
      /\ Len(frame15) = Len(c15) /\ \A i \in 1..Len(c15) : frame15[i].atr \in Int
      /\ pivots.m15 \in Seq(PivotType) /\ pivots.h1 \in Seq(PivotType)
  BY InputsAreTyped DEF ScanInv
<1>4. /\ ValidCandles(c15, CandleStep) /\ ValidCandles(hc, HourStep) /\ frame15 = IndicatorFrame(c15)
      /\ pivots.m15 = ConfirmedPivots(c15, frame15, CandleStep)
      /\ pivots.h1 = ConfirmedPivots(hc, hf, HourStep)
  BY DEF ScanInv, Inputs
<1>5. \A i \in 1..Len(hc) : hf[i].atr \in Int
  <2>1. \A i \in 1..Len(hc) : hf[i] \in IndicatorRows
    BY <1>3, ElementOfSeq
  <2> QED BY <2>1 DEF IndicatorRows
<1>6. /\ slot \in Int /\ CandleStep \in Nat \ {0} /\ HourStep \in Nat \ {0}
      /\ TriggerBRows \in Nat \ {0} /\ TargetRows1h \in Nat \ {0}
  BY SlotAssumption, PlanAssumption, TriggerAssumption DEF CandleStep, ScanInv
<1>7. /\ count15 \in 0..Len(pivots.m15) /\ count1h \in 0..Len(pivots.h1)
      /\ zones'.m15 = GrownZones(pivots.m15, count15) /\ zones'.h1 = GrownZones(pivots.h1, count1h)
  BY SlotGrowsTheZones DEF ScanInv
<1>8. ends.hour = VisibleEnd(hc, HourStep, slot)
  BY DEF Ends, EndsOf
<1>9. ends.hour \in 0..Len(hc) /\ ends.hour \in Nat /\ setup.hourly.episode \in Int
  <2> HIDE DEF slot, setup
  <2>1. ends.hour \in 0..Len(hc) /\ ends.hour \in Nat
    BY EndsAreBounded DEF ScanInv
  <2> HIDE DEF ends
  <2> QED BY <1>1, <1>2, <2>1, EpisodeIsATime DEF ScanInv
<1>10. hd.c = Prefix(hc, ends.hour) /\ hd.f = Prefix(hf, ends.hour)
      /\ hw.c = Ending(hc, ends.hour, TargetRows1h) /\ hw.f = Ending(hf, ends.hour, TargetRows1h)
      /\ hd.f = Ending(hf, ends.hour, ends.hour)
  <2>1. \A n, rows : /\ Cut(market.hour, n, rows).c = Ending(hc, n, rows)
                     /\ Cut(market.hour, n, rows).f = Ending(hf, n, rows)
    BY DEF Cut
  <2>2. \A s : \A n \in Nat : Prefix(s, n) = Ending(s, n, n)
    BY DEF Prefix, Ending
  <2> HIDE DEF hc, hf, ends
  <2> QED BY <1>9, <2>1, <2>2
<1>11. end15 \in 0..Len(c15)
  BY <1>3, EndIsBounded
<1>12. SourceSlot(market, slot)
         = AsSource(Decide(market.rule, setup, d, g, known, MergeZones(known), hd, MergeZones(known1h), slot))
  <2>1. EndsOf(market, slot) = ends
    BY DEF Ends
  <2> HIDE DEF setup, ends, slot
  <2> QED BY <1>1, <1>2, <2>1 DEF SourceSlot
<1> HIDE DEF slot, setup, ends, c15, hc, hf, end15, count15, count1h, w, v, d, g, hw, hd, recent, known, known1h,
             some15, some1h
<1>13. WindowOf(w, d, TriggerBRows, CandleStep) /\ WindowOf(hw.c, hd.c, TargetRows1h, HourStep)
  BY <1>3, <1>4, <1>6, <1>9, <1>10, <1>11, SlotWindow DEF w, d
<1>14. /\ Len(g) = Len(d) /\ SameEnd(v, g, Len(w)) /\ Len(v) = Len(w)
       /\ SameStart(g, frame15, end15)
  <2>1. /\ Len(g) = Len(d) /\ Len(v) = Smaller(end15, TriggerBRows) /\ Len(d) = end15
        /\ SameEnd(v, g, Len(v)) /\ SameStart(g, frame15, end15)
    BY <1>3, <1>4, <1>6, <1>11, FrameWindow DEF d, g, v
  <2>2. Len(w) = Smaller(Len(d), TriggerBRows)
    BY <1>13 DEF WindowOf
  <2> QED BY <2>1, <2>2
<1>15. Latest(hw.f) = Latest(hd.f)
  BY <1>6, <1>9, <1>10, WindowIsATail
<1>16. known = Prefix(pivots.m15, count15)
  <2> DEFINE p == pivots.m15
  <2>1. p = ConfirmedPivots(c15, frame15, CandleStep)
    BY <1>4
  <2>2. end15 = VisibleEnd(c15, CandleStep, slot)
    BY DEF end15
  <2> HIDE DEF p
  <2>3. ConfirmedPivots(Prefix(c15, end15), g, CandleStep) = Prefix(p, VisiblePivots(p, slot))
    <3>1. \A i \in 1..Len(c15) : frame15[i].atr \in Int
      BY <1>3
    <3>2. c15 \in Seq(CandleRows) /\ ValidCandles(c15, CandleStep) /\ CandleStep \in Nat \ {0} /\ slot \in Int
      BY <1>3, <1>4, <1>6
    <3>3. SameStart(g, frame15, end15)
      BY <1>14
    <3> QED BY <2>1, <2>2, <3>1, <3>2, <3>3, SlotPivots
  <2> QED BY <2>3 DEF known, d, count15, p
<1>17. known1h = Prefix(pivots.h1, count1h)
  <2>1. SameStart(hd.f, hf, ends.hour)
    <3>1. \A i \in 1..ends.hour : Prefix(hf, ends.hour)[i] = hf[i]
      BY ZenonT(40), <1>3, <1>9, PrefixProperties
    <3> QED BY <1>9, <1>10, <3>1 DEF SameStart
  <2> DEFINE p == pivots.h1
             e == ends.hour
             h == hd.f
  <2>2. p = ConfirmedPivots(hc, hf, HourStep) /\ e = VisibleEnd(hc, HourStep, slot) /\ SameStart(h, hf, e)
    BY <1>4, <1>8, <2>1
  <2>3. hd.c = Prefix(hc, e)
    BY <1>10
  <2> HIDE DEF p, e, h
  <2>4. ConfirmedPivots(Prefix(hc, e), h, HourStep) = Prefix(p, VisiblePivots(p, slot))
    <3>1. hc \in Seq(CandleRows) /\ ValidCandles(hc, HourStep) /\ HourStep \in Nat \ {0} /\ slot \in Int
      BY <1>3, <1>4, <1>6
    <3> QED BY <1>5, <2>2, <3>1, SlotPivots
  <2> QED BY <2>3, <2>4 DEF known1h, count1h, p, h
<1>18. ZonesKept(some15, MergeZones(known), w)
  BY <1>3, <1>7, <1>16, SlotKeepsZones DEF some15
<1>19. ZonesKept(some1h, MergeZones(known1h), hw.c)
  BY <1>3, <1>7, <1>17, SlotKeepsZones DEF some1h
<1>20. SamePivots(recent, known, ctx)
  <2>1. ctx.episode = setup.hourly.episode
    BY DEF TriggerContext
  <2> HIDE DEF ctx
  <2>2. recent = PivotsSince(pivots.m15, count15, ctx.episode)
    BY <2>1 DEF recent
  <2> QED BY <1>3, <1>4, <1>6, <1>7, <1>9, <1>16, <2>1, <2>2, RecentPivotsSuffice
<1> DEFINE rule == market.rule
           all15 == MergeZones(known)
           all1h == MergeZones(known1h)
<1> HIDE DEF rule, all15, all1h
<1>21. Decide(rule, setup, w, v, recent, some15, hw, some1h, slot)
         = Decide(rule, setup, d, g, known, all15, hd, all1h, slot)
  <2>1. ZonesKept(some15, all15, w) /\ ZonesKept(some1h, all1h, hw.c)
    BY <1>18, <1>19 DEF all15, all1h
  <2> QED BY <1>13, <1>14, <1>15, <1>20, <2>1, DecisionsAgree
<1>22. AsSource(seen') = SourceSlot(market, slot)
  BY <1>1, <1>12, <1>21 DEF rule, all15, all1h
<1> QED BY <1>22 DEF slot

\* A setup that raises is not eligible.
LEMMA RaisesIsRefused ==
  ASSUME NEW ends, WindowedSetup(ends).status = "RAISES"
  PROVE  ~WindowedSetup(ends).eligible
<1>1. \A four, day, hourly : SetupOf(four, day, hourly).status = "RAISES" =>
         SetupOf(four, day, hourly) = Refused
  BY DEF SetupOf, NotReady, Failed, Skipped
<1>2. WindowedSetup(ends) = Refused
  BY <1>1 DEF WindowedSetup
<1> QED BY <1>2 DEF Refused

\* Every step keeps the scan and the source in agreement.
LEMMA DecisionsStayRight ==
  ASSUME ScanInv, ScanDecidesAsTheSource, [Next]_vars
  PROVE  ScanDecidesAsTheSource'
<1>1. ASSUME NEW setup, setup = CachedSetup(Ends(at + 1)), Reach(setup)
      PROVE  /\ setup = SourceSetup(market, EndsOf(market, at + 1)) /\ setup = WindowedSetup(Ends(at + 1))
             /\ at' = at + 1 /\ market' = market
  <2>1. setup = WindowedSetup(Ends(at + 1))
    BY <1>1, CacheIsRight DEF ScanInv
  <2>2. WindowedSetup(Ends(at + 1)) = SourceSetup(market, EndsOf(market, at + 1))
    BY EndsAreBounded DEF ScanInv
  <2>3. at' = at + 1 /\ market' = market
    BY <1>1 DEF Reach, Reaches, inputs
  <2> QED BY <2>1, <2>2, <2>3
<1>2. \A m, slot : SourceSetup(m, EndsOf(m, slot)).status = "NOT_READY" => SourceSlot(m, slot) = NotReady
  BY DEF SourceSlot
<1>3. \A m, slot : LET s == SourceSetup(m, EndsOf(m, slot))
                   IN  s.status # "NOT_READY" /\ ~s.eligible => SourceSlot(m, slot) = [status |-> s.status]
  BY DEF SourceSlot
<1>4. CASE SetupNotReady
  <2>1. PICK setup : /\ setup = CachedSetup(Ends(at + 1)) /\ setup.status = "NOT_READY"
                     /\ Reach(setup) /\ seen' = NotReady
    BY <1>4 DEF SetupNotReady
  <2>2. SourceSlot(market, at + 1) = NotReady
    BY <1>1, <1>2, <2>1
  <2>3. AsSource(NotReady) = NotReady
    BY DEF AsSource, NotReady
  <2>4. at' = at + 1 /\ market' = market
    BY <1>1, <2>1
  <2> QED BY <2>1, <2>2, <2>3, <2>4 DEF ScanDecidesAsTheSource
<1>5. CASE SetupIneligible
  <2>1. PICK setup : /\ setup = CachedSetup(Ends(at + 1)) /\ setup.status # "NOT_READY" /\ ~setup.eligible
                     /\ Reach(setup) /\ seen' = [status |-> setup.status]
    BY <1>5 DEF SetupIneligible
  <2>2. SourceSlot(market, at + 1) = seen'
    BY <1>1, <1>3, <2>1
  <2>3. AsSource(seen') = seen'
    <3>1. setup.status # "REJECTED_REQUEST_BOUNDARY"
      BY <1>1, <2>1, SetupStatuses
    <3> QED BY <2>1, <3>1 DEF AsSource
  <2>4. at' = at + 1 /\ market' = market
    BY <1>1, <2>1
  <2> QED BY <2>2, <2>3, <2>4 DEF ScanDecidesAsTheSource
<1>6. CASE SetupEligible
  <2>1. AsSource(seen') = SourceSlot(market, at + 1)
    BY <1>6, EligibleAgrees
  <2>2. at' = at + 1 /\ market' = market
    BY <1>6 DEF SetupEligible, Reach, Reaches, inputs
  <2> QED BY <2>1, <2>2 DEF ScanDecidesAsTheSource
<1>7. CASE NotAMember
  BY <1>7 DEF NotAMember, ScanDecidesAsTheSource
<1>8. CASE UNCHANGED vars
  BY <1>8 DEF vars, ScanDecidesAsTheSource
<1>9. CASE SetupRaises
  <2> DEFINE setup == WindowedSetup(Ends(at + 1))
  <2>1. setup = CachedSetup(Ends(at + 1)) /\ setup = SourceSetup(market, EndsOf(market, at + 1))
    BY CacheIsRight, EndsAreBounded DEF ScanInv
  <2>2. /\ CachedSetup(Ends(at + 1)).status = "RAISES" /\ seen' = [status |-> "RAISES"]
        /\ at' = at + 1 /\ market' = market
    BY <1>9 DEF SetupRaises, Reaches, inputs
  <2>3. ~setup.eligible
    BY <2>1, <2>2, RaisesIsRefused
  <2>4. SourceSlot(market, at + 1) = seen'
    BY <1>3, <2>1, <2>2, <2>3
  <2>5. AsSource(seen') = seen'
    BY <2>2 DEF AsSource
  <2> QED BY <2>2, <2>4, <2>5 DEF ScanDecidesAsTheSource
<1> QED BY <1>4, <1>5, <1>6, <1>7, <1>8, <1>9 DEF Next

\* Whatever the market, every slot of the batch scan decides what the evaluation of the
\* slot alone decides from all that has closed: no window of rows is too short, no cached
\* setup is stale, no pivot or zone is missing or early, and nothing looks ahead.
THEOREM ScanAgreesWithTheSource == Spec => []ScanDecidesAsTheSource
<1>1. Init => ScanDecidesAsTheSource
  BY DEF Init, ScanDecidesAsTheSource
<1> QED BY <1>1, DecisionsStayRight, ScanInvHolds, PTL DEF Spec
=============================================================================
