---------------------------- MODULE EventReplay ----------------------------
(***************************************************************************)
(* The event-driven replay of one signal over closed one-minute candles:   *)
(* replay_armed and replay_trade of backtest/replay.py, driven the way     *)
(* replay_with_costs of backtest/costs.py drives them (cost-aware          *)
(* breakeven, deadline comparison at the rates of the cost scenario).      *)
(*                                                                         *)
(* A step reads the next candle or handles the candle that was read.       *)
(* Prices are integers, times are ticks (Minute of them in a candle), and  *)
(* quantity fractions are counted in halves of the position.               *)
(***************************************************************************)
EXTENDS ReplayEvents, FiniteSets

CONSTANTS
  Direction,          \* "LONG" or "SHORT"
  EntryPrice, InvalidationPrice, StopPrice, Tp1, Tp2,
  ATR, TickSize,
  ConfirmationClose, ExpiresAt,
  MaxHoldingBars,
  Minute,             \* ticks in a one-minute candle
  Bar,                \* ticks in a fifteen-minute bar
  FeeRate, SlippageRate, RateUnit,   \* rates as fractions of RateUnit
  Candles,            \* the candles the market may produce
  DataEnds            \* open times at which the supplied data may end

NoCandle == [open |-> -1, high |-> -1, low |-> -1, complete |-> FALSE, trades |-> << >>]
NoEntry == [price |-> 0, time |-> NoTime, candleOpen |-> NoTime,
            source |-> "KLINE_1M", ref |-> 0, stopAlso |-> FALSE]

Long == Direction = "LONG"

\* What replay_trade accepts as a candle with its optional batch. An incomplete
\* batch is treated as an absent one; trades are in (trade_time, id) order, and
\* "at" is the offset from the open of the candle.
WellFormed(c) ==
  /\ c.open \in Nat /\ c.high \in Nat /\ c.low \in Nat /\ c.complete \in BOOLEAN
  /\ c.trades \in Seq([at : 0 .. Minute - 1, price : Nat])
  /\ c.low <= c.open /\ c.open <= c.high
  /\ ~c.complete => c.trades = << >>
  /\ \A i, j \in 1 .. Len(c.trades) : i <= j => c.trades[i].at <= c.trades[j].at
  /\ \A i \in 1 .. Len(c.trades) :
        c.low <= c.trades[i].price /\ c.trades[i].price <= c.high
  /\ c.trades # << >> =>
        /\ c.trades[1].price = c.open
        /\ \E i \in 1 .. Len(c.trades) : c.trades[i].price = c.high
        /\ \E i \in 1 .. Len(c.trades) : c.trades[i].price = c.low
  /\ c.complete /\ c.trades = << >> => c.low = c.high

ASSUME DirectionAssumption == Direction \in {"LONG", "SHORT"}
ASSUME PriceAssumption ==
  /\ EntryPrice \in Nat /\ InvalidationPrice \in Nat /\ StopPrice \in Nat
  /\ Tp1 \in Nat /\ Tp2 \in Nat /\ ATR \in Nat /\ TickSize \in Nat \ {0}
  /\ IF Long THEN StopPrice < EntryPrice /\ EntryPrice < Tp1 /\ Tp1 < Tp2
             ELSE StopPrice > EntryPrice /\ EntryPrice > Tp1 /\ Tp1 > Tp2
ASSUME TimeAssumption ==
  /\ Minute \in Nat \ {0} /\ Bar \in Nat \ {0} /\ Bar % Minute = 0
  /\ MaxHoldingBars \in Nat \ {0}
  /\ ConfirmationClose \in Nat /\ ExpiresAt \in Nat
  /\ ConfirmationClose % Minute = 0 /\ ExpiresAt % Minute = 0
  /\ ConfirmationClose <= ExpiresAt
ASSUME RateAssumption ==
  /\ RateUnit \in Nat \ {0}
  /\ FeeRate \in 0 .. RateUnit - 1 /\ SlippageRate \in 0 .. RateUnit - 1
ASSUME CandleAssumption == \A c \in Candles : WellFormed(c)
ASSUME DataAssumption == DataEnds \subseteq Nat

VARIABLES
  now,               \* open time of the current candle
  dataEnd,           \* where the supplied candles end
  candle,            \* the candle being handled, NoCandle between candles
  stage,             \* "ARMED", "ENTERED", "HOLDING", "RETURNED" or "RAISED"
  signal,            \* ArmedState
  entry,             \* entry facts of ArmedReplayResult
  position,          \* PositionState, "NONE" before a trade exists
  openFraction,
  breakeven,
  activation,        \* breakeven activation time, NoTime for None
  breakevenActive,
  events,
  exitReason,
  fallback,          \* ohlc_fallback_count > 0
  aggregateUsed

vars == <<now, dataEnd, candle, stage, signal, entry, position, openFraction, breakeven,
          activation, breakevenActive, events, exitReason, fallback, aggregateUsed>>

----------------------------------------------------------------------------
(* Prices and levels *)

Reaches(price, level) == IF Long THEN price >= level ELSE price <= level
FallsTo(price, level) == IF Long THEN price <= level ELSE price >= level

Favorable(c) == IF Long THEN c.high ELSE c.low
Adverse(c) == IF Long THEN c.low ELSE c.high

Distance(a, b) == IF a >= b THEN a - b ELSE b - a

GapEntry(c) == Reaches(c.open, EntryPrice)
GapTooLarge(c) == 20 * Distance(c.open, EntryPrice) > 3 * ATR

CeilToTick(num, den) == ((num + den * TickSize - 1) \div (den * TickSize)) * TickSize

\* Faulty: rounds the SHORT breakeven up.
FloorToTickFaulty(num, den) == ((num + den * TickSize - 1) \div (den * TickSize)) * TickSize

FloorToTick(num, den) == (num \div (den * TickSize)) * TickSize

CostAwareBreakeven(theoretical) ==
  IF Long
  THEN CeilToTick(theoretical * (RateUnit + SlippageRate) * (RateUnit + FeeRate),
                  (RateUnit - SlippageRate) * (RateUnit - FeeRate))
  ELSE FloorToTick(theoretical * (RateUnit - SlippageRate) * (RateUnit - FeeRate),
                   (RateUnit + SlippageRate) * (RateUnit + FeeRate))

\* "request.breakeven_price or entry_price": a zero price is falsy.
BreakevenFor(theoretical) ==
  IF CostAwareBreakeven(theoretical) = 0 THEN theoretical ELSE CostAwareBreakeven(theoretical)

BreakevenOrdered(be) ==
  IF Long THEN StopPrice < be /\ be < Tp2 ELSE StopPrice > be /\ be > Tp2

Deadline == (entry.time \div Bar) * Bar + Bar * MaxHoldingBars

----------------------------------------------------------------------------
(* Events *)

KlineEvent(type, reason, price, fraction) ==
  Event(type, now, "KLINE_1M", now, reason, price, fraction)

TradeEvent(type, i, reason, price, fraction) ==
  Event(type, now + candle.trades[i].at, "AGG_TRADE", i, reason, price, fraction)

ClosedAfter(fill) == [fill EXCEPT !.type = "CLOSED", !.fraction = 0]

EntryFillOf(e, reason) ==
  Event("ENTRY_FILL", e.time, e.source, e.ref, reason, e.price, Full)

----------------------------------------------------------------------------
(* The fills one candle causes to an open position *)

TradePrice(i) == candle.trades[i].price

\* The first of a set of trade positions, 0 when there is none.
First(S) == IF S = {} THEN 0 ELSE CHOOSE i \in S : \A j \in S : i <= j

ProtectiveStop == IF breakevenActive THEN breakeven ELSE StopPrice

ProtectiveReason == IF breakevenActive THEN "BREAKEVEN_STOP" ELSE "INITIAL_STOP"

\* Faulty: the second exit takes the full quantity again.
HalfTradePathFaulty(from) ==
  LET i == First({k \in from .. Len(candle.trades) :
                    FallsTo(TradePrice(k), ProtectiveStop) \/ Reaches(TradePrice(k), Tp2)})
  IN  IF i = 0 THEN << >>
      ELSE IF FallsTo(TradePrice(i), ProtectiveStop)
           THEN << TradeEvent("STOP_FILL", i, ProtectiveReason, ProtectiveStop, Full) >>
           ELSE << TradeEvent("TP2_FILL", i, "TP2_TARGET", Tp2, Full) >>

HalfTradePath(from) ==
  LET i == First({k \in from .. Len(candle.trades) :
                    FallsTo(TradePrice(k), ProtectiveStop) \/ Reaches(TradePrice(k), Tp2)})
  IN  IF i = 0 THEN << >>
      ELSE IF FallsTo(TradePrice(i), ProtectiveStop)
           THEN << TradeEvent("STOP_FILL", i, ProtectiveReason, ProtectiveStop, Half) >>
           ELSE << TradeEvent("TP2_FILL", i, "TP2_TARGET", Tp2, Half) >>

FullTradePath(from) ==
  LET i == First({k \in from .. Len(candle.trades) :
                    FallsTo(TradePrice(k), StopPrice) \/ Reaches(TradePrice(k), Tp1)})
      tp1 == << TradeEvent("TP1_FILL", i, "TP1_TARGET", Tp1, Half) >>
  IN  IF i = 0 THEN << >>
      ELSE IF FallsTo(TradePrice(i), StopPrice)
           THEN << TradeEvent("STOP_FILL", i, "INITIAL_STOP", StopPrice, Full) >>
      ELSE IF Reaches(TradePrice(i), Tp2)
           THEN tp1 \o << TradeEvent("TP2_FILL", i, "TP2_TARGET", Tp2, Half) >>
           ELSE tp1 \o HalfTradePath(i + 1)

TradePath(from) == IF position = "FULL" THEN FullTradePath(from) ELSE HalfTradePath(from)

StopTouched == FallsTo(Adverse(candle), StopPrice)
Tp1Touched == Reaches(Favorable(candle), Tp1)
Tp2Touched == Reaches(Favorable(candle), Tp2)

KlineStop(level, reason, fraction) == << KlineEvent("STOP_FILL", reason, level, fraction) >>
KlineTp1 == << KlineEvent("TP1_FILL", "TP1_TARGET", Tp1, Half) >>
KlineTp2 == << KlineEvent("TP2_FILL", "TP2_TARGET", Tp2, Half) >>

OnEntryCandle == now = entry.candleOpen

OhlcPath ==
  IF position = "FULL"
  THEN IF StopTouched \/ (OnEntryCandle /\ entry.stopAlso)
       THEN KlineStop(StopPrice, "INITIAL_STOP", Full)
       ELSE IF Tp1Touched
            THEN IF Tp2Touched THEN KlineTp1 \o KlineTp2 ELSE KlineTp1
            ELSE << >>
  ELSE IF breakevenActive /\ FallsTo(Adverse(candle), breakeven)
       THEN KlineStop(breakeven, "BREAKEVEN_STOP", Half)
       ELSE IF Tp2Touched THEN KlineTp2 ELSE << >>

\* Trades of the entry candle count only after the entry itself.
TradesFrom == IF OnEntryCandle /\ entry.source = "AGG_TRADE" THEN entry.ref + 1 ELSE 1

CandlePath == IF candle.complete THEN TradePath(TradesFrom) ELSE OhlcPath

Closes(path) == path # << >> /\ IsTerminal(path[Len(path)])

\* The risk exit of the deadline candle: a path that closes, or << >> for None.
DeadlineOhlcPath ==
  IF position = "FULL"
  THEN IF StopTouched THEN KlineStop(StopPrice, "INITIAL_STOP", Full)
       ELSE IF Tp1Touched /\ Tp2Touched THEN KlineTp1 \o KlineTp2 ELSE << >>
  ELSE IF FallsTo(Adverse(candle), ProtectiveStop)
       THEN KlineStop(ProtectiveStop, ProtectiveReason, Half)
       ELSE IF Tp2Touched THEN KlineTp2 ELSE << >>

DeadlineRiskPath ==
  IF ~candle.complete THEN DeadlineOhlcPath
  ELSE IF Closes(TradePath(1)) THEN TradePath(1) ELSE << >>

FillCashflow(fill) ==
  IF Long
  THEN fill.price * fill.fraction * (RateUnit - SlippageRate) * (RateUnit - FeeRate)
  ELSE -(fill.price * fill.fraction * (RateUnit + SlippageRate) * (RateUnit + FeeRate))

\* A path has at most two fills.
ExitCashflow(path) ==
  IF Len(path) = 1 THEN FillCashflow(path[1])
  ELSE FillCashflow(path[1]) + FillCashflow(path[2])

TimeExit == << KlineEvent("TIME_EXIT", "MAX_HOLDING_REACHED", candle.open, openFraction) >>

\* Faulty: takes the better of the two exits.
DeadlinePathFaulty ==
  IF DeadlineRiskPath # << >> /\ ExitCashflow(DeadlineRiskPath) >= ExitCashflow(TimeExit)
  THEN DeadlineRiskPath
  ELSE TimeExit

DeadlinePath ==
  IF DeadlineRiskPath # << >> /\ ExitCashflow(DeadlineRiskPath) <= ExitCashflow(TimeExit)
  THEN DeadlineRiskPath
  ELSE TimeExit

\* Faulty: a breakeven exit is classified as a stop loss.
ExitReasonOfFaulty(fill) ==
  CASE fill.reason \in {"INITIAL_STOP", "BREAKEVEN_STOP"} -> "SL"
    [] fill.reason = "TP2_TARGET" -> "TP2"
    [] OTHER -> "TIME_EXIT"

ExitReasonOf(fill) ==
  CASE fill.reason = "INITIAL_STOP" -> "SL"
    [] fill.reason = "BREAKEVEN_STOP" -> "BREAKEVEN_AFTER_TP1"
    [] fill.reason = "TP2_TARGET" -> "TP2"
    [] OTHER -> "TIME_EXIT"

----------------------------------------------------------------------------
(* Actions *)

ReadCandle ==
  /\ stage \in {"ARMED", "HOLDING"} /\ candle = NoCandle /\ now < dataEnd
  /\ candle' \in Candles
  /\ UNCHANGED <<now, dataEnd, stage, signal, entry, position, openFraction, breakeven,
                 activation, breakevenActive, events, exitReason, fallback, aggregateUsed>>

NextMinute == candle' = NoCandle /\ now' = now + Minute

DataExhausted ==
  /\ stage \in {"ARMED", "HOLDING"} /\ candle = NoCandle /\ now >= dataEnd
  /\ stage' = "RETURNED"
  /\ UNCHANGED <<now, dataEnd, candle, signal, entry, position, openFraction, breakeven,
                 activation, breakevenActive, events, exitReason, fallback, aggregateUsed>>

Scanning == stage = "ARMED" /\ candle # NoCandle

InWindow == Scanning /\ ConfirmationClose <= now /\ now < ExpiresAt

\* The counters of the candle that is handled inside the entry window.
CountCandle ==
  /\ fallback' = (fallback \/ ~candle.complete)
  /\ aggregateUsed' = (aggregateUsed \/ candle.complete)

TradeUnchanged ==
  UNCHANGED <<dataEnd, position, openFraction, breakeven, activation, breakevenActive, exitReason>>

SkipEarlyCandle ==
  /\ Scanning /\ now < ConfirmationClose
  /\ NextMinute
  /\ UNCHANGED <<stage, signal, entry, events, fallback, aggregateUsed>> /\ TradeUnchanged

\* A pre-trade terminal result: replay_armed returns it.
EndArmed(state, event) ==
  /\ signal' = state
  /\ events' = Append(events, event)
  /\ stage' = "RETURNED" /\ candle' = NoCandle
  /\ UNCHANGED <<now, entry>> /\ TradeUnchanged

Expire ==
  /\ Scanning /\ now >= ConfirmationClose /\ now >= ExpiresAt
  /\ EndArmed("EXPIRED", Event("EXPIRED", ExpiresAt, "KLINE_1M", ExpiresAt,
                               "ENTRY_WINDOW_EXPIRED", 0, 0))
  /\ UNCHANGED <<fallback, aggregateUsed>>

Miss ==
  /\ InWindow /\ GapEntry(candle) /\ GapTooLarge(candle)
  /\ EndArmed("MISSED", KlineEvent("MISSED", "ENTRY_GAP_TOO_LARGE", 0, 0))
  /\ CountCandle

Trigger(e, reason) ==
  /\ signal' = "TRIGGERED" /\ entry' = e
  /\ events' = Append(events, EntryFillOf(e, reason))
  /\ stage' = "ENTERED"
  /\ UNCHANGED <<now, candle>> /\ TradeUnchanged

PassArmed == NextMinute /\ UNCHANGED <<stage, signal, entry, events>> /\ TradeUnchanged

\* Without a gap, the trades of a complete batch decide; OHLC is not consulted.
ByTrades == InWindow /\ candle.complete /\ ~GapEntry(candle)
DecisiveTrade ==
  First({i \in 1 .. Len(candle.trades) :
           Reaches(TradePrice(i), EntryPrice) \/ FallsTo(TradePrice(i), InvalidationPrice)})

EnterOnTrade ==
  /\ ByTrades /\ DecisiveTrade # 0 /\ Reaches(TradePrice(DecisiveTrade), EntryPrice)
  /\ Trigger([price |-> EntryPrice, time |-> now + candle.trades[DecisiveTrade].at,
              candleOpen |-> now, source |-> "AGG_TRADE", ref |-> DecisiveTrade,
              stopAlso |-> FALSE],
             "ENTRY_NORMAL_CROSS")
  /\ CountCandle

InvalidateOnTrade ==
  /\ ByTrades /\ DecisiveTrade # 0 /\ ~Reaches(TradePrice(DecisiveTrade), EntryPrice)
  /\ EndArmed("INVALIDATED",
              TradeEvent("INVALIDATED", DecisiveTrade, "STRUCTURE_INVALIDATED_BEFORE_ENTRY", 0, 0))
  /\ CountCandle

PassTrades == ByTrades /\ DecisiveTrade = 0 /\ PassArmed /\ CountCandle

ByOhlc ==
  /\ InWindow /\ ~(candle.complete /\ ~GapEntry(candle))
  /\ ~(GapEntry(candle) /\ GapTooLarge(candle))
EntryTouched == Reaches(Favorable(candle), EntryPrice)
InvalidationTouched == FallsTo(Adverse(candle), InvalidationPrice)

EnterOnOhlc ==
  /\ ByOhlc /\ (GapEntry(candle) \/ EntryTouched)
  /\ Trigger([price |-> IF GapEntry(candle) THEN candle.open ELSE EntryPrice,
              time |-> now, candleOpen |-> now, source |-> "KLINE_1M", ref |-> now,
              stopAlso |-> InvalidationTouched],
             IF InvalidationTouched THEN "ENTRY_AND_INVALIDATION_SAME_CANDLE"
             ELSE IF GapEntry(candle) THEN "ENTRY_GAP_WITHIN_LIMIT"
             ELSE "ENTRY_NORMAL_CROSS")
  /\ CountCandle

InvalidateOnOhlc ==
  /\ ByOhlc /\ ~GapEntry(candle) /\ ~EntryTouched /\ InvalidationTouched
  /\ EndArmed("INVALIDATED",
              KlineEvent("INVALIDATED", "STRUCTURE_INVALIDATED_BEFORE_ENTRY", 0, 0))
  /\ CountCandle

PassOhlc ==
  /\ ByOhlc /\ ~GapEntry(candle) /\ ~EntryTouched /\ ~InvalidationTouched
  /\ PassArmed /\ CountCandle

\* replay_trade takes the trade over on the candle of the entry. Its
\* aggregate_used starts from the ordering source of the armed result.
StartTrade ==
  /\ stage = "ENTERED" /\ BreakevenOrdered(BreakevenFor(entry.price))
  /\ stage' = "HOLDING" /\ position' = "FULL" /\ openFraction' = Full
  /\ breakeven' = BreakevenFor(entry.price)
  /\ aggregateUsed' = (aggregateUsed /\ ~fallback)
  /\ UNCHANGED <<now, dataEnd, candle, signal, entry, activation, breakevenActive, events,
                 exitReason, fallback>>

\* ReplayInputError: the breakeven price is outside Stop and TP2. No result.
RejectBreakeven ==
  /\ stage = "ENTERED" /\ ~BreakevenOrdered(BreakevenFor(entry.price))
  /\ stage' = "RAISED" /\ candle' = NoCandle
  /\ UNCHANGED <<now, dataEnd, signal, entry, position, openFraction, breakeven, activation,
                 breakevenActive, events, exitReason, fallback, aggregateUsed>>

Holding == stage = "HOLDING" /\ candle # NoCandle

\* Faulty: the breakeven waits for a minute after the one it is due in.
ActivationDueFaulty == activation # NoTime /\ ~breakevenActive /\ now > activation

\* The head of the iteration: the breakeven scheduled by TP1 takes effect.
ActivationDue == activation # NoTime /\ ~breakevenActive /\ now >= activation

\* Faulty: the activation is not logged.
ActivateBreakevenFaulty ==
  /\ Holding /\ ActivationDue
  /\ breakevenActive' = TRUE
  /\ UNCHANGED <<now, dataEnd, candle, stage, signal, entry, position, openFraction, breakeven,
                 activation, events, exitReason, fallback, aggregateUsed>>

ActivateBreakeven ==
  /\ Holding /\ ActivationDue
  /\ events' = Append(events, Event("BREAKEVEN_ACTIVATED", activation, "KLINE_1M", activation,
                                    "BREAKEVEN_NEXT_MINUTE", breakeven, 0))
  /\ breakevenActive' = TRUE
  /\ UNCHANGED <<now, dataEnd, candle, stage, signal, entry, position, openFraction, breakeven,
                 activation, exitReason, fallback, aggregateUsed>>

\* Faulty: the minutes of the open trade that fall back to OHLC are not counted.
CountHeldFaulty == UNCHANGED <<fallback, aggregateUsed>>

\* The counters of a held candle; the entry candle was counted while ARMED.
CountHeld ==
  IF OnEntryCandle THEN UNCHANGED <<fallback, aggregateUsed>> ELSE CountCandle

Close(path) ==
  /\ events' = (events \o path) \o << ClosedAfter(path[Len(path)]) >>
  /\ position' = "FLAT" /\ openFraction' = 0
  /\ exitReason' = ExitReasonOf(path[Len(path)])
  /\ stage' = "RETURNED" /\ candle' = NoCandle
  /\ UNCHANGED <<now, dataEnd, signal, entry, breakeven, breakevenActive>>

\* Faulty: waits for a candle after the deadline.
ExitAtDeadlineFaulty ==
  /\ Holding /\ ~ActivationDue /\ now > Deadline
  /\ Close(DeadlinePath)
  /\ CountCandle
  /\ UNCHANGED activation

ExitAtDeadline ==
  /\ Holding /\ ~ActivationDue /\ now >= Deadline
  /\ Close(DeadlinePath)
  /\ CountCandle
  /\ UNCHANGED activation

\* Faulty: the deadline candle is handled like any other.
HandleCandleFaulty == Holding /\ ~ActivationDue /\ now <= Deadline

HandleCandle == Holding /\ ~ActivationDue /\ now < Deadline

CloseInCandle ==
  /\ HandleCandle /\ Closes(CandlePath)
  /\ Close(CandlePath)
  /\ activation' = IF Len(CandlePath) = 2 /\ CandlePath[1].ref # CandlePath[2].ref
                   THEN now + Minute ELSE activation
  /\ CountHeld

TakeProfitOne ==
  /\ HandleCandle /\ CandlePath # << >> /\ ~Closes(CandlePath)
  /\ events' = events \o CandlePath
  /\ position' = "HALF" /\ openFraction' = Half
  /\ activation' = now + Minute
  /\ NextMinute
  /\ CountHeld
  /\ UNCHANGED <<dataEnd, stage, signal, entry, breakeven, breakevenActive, exitReason>>

HoldOn ==
  /\ HandleCandle /\ CandlePath = << >>
  /\ NextMinute
  /\ CountHeld
  /\ UNCHANGED <<dataEnd, stage, signal, entry, position, openFraction, breakeven, activation,
                 breakevenActive, events, exitReason>>

----------------------------------------------------------------------------
Init ==
  /\ now = 0 /\ dataEnd \in DataEnds /\ candle = NoCandle
  /\ stage = "ARMED" /\ signal = "ARMED" /\ entry = NoEntry
  /\ position = "NONE" /\ openFraction = 0 /\ breakeven = 0
  /\ activation = NoTime /\ breakevenActive = FALSE
  /\ events = << >> /\ exitReason = "NONE"
  /\ fallback = FALSE /\ aggregateUsed = FALSE

ArmedStep ==
  \/ SkipEarlyCandle \/ Expire \/ Miss
  \/ EnterOnTrade \/ InvalidateOnTrade \/ PassTrades
  \/ EnterOnOhlc \/ InvalidateOnOhlc \/ PassOhlc

TradeStep ==
  \/ StartTrade \/ RejectBreakeven \/ ActivateBreakeven
  \/ ExitAtDeadline \/ CloseInCandle \/ TakeProfitOne \/ HoldOn

Next == ReadCandle \/ DataExhausted \/ ArmedStep \/ TradeStep

Spec == Init /\ [][Next]_vars

\* The two functions are loops over the supplied candles that nothing blocks.
FairSpec == Spec /\ WF_vars(Next)

----------------------------------------------------------------------------
(* Properties *)

EventTypes == {"ENTRY_FILL", "INVALIDATED", "MISSED", "EXPIRED", "TP1_FILL",
               "BREAKEVEN_ACTIVATED", "STOP_FILL", "TP2_FILL", "TIME_EXIT", "CLOSED"}
Sources == {"KLINE_1M", "AGG_TRADE"}
Reasons == {"ENTRY_NORMAL_CROSS", "ENTRY_GAP_WITHIN_LIMIT", "ENTRY_AND_INVALIDATION_SAME_CANDLE",
            "ENTRY_GAP_TOO_LARGE", "ENTRY_WINDOW_EXPIRED", "STRUCTURE_INVALIDATED_BEFORE_ENTRY",
            "INITIAL_STOP", "BREAKEVEN_STOP", "BREAKEVEN_NEXT_MINUTE", "TP1_TARGET",
            "TP2_TARGET", "MAX_HOLDING_REACHED"}
EventRecord == [type : EventTypes, time : Nat, source : Sources, ref : Nat,
                reason : Reasons, price : Nat, fraction : 0 .. Full]
EntryRecord == [price : Nat, time : Nat, candleOpen : Nat, source : Sources, ref : Nat,
                stopAlso : BOOLEAN]

\* Every variable stays in the range the code's fields have.
TypeOK ==
  /\ now \in Nat /\ dataEnd \in DataEnds
  /\ candle = NoCandle \/ WellFormed(candle)
  /\ stage \in {"ARMED", "ENTERED", "HOLDING", "RETURNED", "RAISED"}
  /\ signal \in {"ARMED", "TRIGGERED", "INVALIDATED", "MISSED", "EXPIRED"}
  /\ entry \in EntryRecord \cup {NoEntry}
  /\ position \in {"NONE", "FULL", "HALF", "FLAT"} /\ openFraction \in 0 .. Full
  /\ breakeven \in Nat /\ activation \in Nat \cup {NoTime} /\ breakevenActive \in BOOLEAN
  /\ events \in Seq(EventRecord)
  /\ exitReason \in {"NONE", "SL", "BREAKEVEN_AFTER_TP1", "TP2", "TIME_EXIT"}
  /\ fallback \in BOOLEAN /\ aggregateUsed \in BOOLEAN

Log == DOMAIN events
IsTp1(i) == events[i].type = "TP1_FILL"

\* The log is in exchange-time order, across candles and between the trades and
\* the minute-level events of one candle: reduce_event_log raises otherwise. A
\* closed trade ends in its terminal fill and a CLOSED event at the same time.
LogOrdered ==
  /\ \A i, j \in Log : i < j => events[i].time <= events[j].time
  /\ \A i \in Log : events[i].type = "CLOSED" <=> i > 1 /\ IsTerminal(events[i - 1])
                                                /\ i = Len(events)
  /\ \A i \in Log : events[i].type = "CLOSED" => events[i].time = events[i - 1].time

\* The exits add up to the position: TP1 takes half at most once, one terminal
\* fill takes exactly what is left, and the result's open_fraction and position
\* say the same as the log.
FillsBalance ==
  /\ \A i, j \in Log : IsTp1(i) /\ IsTp1(j) => i = j
  /\ \A i, j \in Log : IsTerminal(events[i]) /\ IsTerminal(events[j]) => i = j
  /\ \A j \in Log : IsTerminal(events[j]) =>
        events[j].fraction = IF \E i \in Log : i < j /\ IsTp1(i) THEN Half ELSE Full
  /\ position = "FLAT" <=> \E i \in Log : IsTerminal(events[i])
  /\ position \in {"FULL", "HALF"} =>
        openFraction = IF \E i \in Log : IsTp1(i) THEN Half ELSE Full
  /\ position = "FLAT" => openFraction = 0

\* A breakeven exit needs an activation, and the activation a TP1 of an earlier
\* minute: the minute of TP1 can never stop out its own remaining half at breakeven.
BreakevenNotEarly ==
  \A k \in Log : events[k].reason = "BREAKEVEN_STOP" =>
     \E i, j \in Log :
        /\ i < j /\ j < k /\ IsTp1(i) /\ events[j].type = "BREAKEVEN_ACTIVATED"
        /\ events[i].time < events[j].time /\ events[j].time % Minute = 0

\* The initial stop can take the remaining half only in the minute of TP1 itself;
\* from the next minute on the breakeven protects it.
HalfProtected ==
  /\ stage = "HOLDING" /\ position = "HALF" /\ candle = NoCandle =>
        breakevenActive \/ activation = now
  /\ \A j \in Log : events[j].reason = "INITIAL_STOP" /\ events[j].fraction = Half =>
        \E i \in Log : i < j /\ IsTp1(i) /\ events[i].time \div Minute = events[j].time \div Minute

\* The time limits: an entry lies inside [confirmation_close, expires_at), an open
\* trade never passes the deadline candle, TIME_EXIT happens exactly there, and
\* every other exit no later than in that minute.
ExitsByDeadline ==
  /\ \A i \in Log : events[i].type = "ENTRY_FILL" =>
        ConfirmationClose <= events[i].time /\ events[i].time < ExpiresAt
  /\ stage = "HOLDING" => now <= Deadline
  /\ \A i \in Log : IsTerminal(events[i]) =>
        /\ events[i].time < Deadline + Minute
        /\ events[i].type = "TIME_EXIT" => events[i].time = Deadline

\* The remaining half is protected from the minute after TP1: no earlier, no later.
ProtectedOnTime == BreakevenNotEarly /\ HalfProtected

\* The log tells the trade in exchange-time order and within its time limits.
EventsAreTimely == LogOrdered /\ ExitsByDeadline

\* The stop at breakeven pays for the entry and the exit of the remaining leg:
\* rounding to the tick never turns it into a loss before funding.
BreakevenCovers ==
  \A i \in Log : events[i].reason = "BREAKEVEN_STOP" =>
     IF Long
     THEN events[i].price * (RateUnit - SlippageRate) * (RateUnit - FeeRate)
            >= entry.price * (RateUnit + SlippageRate) * (RateUnit + FeeRate)
     ELSE events[i].price * (RateUnit + SlippageRate) * (RateUnit + FeeRate)
            <= entry.price * (RateUnit - SlippageRate) * (RateUnit - FeeRate)

OrderingSource == IF fallback \/ ~aggregateUsed THEN "OHLC_ADVERSE" ELSE "AGG_TRADES"

\* A result labelled AGG_TRADES has no exit and no crossing guessed from OHLC.
OrderingHonest ==
  stage = "RETURNED" /\ OrderingSource = "AGG_TRADES" =>
    \A i \in Log : events[i].source = "KLINE_1M" =>
       /\ events[i].type \notin {"STOP_FILL", "TP1_FILL", "TP2_FILL", "INVALIDATED"}
       /\ events[i].reason # "ENTRY_NORMAL_CROSS"

NewFills == {i \in DOMAIN events' \ Log : events'[i].type # "CLOSED"}
Value(fill) == fill.price * fill.fraction
NewValue ==
  IF Cardinality(NewFills) = 1
  THEN Value(events'[Len(events) + 1])
  ELSE Value(events'[Len(events) + 1]) + Value(events'[Len(events) + 2])

\* On the deadline candle the exit is never better than the exit at its open,
\* in theoretical prices too: costs cannot reverse the choice.
DeadlineTakesWorse ==
  [][stage = "HOLDING" /\ position' = "FLAT" /\ now >= Deadline
       => IF Long THEN NewValue <= candle.open * openFraction
                  ELSE NewValue >= candle.open * openFraction]_vars

\* Entry and invalidation in one minute without trades is a full stop-out at the
\* entry minute, never a lossless invalidation and never a held position.
SameCandleAdverse ==
  [][stage = "HOLDING" /\ OnEntryCandle /\ entry.stopAlso /\ ~candle.complete
       => /\ exitReason' = "SL" /\ openFraction' = 0
          /\ events'[Len(events) + 1].time = entry.time]_vars

\* What a minute leaves open is decided against the trade, at its entry and at
\* its deadline.
AmbiguityIsAdverse == DeadlineTakesWorse /\ SameCandleAdverse

Promise == INSTANCE SignalLifecycle WITH
  state <- IF position = "FLAT" THEN "CLOSED" ELSE signal,
  size <- IF signal = "TRIGGERED" /\ position = "NONE" THEN Full ELSE openFraction,
  protected <- breakevenActive,
  closedBy <- exitReason

\* Every run of the replay is a run of the life cycle tables of the decision
\* document: one terminal state, one path through the position sizes.
ImplementsLifecycle == Promise!Spec

\* With data past the deadline, every trade that is held gets closed.
TradesClose ==
  (stage = "HOLDING" /\ dataEnd > Deadline) ~> (position = "FLAT")
=============================================================================
