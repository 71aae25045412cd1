------------------------- MODULE EventReplay_proofs -------------------------
(***************************************************************************)
(* Proofs about EventReplay, for every plan, every set of candles, every   *)
(* tick, rate and holding limit the assumptions admit: the types, and what *)
(* the log tells, which gives the safety invariants of the model-checked   *)
(* runs and the refinement of SignalLifecycle, from one inductive          *)
(* invariant, Story. The last parts are about LateEntry, ReplayRecovery    *)
(* and FundingLedger, the consumers of the log, and rest on the same       *)
(* invariant.                                                              *)
(***************************************************************************)
EXTENDS ReplayRecovery, FundingLedger, SequenceTheorems, FoldTheorems

(* Smallest positions *)

LEMMA FirstIsSmallest ==
  ASSUME NEW S \in SUBSET Nat, First(S) # 0
  PROVE  First(S) \in S /\ \A j \in S : First(S) <= j
<1>1. S # {} /\ First(S) = CHOOSE i \in S : \A j \in S : i <= j
  BY DEF First
<1>2. \E i \in S : \A j \in S : i <= j
  BY <1>1, SmallestExists
<1> QED BY <1>1, <1>2

(* Candles *)

LEMMA CandleType ==
  ASSUME TypeOK, candle # NoCandle
  PROVE  /\ candle.open \in Nat /\ candle.high \in Nat /\ candle.low \in Nat
         /\ candle.complete \in BOOLEAN
         /\ candle.trades \in Seq([at : 0 .. Minute - 1, price : Nat])
         /\ \A i \in 1 .. Len(candle.trades) :
               candle.trades[i].at \in 0 .. Minute - 1 /\ TradePrice(i) \in Nat
<1>1. WellFormed(candle)
  BY DEF TypeOK
<1>2. candle.trades \in Seq([at : 0 .. Minute - 1, price : Nat])
  BY <1>1 DEF WellFormed
<1>3. ASSUME NEW i \in 1 .. Len(candle.trades)
      PROVE  candle.trades[i] \in [at : 0 .. Minute - 1, price : Nat]
  BY <1>2, ElementOfSeq
<1> QED BY <1>1, <1>2, <1>3 DEF WellFormed, TradePrice

(* Events and paths *)

LEMMA KlineEventType ==
  ASSUME TypeOK, NEW type \in EventTypes, NEW reason \in Reasons, NEW price \in Nat,
         NEW fraction \in 0 .. Full
  PROVE  KlineEvent(type, reason, price, fraction) \in EventRecord
BY DEF TypeOK, KlineEvent, Event, EventRecord, Sources

LEMMA TradeEventType ==
  ASSUME TypeOK, candle # NoCandle, NEW i \in 1 .. Len(candle.trades),
         NEW type \in EventTypes, NEW reason \in Reasons, NEW price \in Nat,
         NEW fraction \in 0 .. Full
  PROVE  TradeEvent(type, i, reason, price, fraction) \in EventRecord
<1>1. candle.trades[i].at \in Nat
  BY CandleType, TimeAssumption
<1>2. now + candle.trades[i].at \in Nat /\ i \in Nat
  BY <1>1 DEF TypeOK
<1> QED BY <1>2 DEF TradeEvent, Event, EventRecord, Sources

\* What a candle does to a position: at most two fills, all of them events.
Path(p) ==
  \/ p = << >>
  \/ \E e \in EventRecord : p = <<e>>
  \/ \E e, f \in EventRecord : p = <<e, f>>

LEMMA ConcatSmall ==
  ASSUME NEW e, NEW f
  PROVE  << e >> \o << >> = << e >> /\ << e >> \o << f >> = << e, f >>
<1>1. << e >> \in Seq({e, f}) /\ << f >> \in Seq({e, f}) /\ << e, f >> \in Seq({e, f})
  OBVIOUS
<1>2. << e >> \o << >> = << e >>
  BY <1>1, ConcatEmptySeq
<1>3. /\ << e >> \o << f >> \in Seq({e, f}) /\ Len(<< e >> \o << f >>) = 2
      /\ \A i \in 1 .. 2 : (<< e >> \o << f >>)[i] = IF i <= 1 THEN << e >>[i] ELSE << f >>[i - 1]
  BY <1>1, ConcatProperties
<1>4. \A i \in 1 .. 2 : (<< e >> \o << f >>)[i] = << e, f >>[i]
  BY <1>3
<1>5. << e >> \o << f >> = << e, f >>
  BY <1>1, <1>3, <1>4, SeqEqual
<1> QED BY <1>2, <1>5

LEMMA PathIsSeq ==
  ASSUME NEW p, Path(p)
  PROVE  /\ p \in Seq(EventRecord) /\ Len(p) <= 2
         /\ p # << >> => p[Len(p)] \in EventRecord
<1>1. CASE p = << >>
  BY <1>1
<1>2. CASE \E e \in EventRecord : p = <<e>>
  <2>1. PICK e \in EventRecord : p = <<e>>
    BY <1>2
  <2> QED BY <2>1
<1>3. CASE \E e, f \in EventRecord : p = <<e, f>>
  <2>1. PICK e \in EventRecord, f \in EventRecord : p = <<e, f>>
    BY <1>3
  <2> QED BY <2>1
<1> QED BY <1>1, <1>2, <1>3 DEF Path

LEMMA HalfTradePathType ==
  ASSUME TypeOK, candle # NoCandle, NEW from \in Nat \ {0}
  PROVE  /\ HalfTradePath(from) = << >>
            \/ \E e \in EventRecord : HalfTradePath(from) = <<e>>
         /\ Path(HalfTradePath(from))
<1> DEFINE S == {k \in from .. Len(candle.trades) :
                    FallsTo(TradePrice(k), ProtectiveStop) \/ Reaches(TradePrice(k), Tp2)}
           i == First(S)
<1>0. Len(candle.trades) \in Nat
  BY CandleType, LenProperties
<1>1. S \subseteq Nat
  BY <1>0
<1>2. CASE i = 0
  BY <1>2 DEF HalfTradePath, Path
<1>3. CASE i # 0
  <2>1. i \in 1 .. Len(candle.trades)
    <3>1. i \in S
      <4> HIDE DEF S
      <4> QED BY <1>3, <1>1, FirstIsSmallest
    <3> QED BY <3>1, <1>0
  <2>2. ProtectiveStop \in Nat /\ ProtectiveReason \in Reasons /\ Half \in 0 .. Full /\ Tp2 \in Nat
    BY PriceAssumption DEF TypeOK, ProtectiveStop, ProtectiveReason, Reasons, Half, Full
  <2>3. /\ TradeEvent("STOP_FILL", i, ProtectiveReason, ProtectiveStop, Half) \in EventRecord
        /\ TradeEvent("TP2_FILL", i, "TP2_TARGET", Tp2, Half) \in EventRecord
    <3> HIDE DEF i
    <3>1. {"STOP_FILL", "TP2_FILL"} \subseteq EventTypes /\ "TP2_TARGET" \in Reasons
      BY DEF EventTypes, Reasons
    <3> QED BY <2>1, <2>2, <3>1, TradeEventType
  <2>4. HalfTradePath(from) =
          IF FallsTo(TradePrice(i), ProtectiveStop)
          THEN << TradeEvent("STOP_FILL", i, ProtectiveReason, ProtectiveStop, Half) >>
          ELSE << TradeEvent("TP2_FILL", i, "TP2_TARGET", Tp2, Half) >>
    BY <1>3 DEF HalfTradePath
  <2> HIDE DEF i
  <2> QED BY <2>3, <2>4 DEF Path
<1> QED BY <1>2, <1>3

LEMMA TradePathType ==
  ASSUME TypeOK, candle # NoCandle, NEW from \in Nat \ {0}
  PROVE  Path(FullTradePath(from)) /\ Path(TradePath(from))
<1> DEFINE S == {k \in from .. Len(candle.trades) :
                    FallsTo(TradePrice(k), StopPrice) \/ Reaches(TradePrice(k), Tp1)}
           i == First(S)
           tp1 == TradeEvent("TP1_FILL", i, "TP1_TARGET", Tp1, Half)
           tp2 == TradeEvent("TP2_FILL", i, "TP2_TARGET", Tp2, Half)
           stop == TradeEvent("STOP_FILL", i, "INITIAL_STOP", StopPrice, Full)
<1>0. Len(candle.trades) \in Nat
  BY CandleType, LenProperties
<1>1. S \subseteq Nat
  BY <1>0
<1>2. Path(FullTradePath(from))
  <2>1. CASE i = 0
    BY <2>1 DEF FullTradePath, Path
  <2>2. CASE i # 0
    <3>1. i \in 1 .. Len(candle.trades)
      <4>1. i \in S
        <5> HIDE DEF S
        <5> QED BY <2>2, <1>1, FirstIsSmallest
      <4> QED BY <4>1, <1>0
    <3>2. tp1 \in EventRecord /\ tp2 \in EventRecord /\ stop \in EventRecord
      <4> HIDE DEF i
      <4>1. /\ {"STOP_FILL", "TP1_FILL", "TP2_FILL"} \subseteq EventTypes
            /\ {"TP1_TARGET", "TP2_TARGET", "INITIAL_STOP"} \subseteq Reasons
            /\ Half \in 0 .. Full /\ Full \in 0 .. Full
            /\ StopPrice \in Nat /\ Tp1 \in Nat /\ Tp2 \in Nat
        BY PriceAssumption DEF EventTypes, Reasons, Half, Full
      <4> QED BY <3>1, <4>1, TradeEventType
    <3>3. FullTradePath(from) =
            IF FallsTo(TradePrice(i), StopPrice) THEN << stop >>
            ELSE IF Reaches(TradePrice(i), Tp2) THEN << tp1 >> \o << tp2 >>
            ELSE << tp1 >> \o HalfTradePath(i + 1)
      BY <2>2 DEF FullTradePath
    <3>4. \/ HalfTradePath(i + 1) = << >>
          \/ \E e \in EventRecord : HalfTradePath(i + 1) = <<e>>
      <4>1. i + 1 \in Nat \ {0}
        BY <3>1, <1>0
      <4> HIDE DEF i
      <4> QED BY <4>1, HalfTradePathType
    <3>5. Path(<< stop >>)
      BY <3>2 DEF Path
    <3>6. Path(<< tp1 >> \o << tp2 >>)
      <4>1. << tp1 >> \o << tp2 >> = << tp1, tp2 >>
        BY ConcatSmall
      <4> QED BY <4>1, <3>2 DEF Path
    <3>7. Path(<< tp1 >> \o HalfTradePath(i + 1))
      <4> HIDE DEF tp1
      <4>1. CASE HalfTradePath(i + 1) = << >>
        <5>1. << tp1 >> \o << >> = << tp1 >>
          BY ConcatSmall
        <5> QED BY <4>1, <5>1, <3>2 DEF Path
      <4>2. CASE \E e \in EventRecord : HalfTradePath(i + 1) = <<e>>
        <5>1. PICK e \in EventRecord : HalfTradePath(i + 1) = <<e>>
          BY <4>2
        <5>2. << tp1 >> \o << e >> = << tp1, e >>
          BY ConcatSmall
        <5> QED BY <5>1, <5>2, <3>2 DEF Path
      <4> QED BY <3>4, <4>1, <4>2
    <3> HIDE DEF tp1, tp2, stop, i
    <3> QED BY <3>3, <3>5, <3>6, <3>7
  <2> QED BY <2>1, <2>2
<1> QED BY <1>2, HalfTradePathType DEF TradePath

LEMMA KlinePathTypes ==
  ASSUME TypeOK, NEW level \in Nat, NEW reason \in Reasons, NEW fraction \in 0 .. Full
  PROVE  /\ Path(KlineStop(level, reason, fraction))
         /\ Path(KlineTp1) /\ Path(KlineTp2) /\ Path(KlineTp1 \o KlineTp2)
         /\ Path(TimeExit) \/ candle = NoCandle
<1>1. /\ {"STOP_FILL", "TP1_FILL", "TP2_FILL", "TIME_EXIT"} \subseteq EventTypes
      /\ {"TP1_TARGET", "TP2_TARGET", "MAX_HOLDING_REACHED"} \subseteq Reasons
      /\ Half \in 0 .. Full /\ Tp1 \in Nat /\ Tp2 \in Nat
  BY PriceAssumption DEF EventTypes, Reasons, Half, Full
<1>2. /\ KlineEvent("STOP_FILL", reason, level, fraction) \in EventRecord
      /\ KlineEvent("TP1_FILL", "TP1_TARGET", Tp1, Half) \in EventRecord
      /\ KlineEvent("TP2_FILL", "TP2_TARGET", Tp2, Half) \in EventRecord
  BY <1>1, KlineEventType
<1>3. Path(KlineTp1 \o KlineTp2)
  <2> DEFINE e == KlineEvent("TP1_FILL", "TP1_TARGET", Tp1, Half)
             f == KlineEvent("TP2_FILL", "TP2_TARGET", Tp2, Half)
  <2>1. KlineTp1 \o KlineTp2 = <<e, f>>
    BY ConcatSmall DEF KlineTp1, KlineTp2
  <2> HIDE DEF e, f
  <2>2. e \in EventRecord /\ f \in EventRecord
    BY <1>2 DEF e, f
  <2> QED BY <2>1, <2>2 DEF Path
<1>4. ASSUME candle # NoCandle
      PROVE  Path(TimeExit)
  <2>1. candle.open \in Nat /\ openFraction \in 0 .. Full
    BY <1>4, CandleType DEF TypeOK
  <2>2. KlineEvent("TIME_EXIT", "MAX_HOLDING_REACHED", candle.open, openFraction) \in EventRecord
    BY <2>1, <1>1, KlineEventType
  <2> QED BY <2>2 DEF TimeExit, Path
<1> QED BY <1>2, <1>3, <1>4 DEF KlineStop, KlineTp1, KlineTp2, Path

LEMMA CandlePathTypes ==
  ASSUME TypeOK, candle # NoCandle
  PROVE  /\ Path(CandlePath)
         /\ Path(DeadlinePath) /\ DeadlinePath # << >>
<1>1. /\ StopPrice \in Nat /\ breakeven \in Nat /\ ProtectiveStop \in Nat
      /\ {"INITIAL_STOP", "BREAKEVEN_STOP"} \subseteq Reasons /\ ProtectiveReason \in Reasons
      /\ Half \in 0 .. Full /\ Full \in 0 .. Full
  BY PriceAssumption DEF TypeOK, ProtectiveStop, ProtectiveReason, Reasons, Half, Full
<1>2. /\ Path(KlineStop(StopPrice, "INITIAL_STOP", Full))
      /\ Path(KlineStop(breakeven, "BREAKEVEN_STOP", Half))
      /\ Path(KlineStop(ProtectiveStop, ProtectiveReason, Half))
      /\ Path(KlineTp1) /\ Path(KlineTp2) /\ Path(KlineTp1 \o KlineTp2) /\ Path(TimeExit)
  BY <1>1, KlinePathTypes
<1>3. Path(<< >>)
  BY DEF Path
<1>4. TradesFrom \in Nat \ {0} /\ 1 \in Nat \ {0}
  BY DEF TypeOK, TradesFrom, EntryRecord, NoEntry
<1>5. Path(CandlePath)
  <2>1. Path(OhlcPath)
    BY <1>2, <1>3 DEF OhlcPath
  <2> QED BY <2>1, <1>4, TradePathType DEF CandlePath
<1>6. Path(DeadlineRiskPath)
  <2>1. Path(DeadlineOhlcPath)
    BY <1>2, <1>3 DEF DeadlineOhlcPath
  <2>2. Path(TradePath(1))
    BY <1>4, TradePathType
  <2> QED BY <2>1, <2>2, <1>3 DEF DeadlineRiskPath
<1>7. TimeExit # << >>
  BY DEF TimeExit
<1> QED BY <1>2, <1>5, <1>6, <1>7 DEF DeadlinePath

(* The breakeven price *)

LEMMA ProductIsNat ==
  ASSUME NEW a \in Nat, NEW b \in Nat
  PROVE  a * b \in Nat
OBVIOUS

LEMMA ProductIsPositive ==
  ASSUME NEW a \in Nat \ {0}, NEW b \in Nat \ {0}
  PROVE  a * b \in Nat \ {0}
OBVIOUS

LEMMA QuotientIsNat ==
  ASSUME NEW a \in Nat, NEW b \in Nat \ {0}
  PROVE  a \div b \in Nat
OBVIOUS

LEMMA TickRounding ==
  ASSUME NEW num \in Nat, NEW den \in Nat \ {0}
  PROVE  CeilToTick(num, den) \in Nat /\ FloorToTick(num, den) \in Nat
<1> DEFINE unit == den * TickSize
<1>1. TickSize \in Nat /\ unit \in Nat \ {0}
  BY PriceAssumption, ProductIsPositive
<1>2. num + unit - 1 \in Nat
  <2> HIDE DEF unit
  <2> QED BY <1>1
<1>3. (num + unit - 1) \div unit \in Nat /\ num \div unit \in Nat
  <2> HIDE DEF unit
  <2> QED BY <1>1, <1>2, QuotientIsNat
<1> QED BY <1>1, <1>3, ProductIsNat DEF CeilToTick, FloorToTick

LEMMA BreakevenIsNat ==
  ASSUME NEW price \in Nat
  PROVE  BreakevenFor(price) \in Nat
<1> DEFINE up == price * (RateUnit + SlippageRate) * (RateUnit + FeeRate)
           down == price * (RateUnit - SlippageRate) * (RateUnit - FeeRate)
           upUnit == (RateUnit + SlippageRate) * (RateUnit + FeeRate)
           downUnit == (RateUnit - SlippageRate) * (RateUnit - FeeRate)
<1>1. /\ RateUnit + SlippageRate \in Nat \ {0} /\ RateUnit + FeeRate \in Nat \ {0}
      /\ RateUnit - SlippageRate \in Nat \ {0} /\ RateUnit - FeeRate \in Nat \ {0}
  BY RateAssumption
<1>2. up \in Nat /\ down \in Nat
  <2>1. price * (RateUnit + SlippageRate) \in Nat /\ price * (RateUnit - SlippageRate) \in Nat
    BY <1>1, ProductIsNat
  <2> QED BY <1>1, <2>1, ProductIsNat
<1>3. upUnit \in Nat \ {0} /\ downUnit \in Nat \ {0}
  BY <1>1, ProductIsPositive
<1>4. CeilToTick(up, downUnit) \in Nat /\ FloorToTick(down, upUnit) \in Nat
  BY <1>2, <1>3, TickRounding
<1> QED BY <1>4 DEF BreakevenFor, CostAwareBreakeven

(* Type correctness *)

LEMMA EventsAppended ==
  ASSUME NEW log \in Seq(EventRecord), NEW p, Path(p), NEW e \in EventRecord
  PROVE  /\ Append(log, e) \in Seq(EventRecord)
         /\ log \o p \in Seq(EventRecord)
         /\ (log \o p) \o << e >> \in Seq(EventRecord)
<1>1. p \in Seq(EventRecord) /\ << e >> \in Seq(EventRecord)
  BY PathIsSeq
<1>2. log \o p \in Seq(EventRecord)
  BY <1>1, ConcatProperties
<1>3. (log \o p) \o << e >> \in Seq(EventRecord)
  BY <1>1, <1>2, ConcatProperties
<1> QED BY <1>2, <1>3

LEMMA ClosedAfterType ==
  ASSUME NEW e \in EventRecord
  PROVE  ClosedAfter(e) \in EventRecord
<1>1. "CLOSED" \in EventTypes /\ 0 \in 0 .. Full
  BY DEF EventTypes, Full
<1> QED BY <1>1 DEF ClosedAfter, EventRecord

LEMMA ReadingKeepsType ==
  ASSUME TypeOK, ReadCandle \/ DataExhausted
  PROVE  TypeOK'
<1>1. CASE ReadCandle
  <2>1. WellFormed(candle')
    BY <1>1, CandleAssumption DEF ReadCandle
  <2> QED BY <1>1, <2>1 DEF TypeOK, ReadCandle
<1>2. CASE DataExhausted
  BY <1>2 DEF TypeOK, DataExhausted
<1> QED BY <1>1, <1>2

\* The parts of TypeOK that change in the steps of an armed signal.
LEMMA ArmedType ==
  ASSUME TypeOK, TradeUnchanged,
         candle' = candle \/ candle' = NoCandle, now' \in Nat,
         stage' \in {"ARMED", "ENTERED", "RETURNED"},
         signal' \in {"ARMED", "TRIGGERED", "INVALIDATED", "MISSED", "EXPIRED"},
         entry' \in EntryRecord \cup {NoEntry}, events' \in Seq(EventRecord),
         fallback' \in BOOLEAN, aggregateUsed' \in BOOLEAN
  PROVE  TypeOK'
<1>1. candle' = NoCandle \/ WellFormed(candle')
  BY DEF TypeOK
<1> QED BY <1>1 DEF TypeOK, TradeUnchanged

LEMMA CountersType ==
  ASSUME TypeOK, candle # NoCandle, CountCandle
  PROVE  fallback' \in BOOLEAN /\ aggregateUsed' \in BOOLEAN
BY CandleType DEF TypeOK, CountCandle

LEMMA NextMinuteType ==
  ASSUME TypeOK, NextMinute
  PROVE  candle' = NoCandle /\ now' \in Nat
BY TimeAssumption DEF TypeOK, NextMinute

LEMMA EndArmedType ==
  ASSUME TypeOK, NEW e \in EventRecord, NEW state \in {"INVALIDATED", "MISSED", "EXPIRED"},
         EndArmed(state, e), fallback' \in BOOLEAN, aggregateUsed' \in BOOLEAN
  PROVE  TypeOK'
<1>1. events' \in Seq(EventRecord)
  BY DEF TypeOK, EndArmed
<1>2. /\ stage' = "RETURNED" /\ signal' = state /\ candle' = NoCandle /\ now' = now
      /\ entry' = entry /\ TradeUnchanged
  BY DEF EndArmed
<1> QED BY <1>1, <1>2, ArmedType DEF TypeOK

LEMMA PassArmedType ==
  ASSUME TypeOK, PassArmed, stage = "ARMED", fallback' \in BOOLEAN, aggregateUsed' \in BOOLEAN
  PROVE  TypeOK'
<1>1. candle' = NoCandle /\ now' \in Nat
  BY NextMinuteType DEF PassArmed
<1>2. /\ stage' = stage /\ signal' = signal /\ entry' = entry /\ events' = events
      /\ TradeUnchanged
  BY DEF PassArmed
<1> QED BY <1>1, <1>2, ArmedType DEF TypeOK

LEMMA TriggerType ==
  ASSUME TypeOK, NEW e \in EntryRecord, NEW reason \in Reasons, Trigger(e, reason),
         fallback' \in BOOLEAN, aggregateUsed' \in BOOLEAN
  PROVE  TypeOK'
<1>1. EntryFillOf(e, reason) \in EventRecord
  BY DEF EntryFillOf, Event, EventRecord, EntryRecord, EventTypes, Full
<1>2. events' \in Seq(EventRecord)
  BY <1>1 DEF TypeOK, Trigger
<1>3. /\ stage' = "ENTERED" /\ signal' = "TRIGGERED" /\ candle' = candle /\ now' = now
      /\ entry' = e /\ TradeUnchanged
  BY DEF Trigger
<1> QED BY <1>2, <1>3, ArmedType DEF TypeOK

LEMMA DecisiveTradeType ==
  ASSUME TypeOK, candle # NoCandle, DecisiveTrade # 0
  PROVE  DecisiveTrade \in 1 .. Len(candle.trades)
<1> DEFINE S == {i \in 1 .. Len(candle.trades) :
             Reaches(TradePrice(i), EntryPrice) \/ FallsTo(TradePrice(i), InvalidationPrice)}
<1>1. Len(candle.trades) \in Nat
  BY CandleType, LenProperties
<1>2. S \subseteq Nat /\ DecisiveTrade = First(S)
  BY <1>1 DEF DecisiveTrade
<1>3. DecisiveTrade \in S
  <2> HIDE DEF S
  <2> QED BY <1>2, FirstIsSmallest
<1> QED BY <1>3

LEMMA ArmedStepKeepsType ==
  ASSUME TypeOK, ArmedStep
  PROVE  TypeOK'
<1>0. /\ {"INVALIDATED", "MISSED", "EXPIRED"} \subseteq EventTypes
      /\ {"ENTRY_NORMAL_CROSS", "ENTRY_GAP_WITHIN_LIMIT", "ENTRY_AND_INVALIDATION_SAME_CANDLE",
          "ENTRY_GAP_TOO_LARGE", "ENTRY_WINDOW_EXPIRED",
          "STRUCTURE_INVALIDATED_BEFORE_ENTRY"} \subseteq Reasons
      /\ 0 \in 0 .. Full /\ 0 \in Nat /\ EntryPrice \in Nat
  BY PriceAssumption DEF EventTypes, Reasons, Full
<1>1. CASE SkipEarlyCandle
  <2>1. PassArmed /\ stage = "ARMED" /\ fallback' \in BOOLEAN /\ aggregateUsed' \in BOOLEAN
    BY <1>1 DEF SkipEarlyCandle, PassArmed, Scanning, TypeOK
  <2> QED BY <2>1, PassArmedType
<1>2. CASE Expire
  <2> DEFINE e == Event("EXPIRED", ExpiresAt, "KLINE_1M", ExpiresAt, "ENTRY_WINDOW_EXPIRED", 0, 0)
  <2>1. e \in EventRecord
    BY <1>0, TimeAssumption DEF Event, EventRecord, Sources
  <2>2. EndArmed("EXPIRED", e) /\ fallback' \in BOOLEAN /\ aggregateUsed' \in BOOLEAN
    BY <1>2 DEF Expire, TypeOK
  <2> HIDE DEF e
  <2> QED BY <2>1, <2>2, EndArmedType
<1>3. CASE Miss
  <2>1. KlineEvent("MISSED", "ENTRY_GAP_TOO_LARGE", 0, 0) \in EventRecord
    BY <1>0, KlineEventType
  <2>2. fallback' \in BOOLEAN /\ aggregateUsed' \in BOOLEAN
    BY <1>3, CountersType DEF Miss, InWindow, Scanning
  <2> QED BY <1>3, <2>1, <2>2, EndArmedType DEF Miss
<1>4. CASE EnterOnTrade
  <2> DEFINE e == [price |-> EntryPrice, time |-> now + candle.trades[DecisiveTrade].at,
                   candleOpen |-> now, source |-> "AGG_TRADE", ref |-> DecisiveTrade,
                   stopAlso |-> FALSE]
  <2>1. candle # NoCandle /\ DecisiveTrade # 0 /\ CountCandle
    BY <1>4 DEF EnterOnTrade, ByTrades, InWindow, Scanning
  <2>2. DecisiveTrade \in Nat /\ candle.trades[DecisiveTrade].at \in Nat
    BY <2>1, DecisiveTradeType, CandleType, TimeAssumption, LenProperties
  <2>3. e \in EntryRecord
    BY <1>0, <2>2 DEF EntryRecord, TypeOK, Sources
  <2>4. Trigger(e, "ENTRY_NORMAL_CROSS")
    BY <1>4 DEF EnterOnTrade
  <2> HIDE DEF e
  <2> QED BY <1>0, <2>1, <2>3, <2>4, CountersType, TriggerType
<1>5. CASE InvalidateOnTrade
  <2>1. candle # NoCandle /\ DecisiveTrade # 0 /\ CountCandle
    BY <1>5 DEF InvalidateOnTrade, ByTrades, InWindow, Scanning
  <2>2. TradeEvent("INVALIDATED", DecisiveTrade, "STRUCTURE_INVALIDATED_BEFORE_ENTRY", 0, 0)
          \in EventRecord
    BY <1>0, <2>1, DecisiveTradeType, TradeEventType
  <2> QED BY <1>5, <2>1, <2>2, CountersType, EndArmedType DEF InvalidateOnTrade
<1>6. CASE PassTrades
  <2>1. candle # NoCandle /\ stage = "ARMED" /\ CountCandle /\ PassArmed
    BY <1>6 DEF PassTrades, ByTrades, InWindow, Scanning
  <2> QED BY <2>1, CountersType, PassArmedType
<1>7. CASE EnterOnOhlc
  <2> DEFINE e == [price |-> IF GapEntry(candle) THEN candle.open ELSE EntryPrice,
                   time |-> now, candleOpen |-> now, source |-> "KLINE_1M", ref |-> now,
                   stopAlso |-> InvalidationTouched]
             r == IF InvalidationTouched THEN "ENTRY_AND_INVALIDATION_SAME_CANDLE"
                  ELSE IF GapEntry(candle) THEN "ENTRY_GAP_WITHIN_LIMIT"
                  ELSE "ENTRY_NORMAL_CROSS"
  <2>1. candle # NoCandle /\ CountCandle
    BY <1>7 DEF EnterOnOhlc, ByOhlc, InWindow, Scanning
  <2>2. candle.open \in Nat /\ InvalidationTouched \in BOOLEAN
    <3>1. candle.open \in Nat
      BY <2>1, CandleType
    <3>2. Adverse(candle) \in Nat /\ InvalidationPrice \in Nat
      BY <2>1, CandleType, PriceAssumption DEF Adverse
    <3>3. /\ (Adverse(candle) <= InvalidationPrice) \in BOOLEAN
          /\ (Adverse(candle) >= InvalidationPrice) \in BOOLEAN
      BY <3>2
    <3>4. \/ InvalidationTouched = (Adverse(candle) <= InvalidationPrice)
          \/ InvalidationTouched = (Adverse(candle) >= InvalidationPrice)
      BY Zenon DEF InvalidationTouched, FallsTo
    <3> QED BY <3>1, <3>3, <3>4
  <2>3. e \in EntryRecord
    BY <1>0, <2>2 DEF EntryRecord, TypeOK, Sources
  <2>4. r \in Reasons
    BY <1>0
  <2>5. Trigger(e, r)
    BY <1>7 DEF EnterOnOhlc
  <2> HIDE DEF e, r
  <2> QED BY <2>1, <2>3, <2>4, <2>5, CountersType, TriggerType
<1>8. CASE InvalidateOnOhlc
  <2>1. candle # NoCandle /\ CountCandle
    BY <1>8 DEF InvalidateOnOhlc, ByOhlc, InWindow, Scanning
  <2>2. KlineEvent("INVALIDATED", "STRUCTURE_INVALIDATED_BEFORE_ENTRY", 0, 0) \in EventRecord
    BY <1>0, KlineEventType
  <2> QED BY <1>8, <2>1, <2>2, CountersType, EndArmedType DEF InvalidateOnOhlc
<1>9. CASE PassOhlc
  <2>1. candle # NoCandle /\ stage = "ARMED" /\ CountCandle /\ PassArmed
    BY <1>9 DEF PassOhlc, ByOhlc, InWindow, Scanning
  <2> QED BY <2>1, CountersType, PassArmedType
<1> QED BY <1>1, <1>2, <1>3, <1>4, <1>5, <1>6, <1>7, <1>8, <1>9 DEF ArmedStep

LEMMA CountHeldType ==
  ASSUME TypeOK, candle # NoCandle, CountHeld
  PROVE  fallback' \in BOOLEAN /\ aggregateUsed' \in BOOLEAN
BY CountersType DEF TypeOK, CountHeld

LEMMA CloseType ==
  ASSUME TypeOK, NEW p, Path(p), p # << >>, Close(p),
         fallback' \in BOOLEAN, aggregateUsed' \in BOOLEAN, activation' \in Nat \cup {NoTime}
  PROVE  TypeOK'
<1>1. p[Len(p)] \in EventRecord
  BY PathIsSeq
<1>2. events' \in Seq(EventRecord)
  <2>1. ClosedAfter(p[Len(p)]) \in EventRecord
    BY <1>1, ClosedAfterType
  <2> QED BY <2>1, EventsAppended DEF TypeOK, Close
<1>3. exitReason' \in {"NONE", "SL", "BREAKEVEN_AFTER_TP1", "TP2", "TIME_EXIT"}
  BY DEF Close, ExitReasonOf
<1>4. /\ position' = "FLAT" /\ openFraction' = 0 /\ stage' = "RETURNED" /\ candle' = NoCandle
      /\ UNCHANGED <<now, dataEnd, signal, entry, breakeven, breakevenActive>>
  BY DEF Close
<1>5. 0 \in 0 .. Full
  BY DEF Full
<1> QED BY <1>2, <1>3, <1>4, <1>5 DEF TypeOK

LEMMA TradeStepKeepsType ==
  ASSUME TypeOK, TradeStep
  PROVE  TypeOK'
<1>0. /\ Half \in 0 .. Full /\ Full \in 0 .. Full /\ 0 \in 0 .. Full /\ 0 \in Nat
      /\ "BREAKEVEN_ACTIVATED" \in EventTypes /\ "BREAKEVEN_NEXT_MINUTE" \in Reasons
      /\ "KLINE_1M" \in Sources
  BY DEF Half, Full, EventTypes, Reasons, Sources
<1>1. CASE StartTrade
  <2>1. entry.price \in Nat
    BY DEF TypeOK, EntryRecord, NoEntry
  <2>2. breakeven' \in Nat
    BY <1>1, <2>1, BreakevenIsNat DEF StartTrade
  <2>3. candle' = NoCandle \/ WellFormed(candle')
    BY <1>1 DEF StartTrade, TypeOK
  <2>4. aggregateUsed' \in BOOLEAN
    BY <1>1 DEF StartTrade, TypeOK
  <2> QED BY <1>0, <1>1, <2>2, <2>3, <2>4 DEF StartTrade, TypeOK
<1>2. CASE RejectBreakeven
  BY <1>2 DEF RejectBreakeven, TypeOK
<1>3. CASE ActivateBreakeven
  <2>1. activation \in Nat
    BY <1>3 DEF ActivateBreakeven, ActivationDue, TypeOK
  <2>2. Event("BREAKEVEN_ACTIVATED", activation, "KLINE_1M", activation,
              "BREAKEVEN_NEXT_MINUTE", breakeven, 0) \in EventRecord
    BY <1>0, <2>1 DEF Event, EventRecord, TypeOK
  <2>3. events' \in Seq(EventRecord)
    BY <1>3, <2>2 DEF ActivateBreakeven, TypeOK
  <2>4. candle' = NoCandle \/ WellFormed(candle')
    BY <1>3 DEF ActivateBreakeven, TypeOK
  <2> QED BY <1>3, <2>3, <2>4 DEF ActivateBreakeven, TypeOK
<1>4. CASE ExitAtDeadline
  <2>1. candle # NoCandle /\ CountCandle /\ Close(DeadlinePath) /\ activation' = activation
    BY <1>4 DEF ExitAtDeadline, Holding
  <2>2. Path(DeadlinePath) /\ DeadlinePath # << >>
    BY <2>1, CandlePathTypes
  <2>3. activation' \in Nat \cup {NoTime}
    BY <2>1 DEF TypeOK
  <2> QED BY <2>1, <2>2, <2>3, CountersType, CloseType
<1>5. CASE CloseInCandle
  <2>1. candle # NoCandle /\ CountHeld /\ Close(CandlePath) /\ CandlePath # << >>
    BY <1>5 DEF CloseInCandle, HandleCandle, Holding, Closes
  <2>2. Path(CandlePath)
    BY <2>1, CandlePathTypes
  <2>3. activation' \in Nat \cup {NoTime}
    <3>1. now + Minute \in Nat
      BY TimeAssumption DEF TypeOK
    <3>2. activation' = now + Minute \/ activation' = activation
      BY <1>5 DEF CloseInCandle
    <3> QED BY <3>1, <3>2 DEF TypeOK
  <2> QED BY <2>1, <2>2, <2>3, CountHeldType, CloseType
<1>6. CASE TakeProfitOne
  <2>1. candle # NoCandle /\ CountHeld /\ NextMinute
    BY <1>6 DEF TakeProfitOne, HandleCandle, Holding
  <2>2. events' \in Seq(EventRecord)
    <3>1. CandlePath \in Seq(EventRecord)
      BY <2>1, CandlePathTypes, PathIsSeq
    <3> QED BY <1>6, <3>1, ConcatProperties DEF TakeProfitOne, TypeOK
  <2>3. activation' \in Nat
    BY <1>6, TimeAssumption DEF TakeProfitOne, TypeOK
  <2> QED BY <1>0, <1>6, <2>1, <2>2, <2>3, CountHeldType, NextMinuteType
          DEF TakeProfitOne, TypeOK
<1>7. CASE HoldOn
  <2>1. candle # NoCandle /\ CountHeld /\ NextMinute
    BY <1>7 DEF HoldOn, HandleCandle, Holding
  <2> QED BY <1>7, <2>1, CountHeldType, NextMinuteType DEF HoldOn, TypeOK
<1> QED BY <1>1, <1>2, <1>3, <1>4, <1>5, <1>6, <1>7 DEF TradeStep

LEMMA InitType ==
  ASSUME Init
  PROVE  TypeOK
<1>1. << >> \in Seq(EventRecord) /\ 0 \in 0 .. Full
  BY DEF Full
<1>2. /\ events \in Seq(EventRecord) /\ openFraction \in 0 .. Full
      /\ breakevenActive \in BOOLEAN /\ fallback \in BOOLEAN /\ aggregateUsed \in BOOLEAN
      /\ entry \in EntryRecord \cup {NoEntry} /\ activation \in Nat \cup {NoTime}
      /\ candle = NoCandle
  BY <1>1 DEF Init
<1>3. /\ now \in Nat /\ breakeven \in Nat /\ dataEnd \in DataEnds
      /\ stage = "ARMED" /\ signal = "ARMED" /\ position = "NONE" /\ exitReason = "NONE"
  BY DEF Init
<1> QED BY <1>2, <1>3 DEF TypeOK

\* Every variable of the replay keeps the type of the code's field, for every
\* plan and every market (replay_armed and replay_trade of backtest/replay.py).
THEOREM TypeCorrect == Spec => []TypeOK
<1>1. Init => TypeOK
  BY InitType
<1>2. TypeOK /\ [Next]_vars => TypeOK'
  <2> SUFFICES ASSUME TypeOK, [Next]_vars PROVE TypeOK'
    OBVIOUS
  <2>1. CASE UNCHANGED vars
    BY <2>1 DEF TypeOK, vars
  <2> QED BY <2>1, ReadingKeepsType, ArmedStepKeepsType, TradeStepKeepsType DEF Next
<1> QED BY <1>1, <1>2, PTL DEF Spec

-----------------------------------------------------------------------------
(* What the log tells *)

StopReasons == {"INITIAL_STOP", "BREAKEVEN_STOP"}
Endings == {"INVALIDATED", "MISSED", "EXPIRED"}

IsEntry(e) == e.type = "ENTRY_FILL" /\ e.time = entry.time /\ e.reason \notin StopReasons
IsTakeProfit(e) == e.type = "TP1_FILL" /\ e.fraction = Half /\ e.reason = "TP1_TARGET"
IsActivation(e) ==
  e.type = "BREAKEVEN_ACTIVATED" /\ e.time = activation /\ e.reason = "BREAKEVEN_NEXT_MINUTE"

\* The entry and the place of the replay relative to it.
EntryKnown ==
  /\ signal = "TRIGGERED" /\ entry \in EntryRecord
  /\ ConfirmationClose <= entry.time /\ entry.time < ExpiresAt
  /\ stage = "ENTERED" => OnEntryCandle
  /\ stage \in {"ENTERED", "HOLDING"} => entry.candleOpen <= now
  /\ stage \in {"ENTERED", "HOLDING"} =>
       IF OnEntryCandle
       THEN /\ candle # NoCandle /\ position \in {"NONE", "FULL"}
            /\ entry.time >= now /\ entry.time < now + Minute
            /\ entry.source = "KLINE_1M" => entry.time = now
            /\ entry.source = "AGG_TRADE" =>
                 /\ candle.complete /\ entry.ref \in 1 .. Len(candle.trades)
                 /\ entry.time = now + candle.trades[entry.ref].at
       ELSE entry.time < now

Untraded ==
  /\ openFraction = 0 /\ exitReason = "NONE" /\ ~breakevenActive /\ activation = NoTime
  /\ Len(events) <= 1
  /\ \A i \in Log : /\ events[i].type \in Endings \cup {"ENTRY_FILL"}
                    /\ events[i].reason \notin StopReasons
                    /\ events[i].type = "ENTRY_FILL" => signal = "TRIGGERED" /\ IsEntry(events[i])

FullPosition ==
  /\ openFraction = Full /\ exitReason = "NONE" /\ ~breakevenActive /\ activation = NoTime
  /\ Len(events) = 1 /\ IsEntry(events[1])

HalfTaken ==
  /\ IsEntry(events[1]) /\ IsTakeProfit(events[2])
  /\ entry.time <= events[2].time /\ events[2].time < activation
  /\ activation \in Nat /\ activation % Minute = 0

HalfPosition ==
  /\ openFraction = Half /\ exitReason = "NONE" /\ HalfTaken
  /\ IF breakevenActive
     THEN activation <= now /\ Len(events) = 3 /\ IsActivation(events[3])
     ELSE activation = now /\ Len(events) = 2

\* The last fill and the CLOSED event, at the end of the log.
Ended(fraction) ==
  LET n == Len(events)
  IN  /\ IsTerminal(events[n - 1]) /\ events[n - 1].fraction = fraction
      /\ events[n].type = "CLOSED" /\ events[n].time = events[n - 1].time
      /\ events[n].fraction = 0 /\ events[n].reason = events[n - 1].reason
      /\ events[n - 1].time < Deadline + Minute
      /\ events[n - 1].type = "TIME_EXIT" => events[n - 1].time = Deadline

FlatPosition ==
  /\ openFraction = 0 /\ IsEntry(events[1])
  /\ \/ /\ Len(events) = 3 /\ Ended(Full)
        /\ entry.time <= events[2].time /\ events[2].reason # "BREAKEVEN_STOP"
     \/ /\ Len(events) = 4 /\ Ended(Half) /\ IsTakeProfit(events[2])
        /\ entry.time <= events[2].time /\ events[2].time <= events[3].time
        /\ events[3].reason # "BREAKEVEN_STOP"
        /\ events[2].time \div Minute = events[3].time \div Minute
     \/ /\ Len(events) = 5 /\ Ended(Half) /\ HalfTaken /\ IsActivation(events[3])
        /\ activation <= events[4].time /\ events[4].reason # "INITIAL_STOP"

Story ==
  /\ now % Minute = 0
  /\ stage = "ARMED" => signal = "ARMED" /\ events = << >>
  /\ stage \in {"ARMED", "ENTERED"} => position = "NONE"
  /\ stage \in {"ENTERED", "HOLDING"} => signal = "TRIGGERED"
  /\ stage = "ENTERED" => Len(events) = 1 /\ events[1].type = "ENTRY_FILL"
  /\ stage = "HOLDING" => position \in {"FULL", "HALF"} /\ now <= Deadline
  /\ signal = "TRIGGERED" => EntryKnown
  /\ position # "NONE" => signal = "TRIGGERED"
  /\ position = "NONE" => Untraded
  /\ position = "FULL" => FullPosition
  /\ position = "HALF" => HalfPosition
  /\ position = "FLAT" => FlatPosition

(* Minutes and bars *)

LEMMA DivisionBounds ==
  ASSUME NEW a \in Nat, NEW b \in Nat \ {0}
  PROVE  a \div b \in Nat /\ (a \div b) * b <= a /\ a < (a \div b) * b + b
OBVIOUS

LEMMA Multiples ==
  ASSUME NEW a \in Nat, NEW b \in Nat \ {0}, a % b = 0
  PROVE  a = (a \div b) * b
OBVIOUS

LEMMA MultipleIsDivisible ==
  ASSUME NEW k \in Nat, NEW b \in Nat \ {0}
  PROVE  (k * b) % b = 0 /\ (k * b) \div b = k
OBVIOUS

LEMMA NextMultiple ==
  ASSUME NEW a \in Nat, NEW c \in Nat, NEW b \in Nat \ {0}, a % b = 0, c % b = 0
  PROVE  /\ (a + b) % b = 0 /\ (a + c) % b = 0
         /\ a < c => a + b <= c
<1>1. PICK k \in Nat : a = k * b
  BY Multiples
<1>2. PICK m \in Nat : c = m * b
  BY Multiples
<1>3. a + b = (k + 1) * b /\ a + c = (k + m) * b
  BY <1>1, <1>2
<1>4. k + 1 \in Nat /\ k + m \in Nat
  OBVIOUS
<1>5. (a + b) % b = 0 /\ (a + c) % b = 0
  BY <1>3, <1>4, MultipleIsDivisible
<1>6. ASSUME a < c PROVE a + b <= c
  <2>1. k < m
    BY <1>1, <1>2, <1>6
  <2>2. k + 1 <= m
    BY <2>1
  <2>3. (k + 1) * b <= m * b
    BY <2>2
  <2> QED BY <1>2, <1>3, <2>3
<1> QED BY <1>5, <1>6

LEMMA SameMultiple ==
  ASSUME NEW a \in Nat, NEW t \in Nat, NEW b \in Nat \ {0}, a % b = 0, a <= t, t < a + b
  PROVE  t \div b = a \div b
OBVIOUS

(* What the story tells *)

LEMMA LogLength ==
  ASSUME TypeOK
  PROVE  /\ Len(events) \in Nat /\ Log = 1 .. Len(events)
         /\ \A i \in Log : events[i] \in EventRecord
BY ElementOfSeq, LenProperties DEF TypeOK, Log

LEMMA Positions ==
  ASSUME TypeOK, NEW i \in Log
  PROVE  /\ i \in Nat /\ 1 <= i /\ i <= Len(events) /\ Len(events) \in Nat
         /\ Len(events) = 1 => i = 1
         /\ Len(events) = 2 => i = 1 \/ i = 2
         /\ Len(events) = 3 => i = 1 \/ i = 2 \/ i = 3
         /\ Len(events) = 4 => i = 1 \/ i = 2 \/ i = 3 \/ i = 4
         /\ Len(events) = 5 => i = 1 \/ i = 2 \/ i = 3 \/ i = 4 \/ i = 5
<1> DEFINE n == Len(events)
<1>1. i \in 1 .. n /\ n \in Nat
  BY LogLength
<1> HIDE DEF n
<1>2. i \in Nat /\ 1 <= i /\ i <= n
  BY <1>1
<1>3. /\ n = 1 => i = 1
      /\ n = 2 => i = 1 \/ i = 2
      /\ n = 3 => i = 1 \/ i = 2 \/ i = 3
  BY <1>2
<1>4. n = 4 => i = 1 \/ i = 2 \/ i = 3 \/ i = 4
  BY <1>2
<1>5. n = 5 => i = 1 \/ i = 2 \/ i = 3 \/ i = 4 \/ i = 5
  BY <1>2
<1> QED BY <1>1, <1>2, <1>3, <1>4, <1>5 DEF n

\* What is where in the log of a position that is half open or flat.
LEMMA HalfLog ==
  ASSUME TypeOK, Story, position = "HALF"
  PROVE  /\ openFraction = Half /\ Len(events) \in {2, 3}
         /\ IsEntry(events[1]) /\ IsTakeProfit(events[2])
         /\ Len(events) = 3 => IsActivation(events[3])
         /\ 2 \in Log
<1>1. HalfPosition
  BY DEF Story
<1>2. Len(events) \in {2, 3} /\ (Len(events) = 3 => IsActivation(events[3]))
  BY <1>1 DEF HalfPosition
<1>3. 2 \in Log
  BY <1>2, LogLength
<1> QED BY <1>1, <1>2, <1>3 DEF HalfPosition, HalfTaken

LEMMA FlatLog ==
  ASSUME TypeOK, Story, position = "FLAT"
  PROVE  LET n == Len(events)
         IN  /\ openFraction = 0 /\ n \in 3 .. 5 /\ n - 1 \in Log
             /\ IsEntry(events[1]) /\ (n > 3 => IsTakeProfit(events[2]) /\ 2 \in Log)
             /\ n = 5 => IsActivation(events[3])
             /\ Ended(IF n = 3 THEN Full ELSE Half)
<1>1. FlatPosition
  BY DEF Story
<1>2. CASE Len(events) = 3
  <2>1. IsEntry(events[1]) /\ Ended(Full) /\ openFraction = 0
    BY <1>1, <1>2 DEF FlatPosition
  <2> QED BY <1>2, <2>1, LogLength
<1>3. CASE Len(events) = 4
  <2>1. IsEntry(events[1]) /\ IsTakeProfit(events[2]) /\ Ended(Half) /\ openFraction = 0
    BY <1>1, <1>3 DEF FlatPosition
  <2> QED BY <1>3, <2>1, LogLength
<1>4. CASE Len(events) = 5
  <2>1. /\ IsEntry(events[1]) /\ IsTakeProfit(events[2]) /\ IsActivation(events[3])
        /\ Ended(Half) /\ openFraction = 0
    BY <1>1, <1>4 DEF FlatPosition, HalfTaken
  <2> QED BY <1>4, <2>1, LogLength
<1> QED BY <1>1, <1>2, <1>3, <1>4 DEF FlatPosition

LEMMA DeadlineType ==
  ASSUME TypeOK, EntryKnown
  PROVE  /\ entry.time \in Nat /\ Deadline \in Nat
         /\ entry.time < Deadline /\ Deadline % Minute = 0
<1> DEFINE q == entry.time \div Bar
           k == Bar \div Minute
<1>1. entry.time \in Nat /\ Bar \in Nat \ {0} /\ Minute \in Nat \ {0} /\ MaxHoldingBars \in Nat \ {0}
  BY TimeAssumption DEF EntryKnown, EntryRecord
<1>2. q \in Nat /\ entry.time < q * Bar + Bar
  BY <1>1, DivisionBounds
<1>3. k \in Nat /\ Bar = k * Minute
  BY <1>1, TimeAssumption, DivisionBounds, Multiples
<1>4. Deadline = q * Bar + Bar * MaxHoldingBars
  BY DEF Deadline
<1> HIDE DEF q, k
<1>5. Bar * MaxHoldingBars >= Bar /\ Bar * MaxHoldingBars \in Nat /\ q * Bar \in Nat
  BY <1>1, <1>2
<1>6. entry.time < Deadline /\ Deadline \in Nat
  BY <1>1, <1>2, <1>4, <1>5
<1>7. Deadline = (q * k + k * MaxHoldingBars) * Minute
  BY <1>1, <1>2, <1>3, <1>4
<1>8. q * k + k * MaxHoldingBars \in Nat
  BY <1>1, <1>2, <1>3
<1>9. Deadline % Minute = 0
  <2> DEFINE m == q * k + k * MaxHoldingBars
  <2>1. m \in Nat /\ Deadline = m * Minute
    BY <1>7, <1>8
  <2> HIDE DEF m
  <2> QED BY <1>1, <2>1, MultipleIsDivisible
<1> QED BY <1>1, <1>6, <1>9

LEMMA NoneClosed ==
  ASSUME TypeOK,
         \A i, j \in Log : i < j => events[i].time <= events[j].time,
         \A i \in Log : events[i].type # "CLOSED",
         \A i \in Log : ~IsTerminal(events[i])
  PROVE  LogOrdered
<1>1. \A i \in Log : i > 1 => i - 1 \in Log
  BY LogLength
<1>2. \A i \in Log : i > 1 => ~IsTerminal(events[i - 1])
  BY <1>1
<1> QED BY <1>2 DEF LogOrdered

LEMMA ClosedLast ==
  ASSUME TypeOK, NEW n \in 2 .. Len(events), n = Len(events),
         \A i, j \in Log : i < j => events[i].time <= events[j].time,
         \A i \in Log : i < n => events[i].type # "CLOSED",
         \A i \in Log : i < n - 1 => ~IsTerminal(events[i]),
         IsTerminal(events[n - 1]), events[n].type = "CLOSED",
         events[n].time = events[n - 1].time
  PROVE  LogOrdered
<1>1. Len(events) \in Nat /\ Log = 1 .. n
  BY LogLength
<1>2. ASSUME NEW i \in Log, events[i].type = "CLOSED"
      PROVE  i = n
  BY <1>1, <1>2
<1>3. ASSUME NEW i \in Log, i > 1, IsTerminal(events[i - 1])
      PROVE  i = n
  <2>1. i - 1 \in Log /\ ~(i - 1 < n - 1)
    BY <1>1, <1>3
  <2> QED BY <1>1, <2>1
<1>4. n > 1
  BY <1>1
<1>5. \A i \in Log : events[i].type = "CLOSED" <=> i > 1 /\ IsTerminal(events[i - 1]) /\ i = n
  BY <1>2, <1>4
<1>6. \A i \in Log : events[i].type = "CLOSED" => events[i].time = events[i - 1].time
  BY <1>2
<1> QED BY <1>5, <1>6 DEF LogOrdered

LEMMA StoryGivesOrder ==
  ASSUME TypeOK, Story
  PROVE  LogOrdered
<1>0. Log = 1 .. Len(events) /\ \A i \in Log : events[i].time \in Nat
  BY LogLength DEF EventRecord
<1>1. CASE position = "NONE"
  <2>1. \A i \in Log : i = 1 /\ events[i].type \in Endings \cup {"ENTRY_FILL"}
    BY <1>0, <1>1, LogLength DEF Story, Untraded
  <2> QED BY <2>1 DEF LogOrdered, Endings
<1>2. CASE position = "FULL"
  <2>1. Len(events) = 1 /\ events[1].type = "ENTRY_FILL"
    BY <1>2 DEF Story, FullPosition, IsEntry
  <2>2. Log = {1}
    BY <1>0, <2>1
  <2>3. \A i, j \in Log : i < j => events[i].time <= events[j].time
    BY <2>2
  <2>4. \A i \in Log : events[i].type # "CLOSED" /\ ~IsTerminal(events[i])
    BY <2>1, <2>2 DEF IsTerminal
  <2> QED BY <2>3, <2>4, NoneClosed
<1>3. CASE position = "HALF"
  <2>1. HalfPosition /\ EntryKnown /\ signal = "TRIGGERED"
    BY <1>3 DEF Story
  <2>2. /\ events[1].type = "ENTRY_FILL" /\ events[2].type = "TP1_FILL"
        /\ events[1].time <= events[2].time
    BY <2>1 DEF HalfPosition, HalfTaken, IsEntry, IsTakeProfit
  <2>3. CASE Len(events) = 2
    <3>1. Log = {1, 2}
      BY <1>0, <2>3
    <3> QED BY <2>2, <3>1, NoneClosed DEF IsTerminal
  <2>4. CASE Len(events) = 3
    <3>1. Log = {1, 2, 3}
      BY <1>0, <2>4
    <3>2. events[3].type = "BREAKEVEN_ACTIVATED" /\ events[2].time <= events[3].time
      BY <1>0, <2>1, <2>4, <3>1 DEF HalfPosition, HalfTaken, IsActivation
    <3> QED BY <1>0, <2>2, <3>1, <3>2, NoneClosed DEF IsTerminal
  <2> QED BY <2>1, <2>3, <2>4 DEF HalfPosition
<1>4. CASE position = "FLAT"
  <2>1. FlatPosition
    BY <1>4 DEF Story
  <2>2. CASE Len(events) = 3
    <3>1. Log = {1, 2, 3}
      BY <1>0, <2>2
    <3>2. /\ events[1].type = "ENTRY_FILL" /\ IsTerminal(events[2]) /\ events[3].type = "CLOSED"
          /\ events[1].time <= events[2].time /\ events[3].time = events[2].time
      BY <2>1, <2>2 DEF FlatPosition, IsEntry, Ended
    <3>3. ASSUME NEW i \in Log, NEW j \in Log, i < j
          PROVE  events[i].time <= events[j].time
      <4>1. events[1].time \in Nat /\ events[2].time \in Nat /\ events[3].time \in Nat
        BY <1>0, <3>1
      <4>2. i \in {1, 2, 3} /\ j \in {1, 2, 3}
        BY <3>1
      <4>3. (i = 1 /\ j = 2) \/ (i = 1 /\ j = 3) \/ (i = 2 /\ j = 3)
        BY <3>3, <4>2
      <4> QED BY <3>2, <4>1, <4>3
    <3>4. \A i \in Log : i < 3 => events[i].type # "CLOSED"
      BY <3>1, <3>2 DEF IsTerminal
    <3>5. \A i \in Log : i < 2 => ~IsTerminal(events[i])
      BY <3>1, <3>2 DEF IsTerminal
    <3> QED BY <2>2, <3>2, <3>3, <3>4, <3>5, ClosedLast
  <2>3. CASE Len(events) = 4
    <3>1. Log = {1, 2, 3, 4}
      BY <1>0, <2>3
    <3>2. /\ events[1].type = "ENTRY_FILL" /\ events[2].type = "TP1_FILL"
          /\ IsTerminal(events[3]) /\ events[4].type = "CLOSED"
          /\ events[1].time <= events[2].time /\ events[2].time <= events[3].time
          /\ events[4].time = events[3].time
      BY <2>1, <2>3 DEF FlatPosition, IsEntry, IsTakeProfit, Ended
    <3>3. ASSUME NEW i \in Log, NEW j \in Log, i < j
          PROVE  events[i].time <= events[j].time
      <4>1. events[1].time \in Nat /\ events[2].time \in Nat /\ events[3].time \in Nat /\ events[4].time \in Nat
        BY <1>0, <3>1
      <4>2. i \in {1, 2, 3, 4} /\ j \in {1, 2, 3, 4}
        BY <3>1
      <4>3. (i = 1 /\ j = 2) \/ (i = 1 /\ j = 3) \/ (i = 1 /\ j = 4) \/ (i = 2 /\ j = 3) \/ (i = 2 /\ j = 4) \/ (i = 3 /\ j = 4)
        BY <3>3, <4>2
      <4> QED BY <3>2, <4>1, <4>3
    <3>4. \A i \in Log : i < 4 => events[i].type # "CLOSED"
      BY <3>1, <3>2 DEF IsTerminal
    <3>5. \A i \in Log : i < 3 => ~IsTerminal(events[i])
      BY <3>1, <3>2 DEF IsTerminal
    <3> QED BY <2>3, <3>2, <3>3, <3>4, <3>5, ClosedLast
  <2>4. CASE Len(events) = 5
    <3>1. Log = {1, 2, 3, 4, 5}
      BY <1>0, <2>4
    <3>2. /\ events[1].type = "ENTRY_FILL" /\ events[2].type = "TP1_FILL"
          /\ events[3].type = "BREAKEVEN_ACTIVATED"
          /\ IsTerminal(events[4]) /\ events[5].type = "CLOSED"
          /\ events[1].time <= events[2].time /\ events[2].time <= events[3].time
          /\ events[3].time <= events[4].time /\ events[5].time = events[4].time
      BY <1>0, <2>1, <2>4, <3>1
         DEF FlatPosition, HalfTaken, IsEntry, IsTakeProfit, IsActivation, Ended
    <3>3. ASSUME NEW i \in Log, NEW j \in Log, i < j
          PROVE  events[i].time <= events[j].time
      <4>1. events[1].time \in Nat /\ events[2].time \in Nat /\ events[3].time \in Nat /\ events[4].time \in Nat /\ events[5].time \in Nat
        BY <1>0, <3>1
      <4>2. i \in {1, 2, 3, 4, 5} /\ j \in {1, 2, 3, 4, 5}
        BY <3>1
      <4>3. (i = 1 /\ j = 2) \/ (i = 1 /\ j = 3) \/ (i = 1 /\ j = 4) \/ (i = 1 /\ j = 5) \/ (i = 2 /\ j = 3) \/ (i = 2 /\ j = 4) \/ (i = 2 /\ j = 5) \/ (i = 3 /\ j = 4) \/ (i = 3 /\ j = 5) \/ (i = 4 /\ j = 5)
        BY <3>3, <4>2
      <4> QED BY <3>2, <4>1, <4>3
    <3>4. \A i \in Log : i < 5 => events[i].type # "CLOSED"
      BY <3>1, <3>2 DEF IsTerminal
    <3>5. \A i \in Log : i < 4 => ~IsTerminal(events[i])
      BY <3>1, <3>2 DEF IsTerminal
    <3> QED BY <2>4, <3>2, <3>3, <3>4, <3>5, ClosedLast
  <2> QED BY <2>1, <2>2, <2>3, <2>4 DEF FlatPosition
<1> QED BY <1>1, <1>2, <1>3, <1>4 DEF TypeOK

LEMMA StoryGivesBalance ==
  ASSUME TypeOK, Story
  PROVE  FillsBalance
<1>1. CASE position = "NONE"
  <2>1. \A i \in Log : events[i].type \in Endings \cup {"ENTRY_FILL"}
    BY <1>1 DEF Story, Untraded
  <2>2. \A i \in Log : ~IsTp1(i) /\ ~IsTerminal(events[i])
    BY <2>1 DEF Endings, IsTp1, IsTerminal
  <2> QED BY <1>1, <2>2 DEF FillsBalance
<1>2. CASE position = "FULL"
  <2>1. Len(events) = 1 /\ events[1].type = "ENTRY_FILL" /\ openFraction = Full
    BY <1>2 DEF Story, FullPosition, IsEntry
  <2>2. \A i \in Log : ~IsTp1(i) /\ ~IsTerminal(events[i])
    BY <2>1, Positions DEF IsTp1, IsTerminal
  <2> QED BY <1>2, <2>1, <2>2 DEF FillsBalance
<1>3. CASE position = "HALF"
  <2>1. \A i \in Log : ~IsTerminal(events[i]) /\ (IsTp1(i) <=> i = 2)
    BY <1>3, HalfLog, Positions DEF IsTp1, IsTerminal, IsEntry, IsTakeProfit, IsActivation
  <2> QED BY <1>3, <2>1, HalfLog DEF FillsBalance
<1>4. CASE position = "FLAT"
  <2> DEFINE n == Len(events)
  <2>1. /\ n \in 3 .. 5 /\ n - 1 \in Log /\ openFraction = 0
        /\ events[1].type = "ENTRY_FILL"
        /\ IsTerminal(events[n - 1]) /\ events[n].type = "CLOSED"
        /\ events[n - 1].fraction = IF n = 3 THEN Full ELSE Half
        /\ n > 3 => events[2].type = "TP1_FILL" /\ 2 \in Log
        /\ n = 5 => events[3].type = "BREAKEVEN_ACTIVATED"
    BY <1>4, FlatLog DEF IsEntry, IsTakeProfit, IsActivation, Ended
  <2>2. ASSUME NEW i \in Log
        PROVE  (IsTerminal(events[i]) <=> i = n - 1) /\ (IsTp1(i) <=> (i = 2 /\ n > 3))
    <3>1. CASE n = 3
      BY <2>1, <3>1, Positions DEF IsTp1, IsTerminal
    <3>2. CASE n = 4
      BY <2>1, <3>2, Positions DEF IsTp1, IsTerminal
    <3>3. CASE n = 5
      BY <2>1, <3>3, Positions DEF IsTp1, IsTerminal
    <3> QED BY <2>1, <3>1, <3>2, <3>3
  <2>3. n > 3 => 2 < n - 1
    BY <2>1
  <2>4. \A j \in Log : (\E i \in Log : i < j /\ IsTp1(i)) <=> (2 < j /\ n > 3)
    BY <2>1, <2>2
  <2>5. \A j \in Log : IsTerminal(events[j]) =>
          events[j].fraction = IF \E i \in Log : i < j /\ IsTp1(i) THEN Half ELSE Full
    <3> SUFFICES ASSUME NEW j \in Log, IsTerminal(events[j])
                 PROVE  events[j].fraction = IF 2 < j /\ n > 3 THEN Half ELSE Full
      BY <2>4
    <3>1. j = n - 1
      BY <2>2
    <3>2. events[j].fraction = IF n = 3 THEN Full ELSE Half
      BY <2>1, <3>1
    <3>3. (n = 3 <=> ~(2 < j /\ n > 3)) /\ n \in 3 .. 5
      <4>1. n \in 3 .. 5
        BY <2>1
      <4> HIDE DEF n
      <4> QED BY <3>1, <4>1
    <3> HIDE DEF n
    <3> QED BY <3>2, <3>3
  <2> HIDE DEF n
  <2> QED BY <1>4, <2>1, <2>2, <2>5 DEF FillsBalance
<1> QED BY <1>1, <1>2, <1>3, <1>4 DEF TypeOK

\* Only a closed trade has a stop in its log.
LEMMA StopMeansFlat ==
  ASSUME TypeOK, Story, NEW k \in Log, events[k].reason \in StopReasons
  PROVE  position = "FLAT"
<1>1. CASE position = "NONE"
  BY <1>1 DEF Story, Untraded
<1>2. CASE position = "FULL"
  <2>1. Len(events) = 1 /\ events[1].reason \notin StopReasons
    BY <1>2 DEF Story, FullPosition, IsEntry
  <2> QED BY <2>1, Positions
<1>3. CASE position = "HALF"
  BY <1>3, HalfLog, Positions DEF StopReasons, IsEntry, IsTakeProfit, IsActivation
<1> QED BY <1>1, <1>2, <1>3 DEF TypeOK

LEMMA StoryGivesBreakeven ==
  ASSUME TypeOK, Story
  PROVE  BreakevenNotEarly
<1>1. SUFFICES ASSUME NEW k \in Log, events[k].reason = "BREAKEVEN_STOP"
      PROVE  \E i, j \in Log :
                /\ i < j /\ j < k /\ IsTp1(i) /\ events[j].type = "BREAKEVEN_ACTIVATED"
                /\ events[i].time < events[j].time /\ events[j].time % Minute = 0
  BY DEF BreakevenNotEarly
<1>2. FlatPosition
  BY <1>1, StopMeansFlat DEF Story, StopReasons
<1>3. CASE Len(events) = 3
  <2>1. /\ events[1].reason \notin StopReasons /\ events[2].reason # "BREAKEVEN_STOP"
        /\ events[3].reason = events[2].reason
    BY <1>2, <1>3 DEF FlatPosition, Ended, IsEntry
  <2> QED BY <1>1, <1>3, <2>1, Positions DEF StopReasons
<1>4. CASE Len(events) = 4
  <2>1. /\ events[1].reason \notin StopReasons /\ events[2].reason = "TP1_TARGET"
        /\ events[3].reason # "BREAKEVEN_STOP" /\ events[4].reason = events[3].reason
    BY <1>2, <1>4 DEF FlatPosition, Ended, IsEntry, IsTakeProfit
  <2> QED BY <1>1, <1>4, <2>1, Positions DEF StopReasons
<1>5. CASE Len(events) = 5
  <2>1. /\ events[1].reason \notin StopReasons /\ IsTakeProfit(events[2])
        /\ IsActivation(events[3])
        /\ events[2].time < activation /\ activation % Minute = 0
    BY <1>2, <1>5 DEF FlatPosition, HalfTaken, IsEntry
  <2>2. k = 4 \/ k = 5
    BY <1>1, <1>5, <2>1, Positions DEF StopReasons, IsTakeProfit, IsActivation
  <2>3. 2 \in Log /\ 3 \in Log /\ 3 < k
    BY <1>5, <2>2, LogLength
  <2>4. IsTp1(2) /\ events[3].type = "BREAKEVEN_ACTIVATED" /\ events[3].time = activation
    BY <2>1 DEF IsTp1, IsTakeProfit, IsActivation
  <2> QED BY <2>1, <2>3, <2>4
<1> QED BY <1>2, <1>3, <1>4, <1>5 DEF FlatPosition

LEMMA StoryGivesProtection ==
  ASSUME TypeOK, Story
  PROVE  HalfProtected
<1>1. position = "HALF" => breakevenActive \/ activation = now
  BY DEF Story, HalfPosition
<1>2. ASSUME NEW j \in Log, events[j].reason = "INITIAL_STOP", events[j].fraction = Half
      PROVE  \E i \in Log : i < j /\ IsTp1(i)
                /\ events[i].time \div Minute = events[j].time \div Minute
  <2>1. FlatPosition
    BY <1>2, StopMeansFlat DEF Story, StopReasons
  <2>2. CASE Len(events) = 3
    <3>1. /\ events[1].reason \notin StopReasons /\ events[2].fraction = Full
          /\ events[3].fraction = 0
      BY <2>1, <2>2 DEF FlatPosition, Ended, IsEntry
    <3> QED BY <1>2, <2>2, <3>1, Positions DEF StopReasons, Full, Half
  <2>3. CASE Len(events) = 4
    <3>1. /\ events[1].reason \notin StopReasons /\ IsTakeProfit(events[2])
          /\ events[4].fraction = 0
          /\ events[2].time \div Minute = events[3].time \div Minute
      BY <2>1, <2>3 DEF FlatPosition, Ended, IsEntry
    <3>2. j = 3
      BY <1>2, <2>3, <3>1, Positions DEF StopReasons, Half, IsTakeProfit
    <3>3. 2 \in Log /\ IsTp1(2)
      BY <2>3, <3>1, LogLength DEF IsTp1, IsTakeProfit
    <3> QED BY <3>1, <3>2, <3>3
  <2>4. CASE Len(events) = 5
    <3>1. /\ events[1].reason \notin StopReasons /\ IsTakeProfit(events[2])
          /\ IsActivation(events[3]) /\ events[4].reason # "INITIAL_STOP"
          /\ events[5].reason = events[4].reason
      BY <2>1, <2>4 DEF FlatPosition, HalfTaken, Ended, IsEntry
    <3> QED BY <1>2, <2>4, <3>1, Positions DEF StopReasons, IsTakeProfit, IsActivation
  <2> QED BY <2>1, <2>2, <2>3, <2>4 DEF FlatPosition
<1> QED BY <1>1, <1>2 DEF HalfProtected

LEMMA StoryGivesLimits ==
  ASSUME TypeOK, Story
  PROVE  ExitsByDeadline
<1>1. stage = "HOLDING" => now <= Deadline
  BY DEF Story
<1>2. ASSUME NEW i \in Log, events[i].type = "ENTRY_FILL"
      PROVE  ConfirmationClose <= events[i].time /\ events[i].time < ExpiresAt
  <2>1. EntryKnown /\ IsEntry(events[i])
    <3>1. CASE position = "NONE"
      BY <1>2, <3>1 DEF Story, Untraded
    <3>2. CASE position = "FULL"
      <4>1. Len(events) = 1 /\ IsEntry(events[1])
        BY <3>2 DEF Story, FullPosition
      <4> QED BY <3>2, <4>1, Positions DEF Story
    <3>3. CASE position = "HALF"
      <4>1. i = 1 /\ IsEntry(events[1])
        BY <1>2, <3>3, HalfLog, Positions DEF IsTakeProfit, IsActivation
      <4> QED BY <3>3, <4>1 DEF Story
    <3>4. CASE position = "FLAT"
      <4>1. /\ Len(events) \in 3 .. 5
            /\ IsTerminal(events[Len(events) - 1]) /\ events[Len(events)].type = "CLOSED"
            /\ Len(events) > 3 => events[2].type = "TP1_FILL"
            /\ Len(events) = 5 => events[3].type = "BREAKEVEN_ACTIVATED"
        BY <3>4, FlatLog DEF IsTakeProfit, IsActivation, Ended
      <4>2. i = 1
        <5>1. CASE Len(events) = 3
          BY <1>2, <4>1, <5>1, Positions DEF IsTerminal
        <5>2. CASE Len(events) = 4
          BY <1>2, <4>1, <5>2, Positions DEF IsTerminal
        <5>3. CASE Len(events) = 5
          BY <1>2, <4>1, <5>3, Positions DEF IsTerminal
        <5> QED BY <4>1, <5>1, <5>2, <5>3
      <4>3. IsEntry(events[1])
        BY <3>4, FlatLog
      <4> QED BY <3>4, <4>2, <4>3 DEF Story
    <3> QED BY <3>1, <3>2, <3>3, <3>4 DEF TypeOK
  <2> QED BY <2>1 DEF EntryKnown, IsEntry
<1>3. ASSUME NEW i \in Log, IsTerminal(events[i])
      PROVE  /\ events[i].time < Deadline + Minute
             /\ events[i].type = "TIME_EXIT" => events[i].time = Deadline
  <2>1. FillsBalance
    BY StoryGivesBalance
  <2>2. position = "FLAT"
    BY <1>3, <2>1 DEF FillsBalance
  <2>3. /\ Len(events) - 1 \in Log /\ Ended(IF Len(events) = 3 THEN Full ELSE Half)
    BY <2>2, FlatLog
  <2>4. i = Len(events) - 1
    BY <1>3, <2>1, <2>3 DEF FillsBalance, Ended
  <2> QED BY <2>3, <2>4 DEF Ended
<1> QED BY <1>1, <1>2, <1>3 DEF ExitsByDeadline

(* What a candle does to an open position *)

\* A fill that closes what is left of the position.
Closing(e, fraction) ==
  /\ e \in EventRecord /\ IsTerminal(e) /\ e.fraction = fraction
  /\ e.time < now + Minute
  /\ e.type = "TIME_EXIT" => e.time = now /\ now >= Deadline

ClosingPath(p, from) ==
  \/ \E e \in EventRecord :
       /\ p = << e >> /\ Closing(e, openFraction) /\ from <= e.time
       /\ IF position = "FULL" THEN e.reason # "BREAKEVEN_STOP" ELSE e.reason # "INITIAL_STOP"
  \/ /\ position = "FULL"
     /\ \E e, f \in EventRecord :
          /\ p = << e, f >> /\ IsTakeProfit(e) /\ Closing(f, Half) /\ f.type # "TIME_EXIT"
          /\ f.reason # "BREAKEVEN_STOP" /\ from <= e.time /\ e.time <= f.time

OpenPath(p, from) ==
  \/ p = << >>
  \/ /\ position = "FULL"
     /\ \E e \in EventRecord :
          p = << e >> /\ IsTakeProfit(e) /\ from <= e.time /\ e.time < now + Minute

\* The position when a candle is handled: a half is protected by then.
Ready ==
  /\ TypeOK /\ candle # NoCandle
  /\ \/ position = "FULL" /\ ~breakevenActive /\ openFraction = Full
     \/ position = "HALF" /\ breakevenActive /\ openFraction = Half

LEMMA TradeFill ==
  ASSUME TypeOK, candle # NoCandle, NEW i \in 1 .. Len(candle.trades),
         NEW type, NEW reason, NEW price, NEW fraction
  PROVE  LET e == TradeEvent(type, i, reason, price, fraction)
         IN  /\ e.type = type /\ e.reason = reason /\ e.fraction = fraction
             /\ e.time = now + candle.trades[i].at /\ e.time < now + Minute
             /\ e.time \in Nat
<1>1. candle.trades[i].at \in 0 .. Minute - 1 /\ now \in Nat /\ Minute \in Nat
  BY CandleType, TimeAssumption DEF TypeOK
<1>2. now + candle.trades[i].at < now + Minute /\ now + candle.trades[i].at \in Nat
  BY <1>1
<1> QED BY <1>2 DEF TradeEvent, Event

LEMMA KlineFill ==
  ASSUME TypeOK, NEW type, NEW reason, NEW price, NEW fraction
  PROVE  LET e == KlineEvent(type, reason, price, fraction)
         IN  /\ e.type = type /\ e.reason = reason /\ e.fraction = fraction
             /\ e.time = now /\ e.time < now + Minute
<1>1. now < now + Minute
  BY TimeAssumption DEF TypeOK
<1> QED BY <1>1 DEF KlineEvent, Event

LEMMA TradesSorted ==
  ASSUME TypeOK, candle # NoCandle,
         NEW i \in 1 .. Len(candle.trades), NEW j \in 1 .. Len(candle.trades), i <= j
  PROVE  now + candle.trades[i].at <= now + candle.trades[j].at
<1>1. candle.trades[i].at <= candle.trades[j].at
  BY DEF TypeOK, WellFormed
<1>2. candle.trades[i].at \in Nat /\ candle.trades[j].at \in Nat /\ now \in Nat
  BY CandleType, TimeAssumption DEF TypeOK
<1> QED BY <1>1, <1>2

\* The exit of a half by the trades from position "from" on.
LEMMA HalfExit ==
  ASSUME TypeOK, candle # NoCandle, NEW from \in Nat \ {0}, HalfTradePath(from) # << >>
  PROVE  \E e \in EventRecord, i \in from .. Len(candle.trades) :
            /\ HalfTradePath(from) = << e >> /\ Closing(e, Half) /\ e.type # "TIME_EXIT"
            /\ e.reason \in {ProtectiveReason, "TP2_TARGET"}
            /\ e.time = now + candle.trades[i].at
<1> DEFINE S == {k \in from .. Len(candle.trades) :
                    FallsTo(TradePrice(k), ProtectiveStop) \/ Reaches(TradePrice(k), Tp2)}
           i == First(S)
           stop == TradeEvent("STOP_FILL", i, ProtectiveReason, ProtectiveStop, Half)
           tp2 == TradeEvent("TP2_FILL", i, "TP2_TARGET", Tp2, Half)
<1>0. Len(candle.trades) \in Nat
  BY CandleType, LenProperties
<1>1. i # 0
  BY DEF HalfTradePath
<1>2. i \in from .. Len(candle.trades) /\ i \in 1 .. Len(candle.trades)
  <2>1. S \subseteq Nat
    BY <1>0
  <2>2. i \in S
    <3> HIDE DEF S
    <3> QED BY <1>1, <2>1, FirstIsSmallest
  <2> QED BY <2>2, <1>0
<1>3. HalfTradePath(from) = << stop >> \/ HalfTradePath(from) = << tp2 >>
  BY <1>1 DEF HalfTradePath
<1>4. PICK e \in EventRecord : HalfTradePath(from) = << e >>
  BY HalfTradePathType
<1> HIDE DEF i
<1>5. /\ stop.type = "STOP_FILL" /\ stop.reason = ProtectiveReason
      /\ tp2.type = "TP2_FILL" /\ tp2.reason = "TP2_TARGET"
      /\ stop.fraction = Half /\ tp2.fraction = Half
      /\ stop.time = now + candle.trades[i].at /\ stop.time < now + Minute
      /\ tp2.time = now + candle.trades[i].at /\ tp2.time < now + Minute
  BY <1>2, TradeFill
<1> HIDE DEF stop, tp2
<1>6. e = stop \/ e = tp2
  BY <1>3, <1>4
<1> QED BY <1>2, <1>4, <1>5, <1>6 DEF Closing, IsTerminal

\* Every trade the path may use lies at or after the time "start".
LEMMA TradePathStory ==
  ASSUME Ready, NEW from \in Nat \ {0}, NEW start \in Nat,
         \A k \in from .. Len(candle.trades) : start <= now + candle.trades[k].at
  PROVE  ClosingPath(TradePath(from), start) \/ OpenPath(TradePath(from), start)
<1>0. TypeOK /\ candle # NoCandle /\ Len(candle.trades) \in Nat
  BY CandleType, LenProperties DEF Ready
<1>1. CASE position = "HALF"
  <2>1. TradePath(from) = HalfTradePath(from) /\ openFraction = Half /\ breakevenActive
    BY <1>1 DEF TradePath, Ready
  <2>2. CASE HalfTradePath(from) = << >>
    BY <2>1, <2>2 DEF OpenPath
  <2>3. CASE HalfTradePath(from) # << >>
    <3>1. PICK e \in EventRecord, i \in from .. Len(candle.trades) :
            /\ HalfTradePath(from) = << e >> /\ Closing(e, Half)
            /\ e.reason \in {ProtectiveReason, "TP2_TARGET"}
            /\ e.time = now + candle.trades[i].at
      BY <1>0, <2>3, HalfExit
    <3>2. start <= e.time /\ e.reason # "INITIAL_STOP"
      BY <2>1, <3>1 DEF ProtectiveReason
    <3> QED BY <1>1, <2>1, <3>1, <3>2 DEF ClosingPath
  <2> QED BY <2>2, <2>3
<1>2. CASE position = "FULL"
  <2> DEFINE S == {k \in from .. Len(candle.trades) :
                    FallsTo(TradePrice(k), StopPrice) \/ Reaches(TradePrice(k), Tp1)}
             i == First(S)
             tp1 == TradeEvent("TP1_FILL", i, "TP1_TARGET", Tp1, Half)
             tp2 == TradeEvent("TP2_FILL", i, "TP2_TARGET", Tp2, Half)
             stop == TradeEvent("STOP_FILL", i, "INITIAL_STOP", StopPrice, Full)
  <2>1. TradePath(from) = FullTradePath(from) /\ openFraction = Full /\ ~breakevenActive
    BY <1>2 DEF TradePath, Ready
  <2>2. CASE i = 0
    BY <2>1, <2>2 DEF OpenPath, FullTradePath
  <2>3. CASE i # 0
    <3>1. i \in from .. Len(candle.trades) /\ i \in 1 .. Len(candle.trades)
      <4>1. S \subseteq Nat
        BY <1>0
      <4>2. i \in S
        <5> HIDE DEF S
        <5> QED BY <2>3, <4>1, FirstIsSmallest
      <4> QED BY <4>2, <1>0
    <3>2. FullTradePath(from) =
            IF FallsTo(TradePrice(i), StopPrice) THEN << stop >>
            ELSE IF Reaches(TradePrice(i), Tp2) THEN << tp1 >> \o << tp2 >>
            ELSE << tp1 >> \o HalfTradePath(i + 1)
      BY <2>3 DEF FullTradePath
    <3> HIDE DEF i
    <3>3. /\ IsTakeProfit(tp1) /\ tp1.time = now + candle.trades[i].at
          /\ tp2.type = "TP2_FILL" /\ tp2.reason = "TP2_TARGET" /\ tp2.fraction = Half
          /\ stop.type = "STOP_FILL" /\ stop.reason = "INITIAL_STOP" /\ stop.fraction = Full
          /\ tp2.time = tp1.time /\ stop.time = tp1.time
          /\ tp1.time \in Nat /\ tp1.time < now + Minute
      BY <1>0, <3>1, TradeFill DEF IsTakeProfit
    <3>4. tp1 \in EventRecord /\ tp2 \in EventRecord /\ stop \in EventRecord
      <4>1. /\ {"STOP_FILL", "TP1_FILL", "TP2_FILL"} \subseteq EventTypes
            /\ {"TP1_TARGET", "TP2_TARGET", "INITIAL_STOP"} \subseteq Reasons
            /\ Half \in 0 .. Full /\ Full \in 0 .. Full
            /\ StopPrice \in Nat /\ Tp1 \in Nat /\ Tp2 \in Nat
        BY PriceAssumption DEF EventTypes, Reasons, Half, Full
      <4> QED BY <1>0, <3>1, <4>1, TradeEventType
    <3>5. start <= tp1.time
      BY <3>1, <3>3
    <3> HIDE DEF tp1, tp2, stop
    <3>6. CASE FullTradePath(from) = << stop >>
      BY <1>2, <2>1, <3>3, <3>4, <3>5, <3>6 DEF ClosingPath, Closing, IsTerminal
    <3>7. CASE FullTradePath(from) = << tp1 >> \o << tp2 >>
      <4>1. FullTradePath(from) = << tp1, tp2 >>
        BY <3>7, ConcatSmall
      <4>2. Closing(tp2, Half) /\ tp2.type # "TIME_EXIT" /\ tp2.reason # "BREAKEVEN_STOP"
        BY <3>3, <3>4 DEF Closing, IsTerminal
      <4>3. tp1.time <= tp2.time
        BY <3>3
      <4> QED BY <1>2, <2>1, <3>3, <3>4, <3>5, <4>1, <4>2, <4>3 DEF ClosingPath
    <3>8. CASE FullTradePath(from) = << tp1 >> \o HalfTradePath(i + 1)
      <4>1. CASE HalfTradePath(i + 1) = << >>
        <5>1. FullTradePath(from) = << tp1 >>
          BY <3>8, <4>1, ConcatSmall
        <5> QED BY <1>2, <2>1, <3>3, <3>4, <3>5, <5>1 DEF OpenPath
      <4>2. CASE HalfTradePath(i + 1) # << >>
        <5>0. i + 1 \in Nat \ {0} /\ i + 1 \in Nat
          BY <1>0, <3>1
        <5>1. PICK f \in EventRecord, j \in (i + 1) .. Len(candle.trades) :
                /\ HalfTradePath(i + 1) = << f >> /\ Closing(f, Half) /\ f.type # "TIME_EXIT"
                /\ f.reason \in {ProtectiveReason, "TP2_TARGET"}
                /\ f.time = now + candle.trades[j].at
          BY <1>0, <4>2, <5>0, HalfExit
        <5>2. FullTradePath(from) = << tp1, f >>
          BY <3>8, <5>1, ConcatSmall
        <5>3. tp1.time <= f.time
          <6>1. j \in 1 .. Len(candle.trades) /\ i <= j
            BY <1>0, <3>1, <5>0
          <6> QED BY <1>0, <3>1, <3>3, <5>1, <6>1, TradesSorted
        <5>4. f.reason # "BREAKEVEN_STOP"
          BY <2>1, <5>1 DEF ProtectiveReason
        <5> QED BY <1>2, <2>1, <3>3, <3>4, <3>5, <5>1, <5>2, <5>3, <5>4 DEF ClosingPath
      <4> QED BY <4>1, <4>2
    <3> QED BY <3>2, <3>6, <3>7, <3>8
  <2> QED BY <2>2, <2>3
<1> QED BY <1>1, <1>2 DEF Ready

LEMMA PathEnds ==
  ASSUME NEW p, NEW from, ClosingPath(p, from) \/ OpenPath(p, from)
  PROVE  /\ Closes(p) => ClosingPath(p, from)
         /\ ~Closes(p) => OpenPath(p, from)
<1>1. ASSUME ClosingPath(p, from)
      PROVE  Closes(p)
  <2>1. CASE \E e \in EventRecord : p = << e >> /\ IsTerminal(e)
    BY <2>1 DEF Closes
  <2>2. CASE \E e, f \in EventRecord : p = << e, f >> /\ IsTerminal(f)
    BY <2>2 DEF Closes
  <2> QED BY <1>1, <2>1, <2>2 DEF ClosingPath, Closing
<1>2. ASSUME OpenPath(p, from)
      PROVE  ~Closes(p)
  <2>1. CASE p = << >>
    BY <2>1 DEF Closes
  <2>2. CASE \E e \in EventRecord : p = << e >> /\ IsTakeProfit(e)
    BY <2>2 DEF Closes, IsTerminal, IsTakeProfit
  <2> QED BY <1>2, <2>1, <2>2 DEF OpenPath
<1> QED BY <1>1, <1>2

LEMMA KlinePathStory ==
  ASSUME Ready, NEW from, from = now
  PROVE  /\ position = "FULL" => /\ ClosingPath(KlineStop(StopPrice, "INITIAL_STOP", Full), from)
                                 /\ ClosingPath(KlineTp1 \o KlineTp2, from)
                                 /\ OpenPath(KlineTp1, from)
         /\ position = "HALF" => /\ ClosingPath(KlineStop(breakeven, "BREAKEVEN_STOP", Half), from)
                                 /\ ClosingPath(KlineTp2, from)
         /\ now >= Deadline => ClosingPath(TimeExit, from)
         /\ OpenPath(<< >>, from)
<1> DEFINE stop == KlineEvent("STOP_FILL", "INITIAL_STOP", StopPrice, Full)
           even == KlineEvent("STOP_FILL", "BREAKEVEN_STOP", breakeven, Half)
           tp1 == KlineEvent("TP1_FILL", "TP1_TARGET", Tp1, Half)
           tp2 == KlineEvent("TP2_FILL", "TP2_TARGET", Tp2, Half)
           exit == KlineEvent("TIME_EXIT", "MAX_HOLDING_REACHED", candle.open, openFraction)
<1>0. TypeOK /\ candle # NoCandle /\ now <= now
  BY DEF Ready, TypeOK
<1>1. /\ stop \in EventRecord /\ even \in EventRecord /\ tp1 \in EventRecord
      /\ tp2 \in EventRecord /\ exit \in EventRecord
  <2>1. /\ {"STOP_FILL", "TP1_FILL", "TP2_FILL", "TIME_EXIT"} \subseteq EventTypes
        /\ {"TP1_TARGET", "TP2_TARGET", "INITIAL_STOP", "BREAKEVEN_STOP",
            "MAX_HOLDING_REACHED"} \subseteq Reasons
        /\ Half \in 0 .. Full /\ Full \in 0 .. Full /\ openFraction \in 0 .. Full
        /\ StopPrice \in Nat /\ Tp1 \in Nat /\ Tp2 \in Nat /\ breakeven \in Nat
        /\ candle.open \in Nat
    BY <1>0, PriceAssumption, CandleType DEF EventTypes, Reasons, Half, Full, TypeOK
  <2> QED BY <1>0, <2>1, KlineEventType
<1>2. /\ stop.type = "STOP_FILL" /\ stop.reason = "INITIAL_STOP" /\ stop.fraction = Full
      /\ stop.time = now /\ stop.time < now + Minute
      /\ even.type = "STOP_FILL" /\ even.reason = "BREAKEVEN_STOP" /\ even.fraction = Half
      /\ even.time = now /\ even.time < now + Minute
  BY <1>0, KlineFill
<1>3. /\ tp1.type = "TP1_FILL" /\ tp1.reason = "TP1_TARGET" /\ tp1.fraction = Half
      /\ tp1.time = now /\ tp1.time < now + Minute
      /\ tp2.type = "TP2_FILL" /\ tp2.reason = "TP2_TARGET" /\ tp2.fraction = Half
      /\ tp2.time = now /\ tp2.time < now + Minute
  BY <1>0, KlineFill
<1>4. /\ exit.type = "TIME_EXIT" /\ exit.reason = "MAX_HOLDING_REACHED"
      /\ exit.fraction = openFraction /\ exit.time = now /\ exit.time < now + Minute
  BY <1>0, KlineFill
<1>5. KlineTp1 \o KlineTp2 = << tp1, tp2 >>
  BY ConcatSmall DEF KlineTp1, KlineTp2
<1>6. /\ KlineStop(StopPrice, "INITIAL_STOP", Full) = << stop >>
      /\ KlineStop(breakeven, "BREAKEVEN_STOP", Half) = << even >>
      /\ KlineTp1 = << tp1 >> /\ KlineTp2 = << tp2 >> /\ TimeExit = << exit >>
  BY DEF KlineStop, KlineTp1, KlineTp2, TimeExit
<1> HIDE DEF stop, even, tp1, tp2, exit
<1>7. /\ Closing(stop, Full) /\ Closing(even, Half) /\ Closing(tp2, Half)
      /\ now >= Deadline => Closing(exit, openFraction)
      /\ IsTakeProfit(tp1)
  BY <1>1, <1>2, <1>3, <1>4 DEF Closing, IsTerminal, IsTakeProfit
<1>8. ASSUME position = "FULL"
      PROVE  /\ ClosingPath(<< stop >>, from) /\ ClosingPath(<< tp1, tp2 >>, from)
             /\ OpenPath(<< tp1 >>, from)
  <2>1. openFraction = Full
    BY <1>8 DEF Ready
  <2>2. ClosingPath(<< stop >>, from)
    BY <1>0, <1>1, <1>2, <1>7, <1>8, <2>1 DEF ClosingPath
  <2>3. ClosingPath(<< tp1, tp2 >>, from)
    BY <1>0, <1>1, <1>3, <1>7, <1>8 DEF ClosingPath
  <2>4. OpenPath(<< tp1 >>, from)
    BY <1>0, <1>1, <1>3, <1>7, <1>8 DEF OpenPath
  <2> QED BY <2>2, <2>3, <2>4
<1>9. ASSUME position = "HALF"
      PROVE  ClosingPath(<< even >>, from) /\ ClosingPath(<< tp2 >>, from)
  <2>1. openFraction = Half
    BY <1>9 DEF Ready
  <2>2. ClosingPath(<< even >>, from)
    BY <1>0, <1>1, <1>2, <1>7, <1>9, <2>1 DEF ClosingPath
  <2>3. ClosingPath(<< tp2 >>, from)
    BY <1>0, <1>1, <1>3, <1>7, <1>9, <2>1 DEF ClosingPath
  <2> QED BY <2>2, <2>3
<1>10. ASSUME now >= Deadline
       PROVE  ClosingPath(<< exit >>, from)
  BY <1>0, <1>1, <1>4, <1>7, <1>10 DEF ClosingPath
<1> QED BY <1>5, <1>6, <1>8, <1>9, <1>10 DEF OpenPath

\* Nothing of a path happens before this moment.
Start == IF OnEntryCandle THEN entry.time ELSE now

LEMMA HoldingIsReady ==
  ASSUME TypeOK, Story, Holding, ~ActivationDue
  PROVE  Ready
<1>1. candle # NoCandle /\ position \in {"FULL", "HALF"}
  BY DEF Holding, Story
<1>2. CASE position = "FULL"
  BY <1>1, <1>2 DEF Story, FullPosition, Ready
<1>3. CASE position = "HALF"
  <2>1. HalfPosition
    BY <1>3 DEF Story
  <2>2. ~breakevenActive => activation = now
    BY <2>1 DEF HalfPosition
  <2>3. now \in Nat /\ now >= now /\ now # NoTime
    BY DEF TypeOK, NoTime
  <2>4. breakevenActive
    BY <2>2, <2>3 DEF ActivationDue
  <2> QED BY <1>1, <1>3, <2>1, <2>4 DEF Ready, HalfPosition
<1> QED BY <1>1, <1>2, <1>3

LEMMA CandlePathStory ==
  ASSUME TypeOK, Story, HandleCandle
  PROVE  /\ Ready /\ Start \in Nat
         /\ ClosingPath(CandlePath, Start) \/ OpenPath(CandlePath, Start)
<1>1. Ready /\ candle # NoCandle /\ stage = "HOLDING" /\ EntryKnown /\ now \in Nat
  BY HoldingIsReady DEF HandleCandle, Holding, Story, TypeOK
<1>2. entry.time \in Nat /\ entry.ref \in Nat /\ entry.source \in Sources
  BY <1>1 DEF EntryKnown, EntryRecord
<1>3. Start \in Nat
  BY <1>1, <1>2 DEF Start
<1>4. CASE candle.complete
  <2>1. TradesFrom \in Nat \ {0}
    BY <1>2 DEF TradesFrom
  <2>2. ASSUME NEW k \in TradesFrom .. Len(candle.trades)
        PROVE  Start <= now + candle.trades[k].at
    <3>1. k \in 1 .. Len(candle.trades)
      BY <1>1, <2>1, CandleType, LenProperties
    <3>2. candle.trades[k].at \in Nat
      BY <1>1, <3>1, CandleType, TimeAssumption
    <3>3. now <= now + candle.trades[k].at
      BY <1>1, <3>2
    <3>4. CASE OnEntryCandle /\ entry.source = "AGG_TRADE"
      <4>1. /\ entry.ref \in 1 .. Len(candle.trades)
            /\ entry.time = now + candle.trades[entry.ref].at
        BY <1>1, <3>4 DEF EntryKnown
      <4>2. entry.ref <= k
        BY <1>2, <3>1, <3>4 DEF TradesFrom
      <4> QED BY <1>1, <3>1, <3>4, <4>1, <4>2, TradesSorted DEF Start
    <3>5. CASE OnEntryCandle /\ entry.source = "KLINE_1M"
      <4>1. entry.time = now
        BY <1>1, <3>5 DEF EntryKnown
      <4> QED BY <3>3, <3>5, <4>1 DEF Start
    <3>6. CASE ~OnEntryCandle
      BY <3>3, <3>6 DEF Start
    <3> QED BY <1>2, <3>4, <3>5, <3>6 DEF Sources
  <2>3. ClosingPath(TradePath(TradesFrom), Start) \/ OpenPath(TradePath(TradesFrom), Start)
    BY <1>1, <1>3, <2>1, <2>2, TradePathStory
  <2> QED BY <1>1, <1>3, <1>4, <2>3 DEF CandlePath
<1>5. CASE ~candle.complete
  <2>1. Start = now
    BY <1>1, <1>2, <1>5 DEF Start, EntryKnown, Sources
  <2>2. ASSUME position = "FULL"
        PROVE  ClosingPath(OhlcPath, Start) \/ OpenPath(OhlcPath, Start)
    <3>1. /\ ClosingPath(KlineStop(StopPrice, "INITIAL_STOP", Full), Start)
          /\ ClosingPath(KlineTp1 \o KlineTp2, Start)
          /\ OpenPath(KlineTp1, Start) /\ OpenPath(<< >>, Start)
      BY <1>1, <2>1, <2>2, KlinePathStory
    <3>2. OhlcPath \in {KlineStop(StopPrice, "INITIAL_STOP", Full), KlineTp1 \o KlineTp2,
                       KlineTp1, << >>}
      BY <2>2 DEF OhlcPath
    <3> QED BY <3>1, <3>2
  <2>3. ASSUME position = "HALF"
        PROVE  ClosingPath(OhlcPath, Start) \/ OpenPath(OhlcPath, Start)
    <3>1. /\ ClosingPath(KlineStop(breakeven, "BREAKEVEN_STOP", Half), Start)
          /\ ClosingPath(KlineTp2, Start) /\ OpenPath(<< >>, Start)
      BY <1>1, <2>1, <2>3, KlinePathStory
    <3>2. OhlcPath \in {KlineStop(breakeven, "BREAKEVEN_STOP", Half), KlineTp2, << >>}
      BY <2>3 DEF OhlcPath
    <3> QED BY <3>1, <3>2
  <2>4. ClosingPath(OhlcPath, Start) \/ OpenPath(OhlcPath, Start)
    BY <1>1, <2>2, <2>3 DEF Ready
  <2> QED BY <1>1, <1>3, <1>5, <2>4 DEF CandlePath
<1> QED BY <1>4, <1>5

LEMMA DeadlinePathStory ==
  ASSUME TypeOK, Story, Holding, ~ActivationDue, now >= Deadline
  PROVE  Ready /\ now = Deadline /\ ~OnEntryCandle /\ ClosingPath(DeadlinePath, now)
<1>1. Ready /\ candle # NoCandle /\ EntryKnown /\ now \in Nat /\ now <= Deadline
  BY HoldingIsReady DEF Holding, Story, TypeOK
<1>2. Deadline \in Nat /\ entry.time \in Nat /\ entry.time < Deadline
  BY <1>1, DeadlineType
<1>3. now = Deadline
  BY <1>1, <1>2
<1>4. ~OnEntryCandle
  <2>1. ~(entry.time >= now)
    BY <1>1, <1>2, <1>3
  <2> QED BY <2>1, <1>1 DEF EntryKnown, Holding
<1>5. ClosingPath(TimeExit, now)
  BY <1>1, KlinePathStory
<1>6. DeadlineRiskPath # << >> => ClosingPath(DeadlineRiskPath, now)
  <2>1. CASE ~candle.complete
    <3>1. position = "HALF" => ProtectiveStop = breakeven /\ ProtectiveReason = "BREAKEVEN_STOP"
      BY <1>1 DEF Ready, ProtectiveStop, ProtectiveReason
    <3>2. CASE position = "FULL"
      BY <1>1, <2>1, <3>2, KlinePathStory DEF DeadlineRiskPath, DeadlineOhlcPath
    <3>3. CASE position = "HALF"
      BY <1>1, <2>1, <3>1, <3>3, KlinePathStory DEF DeadlineRiskPath, DeadlineOhlcPath
    <3> QED BY <1>1, <3>2, <3>3 DEF Ready
  <2>2. CASE candle.complete
    <3>1. ASSUME NEW k \in 1 .. Len(candle.trades)
          PROVE  now <= now + candle.trades[k].at
      <4>1. candle.trades[k].at \in Nat
        BY <1>1, CandleType, TimeAssumption
      <4> QED BY <1>1, <4>1
    <3>2. ClosingPath(TradePath(1), now) \/ OpenPath(TradePath(1), now)
      BY <1>1, <3>1, TradePathStory
    <3> QED BY <2>2, <3>2, PathEnds DEF DeadlineRiskPath
  <2> QED BY <2>1, <2>2
<1> QED BY <1>1, <1>3, <1>4, <1>5, <1>6 DEF DeadlinePath

(* The story goes on *)

LEMMA PartsKept ==
  ASSUME UNCHANGED <<signal, entry, openFraction, activation, breakevenActive, events, exitReason>>
  PROVE  /\ Untraded' <=> Untraded
         /\ FullPosition' <=> FullPosition
         /\ HalfTaken' <=> HalfTaken
         /\ FlatPosition' <=> FlatPosition
         /\ Deadline' = Deadline
<1>1. Deadline' = Deadline
  BY DEF Deadline
<1>2. Untraded' <=> Untraded
  BY DEF Untraded, Log, IsEntry
<1>3. (FullPosition' <=> FullPosition) /\ (HalfTaken' <=> HalfTaken)
  BY DEF FullPosition, HalfTaken, IsEntry, IsTakeProfit
<1>4. FlatPosition' <=> FlatPosition
  BY <1>1, <1>3 DEF FlatPosition, Ended, IsEntry, IsTakeProfit, IsActivation, IsTerminal
<1> QED BY <1>1, <1>2, <1>3, <1>4

LEMMA InitStory ==
  ASSUME Init
  PROVE  Story
<1>1. Untraded
  BY DEF Init, Untraded, Log
<1>2. now % Minute = 0
  BY TimeAssumption DEF Init
<1> QED BY <1>1, <1>2 DEF Init, Story

LEMMA ReadingKeepsStory ==
  ASSUME TypeOK, Story, ReadCandle \/ DataExhausted
  PROVE  Story'
<1>1. /\ UNCHANGED <<signal, entry, openFraction, activation, breakevenActive, events, exitReason>>
      /\ now' = now /\ position' = position /\ candle = NoCandle
      /\ stage \in {"ARMED", "HOLDING"} /\ (stage' = stage \/ stage' = "RETURNED")
  BY DEF ReadCandle, DataExhausted
<1>2. HalfPosition' <=> HalfPosition
  BY <1>1, PartsKept DEF HalfPosition, IsActivation
<1>3. EntryKnown => EntryKnown'
  BY <1>1 DEF EntryKnown, OnEntryCandle
<1>4. /\ Untraded' <=> Untraded
      /\ FullPosition' <=> FullPosition
      /\ FlatPosition' <=> FlatPosition
      /\ Deadline' = Deadline
  BY <1>1, PartsKept
<1> QED BY <1>1, <1>2, <1>3, <1>4 DEF Story

LEMMA MinutePasses ==
  ASSUME TypeOK, now % Minute = 0, NextMinute
  PROVE  now' = now + Minute /\ now' % Minute = 0 /\ candle' = NoCandle
<1>1. now \in Nat /\ Minute \in Nat \ {0}
  BY TimeAssumption DEF TypeOK
<1>2. (now + Minute) % Minute = 0
  BY <1>1, TimeAssumption, NextMultiple
<1> QED BY <1>2 DEF NextMinute

LEMMA PassArmedKeepsStory ==
  ASSUME TypeOK, Story, stage = "ARMED", PassArmed
  PROVE  Story'
<1>1. now' % Minute = 0
  BY MinutePasses DEF Story, PassArmed
<1>2. /\ UNCHANGED <<signal, entry, openFraction, activation, breakevenActive, events, exitReason>>
      /\ stage' = "ARMED" /\ position' = position
  BY DEF PassArmed, TradeUnchanged
<1>3. Untraded' <=> Untraded
  BY <1>2, PartsKept
<1> QED BY <1>1, <1>2, <1>3 DEF Story

LEMMA EndArmedKeepsStory ==
  ASSUME TypeOK, Story, stage = "ARMED", NEW state \in Endings, NEW e,
         e.type \in Endings, e.reason \notin StopReasons, EndArmed(state, e)
  PROVE  Story'
<1>1. /\ events' = << e >> /\ signal' = state /\ stage' = "RETURNED" /\ position' = "NONE"
      /\ now' = now
      /\ UNCHANGED <<openFraction, activation, breakevenActive, exitReason>>
  BY DEF Story, EndArmed, TradeUnchanged
<1>2. Len(events') = 1 /\ DOMAIN events' = {1} /\ events'[1] = e
  BY <1>1
<1>3. Untraded
  BY DEF Story
<1>4. Untraded'
  BY <1>1, <1>2, <1>3 DEF Untraded, Log, Endings
<1> QED BY <1>1, <1>4 DEF Story, Endings

LEMMA TriggerKeepsStory ==
  ASSUME TypeOK, TypeOK', Story, InWindow, NEW e, NEW reason, reason \notin StopReasons,
         Trigger(e, reason), e.candleOpen = now, e.time \in Nat,
         e.time >= now, e.time < now + Minute, e.source \in Sources,
         e.source = "KLINE_1M" => e.time = now,
         e.source = "AGG_TRADE" => /\ candle.complete /\ e.ref \in 1 .. Len(candle.trades)
                                   /\ e.time = now + candle.trades[e.ref].at
  PROVE  Story'
<1>1. /\ events' = << EntryFillOf(e, reason) >> /\ signal' = "TRIGGERED" /\ stage' = "ENTERED"
      /\ position' = "NONE" /\ entry' = e /\ now' = now /\ candle' = candle /\ candle # NoCandle
      /\ UNCHANGED <<openFraction, activation, breakevenActive, exitReason>>
  BY DEF Story, Trigger, TradeUnchanged, InWindow, Scanning
<1>2. /\ Len(events') = 1 /\ DOMAIN events' = {1}
      /\ events'[1].type = "ENTRY_FILL" /\ events'[1].time = e.time
      /\ events'[1].reason = reason
  BY <1>1 DEF EntryFillOf, Event
<1>3. Untraded
  BY DEF Story, InWindow, Scanning
<1>4. Untraded'
  BY <1>1, <1>2, <1>3 DEF Untraded, Log, IsEntry
<1>5. /\ now \in Nat /\ Minute \in Nat /\ ConfirmationClose \in Nat /\ ExpiresAt \in Nat
      /\ ConfirmationClose <= now /\ now + Minute <= ExpiresAt
  <2>1. now \in Nat /\ now % Minute = 0 /\ ConfirmationClose <= now /\ now < ExpiresAt
    BY DEF TypeOK, Story, InWindow
  <2> QED BY <2>1, TimeAssumption, NextMultiple
<1>6. ConfirmationClose <= e.time /\ e.time < ExpiresAt
  BY <1>5
<1>7. e \in EntryRecord
  <2>1. e \in EntryRecord \cup {NoEntry}
    BY <1>1 DEF TypeOK
  <2>2. NoEntry.time \notin Nat
    BY DEF NoEntry, NoTime
  <2> QED BY <2>1, <2>2
<1>8. EntryKnown'
  <2>1. OnEntryCandle' /\ now <= now
    BY <1>1, <1>5 DEF OnEntryCandle
  <2> QED BY <1>1, <1>6, <1>7, <2>1 DEF EntryKnown, Sources
<1> QED BY <1>1, <1>2, <1>4, <1>8 DEF Story

LEMMA ArmedStepKeepsStory ==
  ASSUME TypeOK, TypeOK', Story, ArmedStep
  PROVE  Story'
<1>1. CASE SkipEarlyCandle
  BY <1>1, PassArmedKeepsStory DEF SkipEarlyCandle, PassArmed, Scanning
<1>2. CASE Expire
  <2> DEFINE e == Event("EXPIRED", ExpiresAt, "KLINE_1M", ExpiresAt, "ENTRY_WINDOW_EXPIRED", 0, 0)
  <2>1. e.type \in Endings /\ e.reason \notin StopReasons /\ "EXPIRED" \in Endings
    BY DEF Event, Endings, StopReasons
  <2>2. EndArmed("EXPIRED", e) /\ stage = "ARMED"
    BY <1>2 DEF Expire, Scanning
  <2> HIDE DEF e
  <2> QED BY <2>1, <2>2, EndArmedKeepsStory
<1>3. CASE Miss
  <2> DEFINE e == KlineEvent("MISSED", "ENTRY_GAP_TOO_LARGE", 0, 0)
  <2>1. e.type \in Endings /\ e.reason \notin StopReasons /\ "MISSED" \in Endings
    BY DEF KlineEvent, Event, Endings, StopReasons
  <2>2. EndArmed("MISSED", e) /\ stage = "ARMED"
    BY <1>3 DEF Miss, InWindow, Scanning
  <2> HIDE DEF e
  <2> QED BY <2>1, <2>2, EndArmedKeepsStory
<1>4. CASE EnterOnTrade
  <2> DEFINE i == DecisiveTrade
             e == [price |-> EntryPrice, time |-> now + candle.trades[i].at,
                   candleOpen |-> now, source |-> "AGG_TRADE", ref |-> i, stopAlso |-> FALSE]
  <2>1. InWindow /\ candle # NoCandle /\ candle.complete /\ i # 0
    BY <1>4 DEF EnterOnTrade, ByTrades, InWindow, Scanning
  <2>2. i \in 1 .. Len(candle.trades) /\ candle.trades[i].at \in 0 .. Minute - 1
    BY <2>1, DecisiveTradeType, CandleType
  <2>3. Trigger(e, "ENTRY_NORMAL_CROSS")
    BY <1>4 DEF EnterOnTrade
  <2> HIDE DEF i
  <2>4. now \in Nat /\ Minute \in Nat
    BY TimeAssumption DEF TypeOK
  <2>5. e.time \in Nat /\ e.time >= now /\ e.time < now + Minute
    BY <2>2, <2>4
  <2>6. /\ e.candleOpen = now /\ e.source = "AGG_TRADE" /\ e.ref = i
        /\ e.time = now + candle.trades[e.ref].at
    OBVIOUS
  <2> HIDE DEF e
  <2>7. e.source \in Sources /\ e.source # "KLINE_1M" /\ "ENTRY_NORMAL_CROSS" \notin StopReasons
    BY <2>6 DEF Sources, StopReasons
  <2> QED BY <2>1, <2>2, <2>3, <2>5, <2>6, <2>7, TriggerKeepsStory
<1>5. CASE InvalidateOnTrade
  <2> DEFINE e == TradeEvent("INVALIDATED", DecisiveTrade, "STRUCTURE_INVALIDATED_BEFORE_ENTRY", 0, 0)
  <2>1. e.type \in Endings /\ e.reason \notin StopReasons /\ "INVALIDATED" \in Endings
    BY DEF TradeEvent, Event, Endings, StopReasons
  <2>2. EndArmed("INVALIDATED", e) /\ stage = "ARMED"
    BY <1>5 DEF InvalidateOnTrade, ByTrades, InWindow, Scanning
  <2> HIDE DEF e
  <2> QED BY <2>1, <2>2, EndArmedKeepsStory
<1>6. CASE PassTrades
  BY <1>6, PassArmedKeepsStory DEF PassTrades, ByTrades, InWindow, Scanning
<1>7. CASE EnterOnOhlc
  <2> DEFINE e == [price |-> IF GapEntry(candle) THEN candle.open ELSE EntryPrice,
                   time |-> now, candleOpen |-> now, source |-> "KLINE_1M", ref |-> now,
                   stopAlso |-> InvalidationTouched]
             r == IF InvalidationTouched THEN "ENTRY_AND_INVALIDATION_SAME_CANDLE"
                  ELSE IF GapEntry(candle) THEN "ENTRY_GAP_WITHIN_LIMIT"
                  ELSE "ENTRY_NORMAL_CROSS"
  <2>1. InWindow /\ Trigger(e, r)
    BY <1>7 DEF EnterOnOhlc, ByOhlc
  <2>2. r \notin StopReasons
    BY DEF StopReasons
  <2>3. now \in Nat /\ now >= now /\ now < now + Minute
    BY TimeAssumption DEF TypeOK
  <2>4. e.time = now /\ e.candleOpen = now /\ e.source = "KLINE_1M"
    OBVIOUS
  <2> HIDE DEF e, r
  <2>5. e.source \in Sources /\ e.source # "AGG_TRADE"
    BY <2>4 DEF Sources
  <2> QED BY <2>1, <2>2, <2>3, <2>4, <2>5, TriggerKeepsStory
<1>8. CASE InvalidateOnOhlc
  <2> DEFINE e == KlineEvent("INVALIDATED", "STRUCTURE_INVALIDATED_BEFORE_ENTRY", 0, 0)
  <2>1. e.type \in Endings /\ e.reason \notin StopReasons /\ "INVALIDATED" \in Endings
    BY DEF KlineEvent, Event, Endings, StopReasons
  <2>2. EndArmed("INVALIDATED", e) /\ stage = "ARMED"
    BY <1>8 DEF InvalidateOnOhlc, ByOhlc, InWindow, Scanning
  <2> HIDE DEF e
  <2> QED BY <2>1, <2>2, EndArmedKeepsStory
<1>9. CASE PassOhlc
  BY <1>9, PassArmedKeepsStory DEF PassOhlc, ByOhlc, InWindow, Scanning
<1> QED BY <1>1, <1>2, <1>3, <1>4, <1>5, <1>6, <1>7, <1>8, <1>9 DEF ArmedStep

LEMMA AddOne ==
  ASSUME NEW log \in Seq(EventRecord), NEW e \in EventRecord
  PROVE  /\ log \o << e >> \in Seq(EventRecord) /\ Len(log) \in Nat
         /\ Len(log \o << e >>) = Len(log) + 1 /\ (log \o << e >>)[Len(log) + 1] = e
         /\ \A i \in 1 .. Len(log) : (log \o << e >>)[i] = log[i]
<1>1. << e >> \in Seq(EventRecord) /\ Len(log) \in Nat
  BY LenProperties
<1>2. /\ log \o << e >> \in Seq(EventRecord) /\ Len(log \o << e >>) = Len(log) + 1
      /\ \A i \in 1 .. Len(log) + 1 :
            (log \o << e >>)[i] = IF i <= Len(log) THEN log[i] ELSE << e >>[i - Len(log)]
  BY <1>1, ConcatProperties
<1> QED BY <1>1, <1>2

LEMMA CloseWithOne ==
  ASSUME NEW log \in Seq(EventRecord), NEW e \in EventRecord, NEW c \in EventRecord
  PROVE  LET new == (log \o << e >>) \o << c >>
         IN  /\ Len(new) = Len(log) + 2 /\ Len(log) \in Nat
             /\ \A i \in 1 .. Len(log) : new[i] = log[i]
             /\ new[Len(log) + 1] = e /\ new[Len(log) + 2] = c
<1> DEFINE mid == log \o << e >>
           n == Len(log)
<1>1. /\ mid \in Seq(EventRecord) /\ n \in Nat /\ Len(mid) = n + 1 /\ mid[n + 1] = e
      /\ \A i \in 1 .. n : mid[i] = log[i]
  BY AddOne
<1> HIDE DEF mid, n
<1>2. /\ Len(mid \o << c >>) = n + 1 + 1 /\ (mid \o << c >>)[n + 1 + 1] = c
      /\ \A i \in 1 .. n + 1 : (mid \o << c >>)[i] = mid[i]
  BY <1>1, AddOne
<1>3. n + 1 + 1 = n + 2 /\ n + 1 \in 1 .. n + 1 /\ 1 .. n \subseteq 1 .. n + 1
  BY <1>1
<1> QED BY <1>1, <1>2, <1>3 DEF mid, n

\* A closing path of two fills follows the entry.
LEMMA CloseWithTwo ==
  ASSUME NEW log \in Seq(EventRecord), Len(log) = 1,
         NEW e \in EventRecord, NEW f \in EventRecord, NEW c \in EventRecord
  PROVE  LET new == (log \o << e, f >>) \o << c >>
         IN  /\ Len(new) = 4
             /\ new[1] = log[1] /\ new[2] = e /\ new[3] = f /\ new[4] = c
<1> DEFINE mid == log \o << e, f >>
<1>1. << e, f >> \in Seq(EventRecord)
  OBVIOUS
<1>2. /\ mid \in Seq(EventRecord) /\ Len(mid) = 3
      /\ \A i \in 1 .. 3 : mid[i] = IF i <= 1 THEN log[i] ELSE << e, f >>[i - 1]
  BY <1>1, ConcatProperties
<1>3. mid[1] = log[1] /\ mid[2] = e /\ mid[3] = f
  BY <1>2
<1> HIDE DEF mid
<1>4. /\ Len(mid \o << c >>) = 3 + 1 /\ (mid \o << c >>)[3 + 1] = c
      /\ \A i \in 1 .. 3 : (mid \o << c >>)[i] = mid[i]
  <2>1. mid \in Seq(EventRecord) /\ Len(mid) = 3
    BY <1>2
  <2>2. /\ Len(mid \o << c >>) = Len(mid) + 1 /\ (mid \o << c >>)[Len(mid) + 1] = c
        /\ \A i \in 1 .. Len(mid) : (mid \o << c >>)[i] = mid[i]
    BY <2>1, AddOne
  <2> QED BY <2>1, <2>2
<1> QED BY <1>3, <1>4 DEF mid

LEMMA StartTradeKeepsStory ==
  ASSUME TypeOK, Story, StartTrade
  PROVE  Story'
<1>1. /\ Untraded /\ EntryKnown /\ Len(events) = 1 /\ events[1].type = "ENTRY_FILL"
      /\ signal = "TRIGGERED" /\ OnEntryCandle /\ now % Minute = 0
  BY DEF Story, StartTrade, EntryKnown
<1>2. IsEntry(events[1])
  <2>1. 1 \in Log
    BY <1>1, LogLength
  <2> QED BY <1>1, <2>1 DEF Untraded
<1>3. /\ UNCHANGED <<signal, entry, activation, breakevenActive, events, exitReason, now, candle>>
      /\ stage' = "HOLDING" /\ position' = "FULL" /\ openFraction' = Full
  BY DEF StartTrade
<1>4. FullPosition'
  <2>1. IsEntry(events[1])'
    BY <1>2, <1>3 DEF IsEntry
  <2> QED BY <1>1, <1>3, <2>1 DEF FullPosition, Untraded
<1>5. EntryKnown'
  BY <1>1, <1>3 DEF EntryKnown, OnEntryCandle, StartTrade
<1>6. now <= Deadline
  <2>1. entry.time >= now /\ now \in Nat
    BY <1>1 DEF EntryKnown, StartTrade, TypeOK
  <2>2. entry.time \in Nat /\ Deadline \in Nat /\ entry.time < Deadline
    BY <1>1, DeadlineType
  <2> QED BY <2>1, <2>2
<1>7. (now <= Deadline)'
  BY <1>3, <1>6 DEF Deadline
<1> QED BY <1>1, <1>3, <1>4, <1>5, <1>7 DEF Story

LEMMA RejectKeepsStory ==
  ASSUME TypeOK, Story, RejectBreakeven
  PROVE  Story'
<1>1. /\ UNCHANGED <<signal, entry, openFraction, activation, breakevenActive, events, exitReason>>
      /\ now' = now /\ position' = position /\ stage' = "RAISED" /\ position = "NONE"
  BY DEF RejectBreakeven, Story
<1>2. Untraded' <=> Untraded
  BY <1>1, PartsKept
<1>3. EntryKnown => EntryKnown'
  BY <1>1 DEF EntryKnown
<1> QED BY <1>1, <1>2, <1>3 DEF Story

LEMMA ActivateKeepsStory ==
  ASSUME TypeOK, TypeOK', Story, ActivateBreakeven
  PROVE  Story'
<1> DEFINE e == Event("BREAKEVEN_ACTIVATED", activation, "KLINE_1M", activation,
                      "BREAKEVEN_NEXT_MINUTE", breakeven, 0)
<1>1. position = "HALF" /\ HalfPosition /\ EntryKnown /\ signal = "TRIGGERED"
  <2>1. stage = "HOLDING" /\ activation # NoTime
    BY DEF ActivateBreakeven, Holding, ActivationDue
  <2> QED BY <2>1 DEF Story, FullPosition
<1>2. /\ UNCHANGED <<signal, entry, activation, exitReason, openFraction, now, candle, stage, position>>
      /\ breakevenActive' = TRUE /\ events' = Append(events, e)
      /\ ~breakevenActive /\ now >= activation
  BY DEF ActivateBreakeven, ActivationDue
<1>3. e.type = "BREAKEVEN_ACTIVATED" /\ e.time = activation /\ e.reason = "BREAKEVEN_NEXT_MINUTE"
  BY DEF Event
<1>0. e \in EventRecord
  <2>1. /\ "BREAKEVEN_ACTIVATED" \in EventTypes /\ "BREAKEVEN_NEXT_MINUTE" \in Reasons
        /\ "KLINE_1M" \in Sources /\ 0 \in 0 .. Full
    BY DEF Full, EventTypes, Reasons, Sources
  <2>2. activation \in Nat
    BY DEF ActivateBreakeven, ActivationDue, TypeOK
  <2> QED BY <2>1, <2>2 DEF Event, EventRecord, TypeOK
<1> HIDE DEF e
<1>4. Len(events) = 2 /\ activation \in Nat /\ now \in Nat
  BY <1>1, <1>2 DEF HalfPosition, HalfTaken, TypeOK
<1>5. Len(events') = 3 /\ events'[1] = events[1] /\ events'[2] = events[2] /\ events'[3] = e
  <2>1. events \in Seq(EventRecord)
    BY DEF TypeOK
  <2>2. /\ Len(Append(events, e)) = Len(events) + 1
        /\ \A i \in 1 .. Len(events) : Append(events, e)[i] = events[i]
        /\ Append(events, e)[Len(events) + 1] = e
    BY <1>0, <2>1, AppendProperties
  <2> QED BY <1>2, <1>4, <2>2
<1>6. HalfTaken'
  BY <1>1, <1>2, <1>5 DEF HalfPosition, HalfTaken, IsEntry, IsTakeProfit
<1>7. HalfPosition'
  <2>1. IsActivation(events[3])'
    BY <1>2, <1>3, <1>5 DEF IsActivation
  <2>2. activation' <= now'
    BY <1>2, <1>4
  <2> QED BY <1>1, <1>2, <1>5, <1>6, <2>1, <2>2 DEF HalfPosition
<1>8. EntryKnown'
  BY <1>1, <1>2 DEF EntryKnown, OnEntryCandle
<1>9. Deadline' = Deadline
  BY <1>2 DEF Deadline
<1> QED BY <1>1, <1>2, <1>7, <1>8, <1>9 DEF Story

LEMMA HoldOnKeepsStory ==
  ASSUME TypeOK, Story, HoldOn
  PROVE  Story'
<1>1. Ready /\ EntryKnown /\ stage = "HOLDING" /\ now < Deadline /\ signal = "TRIGGERED"
  BY HoldingIsReady DEF HoldOn, HandleCandle, Holding, Story
<1>2. /\ UNCHANGED <<signal, entry, openFraction, activation, breakevenActive, events, exitReason>>
      /\ position' = position /\ stage' = stage /\ NextMinute
  BY DEF HoldOn
<1>3. now' = now + Minute /\ now' % Minute = 0
  BY <1>2, MinutePasses DEF Story
<1>4. now \in Nat /\ Minute \in Nat \ {0} /\ now % Minute = 0
  BY TimeAssumption DEF TypeOK, Story
<1>5. now' <= Deadline
  <2>1. Deadline \in Nat /\ Deadline % Minute = 0
    BY <1>1, DeadlineType
  <2> QED BY <1>1, <1>3, <1>4, <2>1, NextMultiple
<1>6. EntryKnown'
  <2>1. entry.time \in Nat /\ entry.candleOpen \in Nat /\ entry.candleOpen <= now
    BY <1>1 DEF EntryKnown, EntryRecord
  <2>2. entry.time < now + Minute
    BY <1>1, <1>4, <2>1 DEF EntryKnown
  <2>3. ~OnEntryCandle' /\ entry'.time < now' /\ entry'.candleOpen <= now'
    BY <1>2, <1>3, <1>4, <2>1, <2>2 DEF OnEntryCandle
  <2> QED BY <1>1, <1>2, <2>3 DEF EntryKnown
<1>7. CASE position = "FULL"
  <2>1. FullPosition'
    BY <1>2, <1>7, PartsKept DEF Story
  <2> QED BY <1>1, <1>2, <1>3, <1>5, <1>6, <1>7, <2>1, PartsKept DEF Story
<1>8. CASE position = "HALF"
  <2>1. HalfPosition /\ breakevenActive
    BY <1>1, <1>8 DEF Story, Ready
  <2>2. activation \in Nat /\ activation <= now + Minute
    BY <1>4, <2>1 DEF HalfPosition, HalfTaken
  <2>3. HalfTaken' /\ IsActivation(events[3])'
    BY <1>2, <2>1, PartsKept DEF HalfPosition, IsActivation
  <2>4. HalfPosition'
    BY <1>2, <1>3, <2>1, <2>2, <2>3 DEF HalfPosition
  <2> QED BY <1>1, <1>2, <1>3, <1>5, <1>6, <1>8, <2>4, PartsKept DEF Story
<1> QED BY <1>1, <1>7, <1>8 DEF Ready

LEMMA TakeProfitKeepsStory ==
  ASSUME TypeOK, Story, TakeProfitOne
  PROVE  Story'
<1>1. Ready /\ EntryKnown /\ stage = "HOLDING" /\ now < Deadline /\ signal = "TRIGGERED"
  BY HoldingIsReady DEF TakeProfitOne, HandleCandle, Holding, Story
<1>2. /\ Start \in Nat /\ OpenPath(CandlePath, Start) /\ CandlePath # << >>
  BY CandlePathStory, PathEnds DEF TakeProfitOne
<1>3. PICK e \in EventRecord :
         /\ position = "FULL" /\ CandlePath = << e >> /\ IsTakeProfit(e)
         /\ Start <= e.time /\ e.time < now + Minute
  BY <1>2 DEF OpenPath
<1>4. /\ UNCHANGED <<signal, entry, breakevenActive, exitReason, stage>>
      /\ position' = "HALF" /\ openFraction' = Half /\ activation' = now + Minute
      /\ events' = events \o << e >> /\ NextMinute
  BY <1>3 DEF TakeProfitOne
<1>5. now' = now + Minute /\ now' % Minute = 0
  BY <1>4, MinutePasses DEF Story
<1>6. now \in Nat /\ Minute \in Nat \ {0} /\ now % Minute = 0 /\ e.time \in Nat
  BY TimeAssumption DEF TypeOK, Story, EventRecord
<1>7. now' <= Deadline' /\ Deadline' = Deadline
  <2>1. Deadline \in Nat /\ Deadline % Minute = 0
    BY <1>1, DeadlineType
  <2>2. Deadline' = Deadline
    BY <1>4 DEF Deadline
  <2> QED BY <1>1, <1>5, <1>6, <2>1, <2>2, NextMultiple
<1>8. entry.time \in Nat /\ entry.candleOpen \in Nat /\ entry.candleOpen <= now
      /\ entry.time <= e.time
  <2>1. entry.time \in Nat /\ entry.candleOpen \in Nat /\ entry.candleOpen <= now
    BY <1>1 DEF EntryKnown, EntryRecord
  <2>2. CASE OnEntryCandle
    BY <1>3, <2>1, <2>2 DEF Start
  <2>3. CASE ~OnEntryCandle
    <3>1. entry.time < now /\ now <= e.time
      BY <1>1, <1>3, <2>3 DEF EntryKnown, Start
    <3> QED BY <1>6, <2>1, <3>1
  <2> QED BY <2>1, <2>2, <2>3
<1>9. EntryKnown'
  <2>1. entry.time < now + Minute
    BY <1>1, <1>6, <1>8 DEF EntryKnown
  <2>2. entry' = entry
    BY <1>4
  <2>3. entry.candleOpen < now + Minute
    BY <1>6, <1>8
  <2>4. entry.candleOpen < now' /\ entry.time < now'
    BY <1>5, <2>1, <2>3
  <2>5. ~OnEntryCandle' /\ entry'.time < now' /\ entry'.candleOpen <= now'
    BY <1>5, <1>6, <1>8, <2>2, <2>4 DEF OnEntryCandle
  <2> QED BY <1>1, <1>4, <2>5 DEF EntryKnown
<1>10. FullPosition
  BY <1>3 DEF Story
<1>11. Len(events') = 2 /\ events'[1] = events[1] /\ events'[2] = e
  <2>1. Len(events) = 1 /\ events \in Seq(EventRecord)
    BY <1>10 DEF FullPosition, TypeOK
  <2>2. /\ Len(events \o << e >>) = Len(events) + 1
        /\ (events \o << e >>)[Len(events) + 1] = e
        /\ \A i \in 1 .. Len(events) : (events \o << e >>)[i] = events[i]
    BY <2>1, AddOne
  <2> QED BY <1>4, <2>1, <2>2
<1>12. HalfTaken'
  <2>1. IsEntry(events[1])'
    BY <1>4, <1>10, <1>11 DEF FullPosition, IsEntry
  <2>2. IsTakeProfit(events[2])'
    BY <1>3, <1>11 DEF IsTakeProfit
  <2>3. activation' \in Nat /\ activation' % Minute = 0
    BY <1>4, <1>5, <1>6
  <2> QED BY <1>3, <1>4, <1>8, <1>11, <2>1, <2>2, <2>3 DEF HalfTaken
<1>13. HalfPosition'
  BY <1>4, <1>5, <1>10, <1>11, <1>12 DEF HalfPosition, FullPosition
<1> QED BY <1>1, <1>4, <1>5, <1>7, <1>9, <1>13 DEF Story

LEMMA CloseKeepsStory ==
  ASSUME TypeOK, Story, Holding, Ready, NEW p, ClosingPath(p, Start), Close(p),
         Len(p) = 1 => activation' = activation
  PROVE  Story'
<1>1. /\ UNCHANGED <<now, signal, entry, breakevenActive>>
      /\ position' = "FLAT" /\ openFraction' = 0 /\ stage' = "RETURNED"
      /\ events' = (events \o p) \o << ClosedAfter(p[Len(p)]) >>
  BY DEF Close
<1>2. EntryKnown /\ signal = "TRIGGERED" /\ stage = "HOLDING" /\ now % Minute = 0
  BY DEF Story, Holding
<1>3. EntryKnown'
  BY <1>1, <1>2 DEF EntryKnown
<1>4. /\ now \in Nat /\ Minute \in Nat \ {0} /\ entry.time \in Nat /\ Deadline \in Nat
      /\ now <= Deadline /\ Deadline' = Deadline /\ events \in Seq(EventRecord)
  BY <1>1, <1>2, DeadlineType, TimeAssumption DEF TypeOK, Story, Deadline
<1>5. entry.time <= Start /\ now <= Start /\ Start \in Nat
  BY <1>2, <1>4 DEF EntryKnown, Start
<1>6. ASSUME NEW e \in EventRecord, IsTerminal(e), NEW fraction,
             e.fraction = fraction, e.time < now + Minute,
             e.type = "TIME_EXIT" => e.time = now /\ now >= Deadline
      PROVE  /\ ClosedAfter(e) \in EventRecord /\ ClosedAfter(e).type = "CLOSED"
             /\ ClosedAfter(e).time = e.time /\ ClosedAfter(e).fraction = 0
             /\ ClosedAfter(e).reason = e.reason
             /\ e.time \in Nat /\ e.time < Deadline + Minute
             /\ e.type = "TIME_EXIT" => e.time = Deadline
  <2>1. e.time \in Nat
    BY DEF EventRecord
  <2>2. e.time < Deadline + Minute
    BY <1>4, <1>6, <2>1
  <2>3. e.type = "TIME_EXIT" => e.time = Deadline
    BY <1>4, <1>6
  <2>4. /\ ClosedAfter(e).type = "CLOSED" /\ ClosedAfter(e).time = e.time
        /\ ClosedAfter(e).fraction = 0 /\ ClosedAfter(e).reason = e.reason
    BY DEF ClosedAfter, EventRecord
  <2> QED BY <2>1, <2>2, <2>3, <2>4, ClosedAfterType
<1>7. ASSUME NEW e \in EventRecord, p = << e >>, Closing(e, openFraction), Start <= e.time,
             IF position = "FULL" THEN e.reason # "BREAKEVEN_STOP" ELSE e.reason # "INITIAL_STOP"
      PROVE  FlatPosition'
  <2> DEFINE c == ClosedAfter(e)
             n == Len(events)
  <2>1. /\ c \in EventRecord /\ c.type = "CLOSED" /\ c.time = e.time /\ c.fraction = 0
        /\ c.reason = e.reason /\ e.time \in Nat /\ e.time < Deadline + Minute
        /\ e.type = "TIME_EXIT" => e.time = Deadline
    BY <1>6, <1>7 DEF Closing
  <2>2. events' = (events \o << e >>) \o << c >> /\ activation' = activation
    BY <1>1, <1>7
  <2>3. IsTerminal(e) /\ e.fraction = openFraction /\ entry.time <= e.time
    BY <1>4, <1>5, <1>7, <2>1 DEF Closing
  <2> HIDE DEF c
  <2>4. /\ Len(events') = n + 2 /\ \A i \in 1 .. n : events'[i] = events[i]
        /\ events'[n + 1] = e /\ events'[n + 2] = c
    BY <1>4, <2>1, <2>2, CloseWithOne
  <2>5. CASE position = "FULL"
    <3>1. FullPosition /\ n = 1 /\ openFraction = Full
      BY <2>5 DEF Story, FullPosition
    <3>2. Len(events') = 3 /\ events'[1] = events[1] /\ events'[2] = e /\ events'[3] = c
      BY <2>4, <3>1
    <3>3. Ended(Full)'
      BY <1>4, <2>1, <2>3, <3>1, <3>2 DEF Ended, IsTerminal
    <3>4. IsEntry(events[1])'
      BY <1>1, <3>1, <3>2 DEF FullPosition, IsEntry
    <3>5. entry'.time <= events'[2].time /\ events'[2].reason # "BREAKEVEN_STOP"
      BY <1>1, <1>7, <2>3, <2>5, <3>2
    <3> QED BY <1>1, <3>2, <3>3, <3>4, <3>5 DEF FlatPosition
  <2>6. CASE position = "HALF"
    <3>1. HalfPosition /\ n = 3 /\ openFraction = Half /\ activation <= now /\ activation \in Nat
      BY <2>6 DEF Story, Ready, HalfPosition, HalfTaken
    <3>2. /\ Len(events') = 5 /\ events'[1] = events[1] /\ events'[2] = events[2]
          /\ events'[3] = events[3] /\ events'[4] = e /\ events'[5] = c
      BY <2>4, <3>1
    <3>3. Ended(Half)'
      BY <1>4, <2>1, <2>3, <3>1, <3>2 DEF Ended, IsTerminal
    <3>4. HalfTaken'
      BY <1>1, <2>2, <3>1, <3>2 DEF HalfPosition, HalfTaken, IsEntry, IsTakeProfit
    <3>5. IsActivation(events[3])'
      BY <2>2, <2>6, <3>1, <3>2 DEF Ready, HalfPosition, IsActivation
    <3>6. activation' <= events'[4].time /\ events'[4].reason # "INITIAL_STOP"
      BY <1>4, <1>5, <1>7, <2>1, <2>2, <2>6, <3>1, <3>2
    <3> QED BY <1>1, <3>2, <3>3, <3>4, <3>5, <3>6 DEF FlatPosition, HalfTaken
  <2> QED BY <2>5, <2>6 DEF Ready
<1>8. ASSUME position = "FULL", NEW e \in EventRecord, NEW f \in EventRecord,
             p = << e, f >>, IsTakeProfit(e), Closing(f, Half),
             f.reason # "BREAKEVEN_STOP", Start <= e.time, e.time <= f.time
      PROVE  FlatPosition'
  <2> DEFINE c == ClosedAfter(f)
  <2>1. /\ c \in EventRecord /\ c.type = "CLOSED" /\ c.time = f.time /\ c.fraction = 0
        /\ c.reason = f.reason /\ f.time \in Nat /\ f.time < Deadline + Minute
        /\ f.type = "TIME_EXIT" => f.time = Deadline
    BY <1>6, <1>8 DEF Closing
  <2>2. events' = (events \o << e, f >>) \o << c >>
    BY <1>1, <1>8
  <2>3. IsTerminal(f) /\ f.fraction = Half /\ f.time < now + Minute /\ e.time \in Nat
    BY <1>8 DEF Closing, EventRecord
  <2> HIDE DEF c
  <2>4. FullPosition /\ Len(events) = 1
    BY <1>8 DEF Story, FullPosition
  <2>5. /\ Len(events') = 4 /\ events'[1] = events[1] /\ events'[2] = e
        /\ events'[3] = f /\ events'[4] = c
    BY <1>4, <2>1, <2>2, <2>4, CloseWithTwo
  <2>6. Ended(Half)'
    BY <1>4, <2>1, <2>3, <2>5 DEF Ended, IsTerminal
  <2>7. IsEntry(events[1])'
    BY <1>1, <2>4, <2>5 DEF FullPosition, IsEntry
  <2>8. IsTakeProfit(events[2])'
    BY <1>8, <2>5 DEF IsTakeProfit
  <2>9. e.time \div Minute = f.time \div Minute
    <3>1. now <= e.time /\ e.time < now + Minute /\ now <= f.time
      BY <1>4, <1>5, <1>8, <2>1, <2>3
    <3>2. /\ now \in Nat /\ Minute \in Nat \ {0} /\ now % Minute = 0
          /\ e.time \in Nat /\ f.time \in Nat /\ f.time < now + Minute
      BY <1>2, <1>4, <2>1, <2>3
    <3>3. e.time \div Minute = now \div Minute
      BY <3>1, <3>2, SameMultiple
    <3>4. f.time \div Minute = now \div Minute
      BY <3>1, <3>2, SameMultiple
    <3> QED BY <3>3, <3>4
  <2>10. entry'.time <= events'[2].time /\ events'[2].time <= events'[3].time
    BY <1>1, <1>4, <1>5, <1>8, <2>3, <2>5
  <2>11. /\ events'[3].reason # "BREAKEVEN_STOP"
         /\ events'[2].time \div Minute = events'[3].time \div Minute
    BY <1>8, <2>5, <2>9
  <2> QED BY <1>1, <2>5, <2>6, <2>7, <2>8, <2>10, <2>11 DEF FlatPosition
<1>9. FlatPosition'
  BY <1>7, <1>8 DEF ClosingPath
<1> QED BY <1>1, <1>2, <1>3, <1>9 DEF Story

LEMMA TradeStepKeepsStory ==
  ASSUME TypeOK, TypeOK', Story, TradeStep
  PROVE  Story'
<1>1. CASE ExitAtDeadline
  <2>1. Holding /\ ~ActivationDue /\ now >= Deadline /\ Close(DeadlinePath) /\ activation' = activation
    BY <1>1 DEF ExitAtDeadline
  <2>2. Ready /\ ClosingPath(DeadlinePath, Start)
    BY <2>1, DeadlinePathStory DEF Start
  <2> QED BY <2>1, <2>2, CloseKeepsStory
<1>2. CASE CloseInCandle
  <2>1. HandleCandle /\ Holding /\ Closes(CandlePath) /\ Close(CandlePath)
    BY <1>2 DEF CloseInCandle, HandleCandle
  <2>2. Ready /\ ClosingPath(CandlePath, Start)
    BY <2>1, CandlePathStory, PathEnds
  <2>3. Len(CandlePath) = 1 => activation' = activation
    BY <1>2 DEF CloseInCandle
  <2> QED BY <2>1, <2>2, <2>3, CloseKeepsStory
<1> QED BY <1>1, <1>2, StartTradeKeepsStory, RejectKeepsStory, ActivateKeepsStory,
           TakeProfitKeepsStory, HoldOnKeepsStory DEF TradeStep

LEMMA StutterKeepsStory ==
  ASSUME Story, UNCHANGED vars
  PROVE  Story'
<1>1. HalfPosition' <=> HalfPosition
  BY PartsKept DEF vars, HalfPosition, IsActivation
<1>2. EntryKnown' <=> EntryKnown
  BY DEF vars, EntryKnown, OnEntryCandle
<1> QED BY <1>1, <1>2, PartsKept DEF vars, Story

(* The inductive invariant *)

\* Every reachable state of the replay has one of the four shapes of Story: the
\* position, the log and the scheduled activation always agree.
THEOREM StoryHolds == Spec => [](TypeOK /\ Story)
<1>1. Story /\ TypeOK /\ TypeOK' /\ [Next]_vars => Story'
  BY ReadingKeepsStory, ArmedStepKeepsStory, TradeStepKeepsStory, StutterKeepsStory DEF Next
<1> QED BY <1>1, InitStory, TypeCorrect, PTL DEF Spec

(* The invariants the runs check *)

\* In every plan and market the log is in exchange-time order and closed by its
\* terminal fill: reduce_event_log never rejects a log the replay returns.
THEOREM OrderKept == Spec => []LogOrdered
BY StoryHolds, StoryGivesOrder, PTL

\* The exits of every trade add up to the position, and open_fraction and the
\* position status say what the log says.
THEOREM FillsAddUp == Spec => []FillsBalance
BY StoryHolds, StoryGivesBalance, PTL

\* A breakeven exit always follows an activation that a TP1 of an earlier minute
\* scheduled.
THEOREM NoEarlyBreakeven == Spec => []BreakevenNotEarly
BY StoryHolds, StoryGivesBreakeven, PTL

\* The initial stop never takes a half position after the minute of its TP1.
THEOREM HalfIsProtected == Spec => []HalfProtected
BY StoryHolds, StoryGivesProtection, PTL

\* Entries inside the entry window, exits no later than in the deadline minute,
\* TIME_EXIT exactly at the deadline.
THEOREM ClosedInTime == Spec => []ExitsByDeadline
BY StoryHolds, StoryGivesLimits, PTL

\* The remaining half is protected exactly from the minute after its TP1.
THEOREM HalfIsProtectedOnTime == Spec => []ProtectedOnTime
BY NoEarlyBreakeven, HalfIsProtected, PTL DEF ProtectedOnTime

\* Every log is in exchange-time order and keeps the time limits of its trade.
THEOREM TimesAreKept == Spec => []EventsAreTimely
BY OrderKept, ClosedInTime, PTL DEF EventsAreTimely

(* Refinement *)

LEMMA SameStage ==
  ASSUME UNCHANGED <<signal, position, openFraction, breakevenActive, exitReason>>
  PROVE  UNCHANGED Promise!vars
BY DEF Promise!vars

LEMMA ReasonOfFull ==
  ASSUME NEW f, f.reason # "BREAKEVEN_STOP"
  PROVE  ExitReasonOf(f) \in {"SL", "TP2", "TIME_EXIT"}
BY DEF ExitReasonOf

LEMMA ReasonOfHalf ==
  ASSUME NEW f, f.reason # "INITIAL_STOP"
  PROVE  ExitReasonOf(f) \in {"BREAKEVEN_AFTER_TP1", "TP2", "TIME_EXIT"}
BY DEF ExitReasonOf

\* The fill that closes the trade.
LEMMA LastFill ==
  ASSUME NEW p, NEW from, ClosingPath(p, from)
  PROVE  IF position = "FULL" THEN p[Len(p)].reason # "BREAKEVEN_STOP"
                              ELSE p[Len(p)].reason # "INITIAL_STOP"
<1>1. ASSUME NEW e \in EventRecord, p = << e >>
      PROVE  p[Len(p)] = e
  BY <1>1
<1>2. ASSUME NEW e \in EventRecord, NEW f \in EventRecord, p = << e, f >>
      PROVE  p[Len(p)] = f
  BY <1>2
<1> QED BY <1>1, <1>2 DEF ClosingPath

LEMMA EndingIsPromised ==
  ASSUME Story, NEW state \in Endings, NEW event, Scanning, EndArmed(state, event)
  PROVE  Promise!EndWithoutTrade
<1>1. /\ signal = "ARMED" /\ position = "NONE" /\ signal' = state /\ position' = position
      /\ UNCHANGED <<openFraction, breakevenActive, exitReason>>
  BY DEF Story, Scanning, EndArmed, TradeUnchanged
<1>2. state \in {"INVALIDATED", "MISSED", "EXPIRED"} /\ state # "TRIGGERED"
  BY DEF Endings
<1> QED BY <1>1, <1>2, Zenon DEF Promise!EndWithoutTrade

LEMMA EntryIsPromised ==
  ASSUME Story, Scanning, NEW e, NEW reason, Trigger(e, reason)
  PROVE  Promise!Enter
<1>1. /\ signal = "ARMED" /\ position = "NONE" /\ signal' = "TRIGGERED" /\ position' = position
      /\ UNCHANGED <<openFraction, breakevenActive, exitReason>>
  BY DEF Story, Scanning, Trigger, TradeUnchanged
<1> QED BY <1>1 DEF Promise!Enter, Full

LEMMA ArmedStepIsPromised ==
  ASSUME Story, ArmedStep
  PROVE  Promise!Next \/ UNCHANGED Promise!vars
<1>1. /\ UNCHANGED <<stage, signal, entry, events>> /\ TradeUnchanged
      => UNCHANGED Promise!vars
  BY SameStage DEF TradeUnchanged
<1>2. CASE SkipEarlyCandle \/ PassTrades \/ PassOhlc
  BY <1>1, <1>2 DEF SkipEarlyCandle, PassTrades, PassOhlc, PassArmed
<1>3. {"INVALIDATED", "MISSED", "EXPIRED"} \subseteq Endings
  BY DEF Endings
<1>4. CASE Expire \/ Miss \/ InvalidateOnTrade \/ InvalidateOnOhlc
  <2>1. Promise!EndWithoutTrade
    BY <1>3, <1>4, EndingIsPromised
       DEF Expire, Miss, InvalidateOnTrade, InvalidateOnOhlc, ByTrades, ByOhlc, InWindow
  <2> QED BY <2>1 DEF Promise!Next
<1>5. CASE EnterOnTrade \/ EnterOnOhlc
  <2>1. Promise!Enter
    BY <1>5, EntryIsPromised DEF EnterOnTrade, EnterOnOhlc, ByTrades, ByOhlc, InWindow
  <2> QED BY <2>1 DEF Promise!Next
<1> QED BY <1>2, <1>4, <1>5 DEF ArmedStep

LEMMA CloseIsPromised ==
  ASSUME TypeOK, Story, Ready, NEW p, NEW from, ClosingPath(p, from), Close(p)
  PROVE  Promise!CloseFull \/ Promise!CloseHalf
<1>1. /\ signal = "TRIGGERED" /\ signal' = signal /\ breakevenActive' = breakevenActive
      /\ position \in {"FULL", "HALF"} /\ position' = "FLAT" /\ openFraction' = 0
      /\ exitReason' = ExitReasonOf(p[Len(p)])
  BY DEF Story, Ready, Close
<1>2. CASE position = "FULL"
  <2>1. openFraction = Full
    BY <1>2 DEF Ready
  <2>2. p[Len(p)].reason # "BREAKEVEN_STOP"
    BY <1>2, LastFill
  <2>3. exitReason' \in {"SL", "TP2", "TIME_EXIT"}
    BY <1>1, <2>2, ReasonOfFull
  <2> QED BY <1>1, <1>2, <2>1, <2>3 DEF Promise!CloseFull, Promise!CloseAs, Full
<1>3. CASE position = "HALF"
  <2>1. openFraction = Half /\ breakevenActive
    BY <1>3 DEF Ready
  <2>2. p[Len(p)].reason # "INITIAL_STOP"
    BY <1>3, LastFill
  <2>3. exitReason' \in {"BREAKEVEN_AFTER_TP1", "TP2", "TIME_EXIT"}
    BY <1>1, <2>2, ReasonOfHalf
  <2> QED BY <1>1, <1>3, <2>1, <2>3 DEF Promise!CloseHalf, Promise!CloseAs, Half
<1> QED BY <1>1, <1>2, <1>3

LEMMA TradeStepIsPromised ==
  ASSUME TypeOK, Story, TradeStep
  PROVE  Promise!Next \/ UNCHANGED Promise!vars
<1>1. CASE StartTrade
  <2>1. /\ signal = "TRIGGERED" /\ position = "NONE" /\ position' = "FULL"
        /\ openFraction' = Full /\ UNCHANGED <<signal, breakevenActive, exitReason>>
    BY <1>1 DEF StartTrade, Story
  <2> QED BY <2>1 DEF Promise!vars
<1>2. CASE RejectBreakeven \/ HoldOn
  BY <1>2, SameStage DEF RejectBreakeven, HoldOn
<1>3. CASE ActivateBreakeven
  <2>1. /\ signal = "TRIGGERED" /\ position = "HALF" /\ openFraction = Half
        /\ ~breakevenActive /\ breakevenActive' = TRUE
    <3>1. stage = "HOLDING" /\ activation # NoTime
      BY <1>3 DEF ActivateBreakeven, Holding, ActivationDue
    <3> QED BY <1>3, <3>1 DEF ActivateBreakeven, ActivationDue, Story, FullPosition, HalfPosition
  <2>2. UNCHANGED <<signal, position, openFraction, exitReason>>
    BY <1>3 DEF ActivateBreakeven
  <2>3. Promise!Protect
    BY <2>1, <2>2 DEF Promise!Protect, Half
  <2> QED BY <2>3 DEF Promise!Next
<1>4. CASE ExitAtDeadline
  <2>1. Ready /\ ClosingPath(DeadlinePath, now) /\ Close(DeadlinePath)
    BY <1>4, DeadlinePathStory DEF ExitAtDeadline
  <2> QED BY <2>1, CloseIsPromised DEF Promise!Next
<1>5. CASE CloseInCandle
  <2>1. Ready /\ ClosingPath(CandlePath, Start) /\ Close(CandlePath)
    BY <1>5, CandlePathStory, PathEnds DEF CloseInCandle
  <2> QED BY <2>1, CloseIsPromised DEF Promise!Next
<1>6. CASE TakeProfitOne
  <2>1. Ready /\ CandlePath # << >> /\ OpenPath(CandlePath, Start)
    BY <1>6, CandlePathStory, PathEnds DEF TakeProfitOne
  <2>2. position = "FULL" /\ openFraction = Full /\ signal = "TRIGGERED"
    BY <2>1 DEF OpenPath, Ready, Story
  <2>3. /\ position' = "HALF" /\ openFraction' = Half
        /\ UNCHANGED <<signal, breakevenActive, exitReason>>
    BY <1>6 DEF TakeProfitOne
  <2>4. Promise!TakeHalf
    BY <2>2, <2>3 DEF Promise!TakeHalf, Full, Half
  <2> QED BY <2>4 DEF Promise!Next
<1> QED BY <1>1, <1>2, <1>3, <1>4, <1>5, <1>6 DEF TradeStep

LEMMA StepIsPromised ==
  ASSUME TypeOK, Story, [Next]_vars
  PROVE  [Promise!Next]_(Promise!vars)
<1>1. CASE ReadCandle \/ DataExhausted \/ UNCHANGED vars
  BY <1>1, SameStage DEF ReadCandle, DataExhausted, vars
<1> QED BY <1>1, ArmedStepIsPromised, TradeStepIsPromised DEF Next

\* The replay implements the life cycle tables: every behaviour of the candle and
\* trade loops is, through the refinement mapping, one of SignalLifecycle.
THEOREM LifecycleImplemented == Spec => ImplementsLifecycle
<1>1. Init => Promise!Init
  BY DEF Init, Promise!Init
<1> QED BY <1>1, StoryHolds, StepIsPromised, PTL DEF Spec, Promise!Spec, ImplementsLifecycle

(* The shared minute *)

\* An entry that shares its minute with the invalidation comes from OHLC.
SharedMinute == signal = "TRIGGERED" /\ entry.stopAlso => entry.source = "KLINE_1M"

LEMMA SharedMinuteHolds == Spec => []SharedMinute
<1>1. Init => SharedMinute
  BY DEF Init, SharedMinute
<1>2. ASSUME SharedMinute, Story, [Next]_vars
      PROVE  SharedMinute'
  <2>1. CASE EnterOnTrade \/ EnterOnOhlc
    <3>1. PICK e, reason : /\ Trigger(e, reason)
                           /\ e.stopAlso => e.source = "KLINE_1M"
      BY <2>1 DEF EnterOnTrade, EnterOnOhlc
    <3> QED BY <3>1 DEF Trigger, SharedMinute
  <2>2. CASE Expire \/ Miss \/ InvalidateOnTrade \/ InvalidateOnOhlc
    <3>1. signal' # "TRIGGERED"
      BY <2>2 DEF Expire, Miss, InvalidateOnTrade, InvalidateOnOhlc, EndArmed
    <3> QED BY <3>1 DEF SharedMinute
  <2>3. CASE UNCHANGED <<signal, entry>>
    BY <1>2, <2>3 DEF SharedMinute
  <2>4. CASE SkipEarlyCandle \/ PassTrades \/ PassOhlc
    BY <2>3, <2>4 DEF SkipEarlyCandle, PassTrades, PassOhlc, PassArmed
  <2>5. CASE ReadCandle \/ DataExhausted \/ UNCHANGED vars
    BY <2>3, <2>5 DEF ReadCandle, DataExhausted, vars
  <2>6. CASE TradeStep
    BY <2>3, <2>6 DEF TradeStep, StartTrade, RejectBreakeven, ActivateBreakeven, ExitAtDeadline,
                      CloseInCandle, TakeProfitOne, HoldOn, Close
  <2> QED BY <1>2, <2>1, <2>2, <2>4, <2>5, <2>6 DEF Next, ArmedStep
<1> QED BY <1>1, <1>2, StoryHolds, PTL DEF Spec

\* The path of such an entry candle: one full stop at the entry minute.
LEMMA SharedMinutePath ==
  ASSUME TypeOK, position = "FULL", OnEntryCandle, entry.stopAlso, ~candle.complete
  PROVE  /\ Closes(CandlePath)
         /\ \E e \in EventRecord :
               CandlePath = << e >> /\ e.time = now /\ e.reason = "INITIAL_STOP"
<1> DEFINE stop == KlineEvent("STOP_FILL", "INITIAL_STOP", StopPrice, Full)
<1>1. CandlePath = << stop >>
  BY DEF CandlePath, OhlcPath, KlineStop
<1>2. stop.type = "STOP_FILL" /\ stop.reason = "INITIAL_STOP" /\ stop.time = now
  BY KlineFill
<1>3. stop \in EventRecord
  <2>1. /\ "STOP_FILL" \in EventTypes /\ "INITIAL_STOP" \in Reasons /\ Full \in 0 .. Full
        /\ StopPrice \in Nat
    BY PriceAssumption DEF EventTypes, Reasons, Full
  <2> QED BY <2>1, KlineEventType
<1> HIDE DEF stop
<1>4. Closes(CandlePath)
  BY <1>1, <1>2 DEF Closes, IsTerminal
<1> QED BY <1>1, <1>2, <1>3, <1>4

\* Entry and invalidation in one minute without trades always is a full stop-out
\* at the entry minute, whatever step the replay takes next.
THEOREM SharedMinuteStopsOut == Spec => SameCandleAdverse
<1>1. ASSUME TypeOK, Story, SharedMinute, Next,
             stage = "HOLDING", OnEntryCandle, entry.stopAlso, ~candle.complete
      PROVE  /\ exitReason' = "SL" /\ openFraction' = 0
             /\ events'[Len(events) + 1].time = entry.time
  <2>1. /\ candle # NoCandle /\ position = "FULL" /\ FullPosition /\ entry.time = now
        /\ activation = NoTime
    BY <1>1 DEF Story, EntryKnown, SharedMinute, FullPosition
  <2>2. Holding /\ ~ActivationDue
    BY <1>1, <2>1 DEF Holding, ActivationDue
  <2>3. ~(now >= Deadline)
    BY <1>1, <2>2, DeadlinePathStory
  <2>4. CloseInCandle
    <3>1. TradeStep
      BY <1>1, <2>1 DEF Next, ReadCandle, DataExhausted, ArmedStep, SkipEarlyCandle, Expire, Miss,
                        EnterOnTrade, InvalidateOnTrade, PassTrades, EnterOnOhlc,
                        InvalidateOnOhlc, PassOhlc, ByTrades, ByOhlc, InWindow, Scanning
    <3>2. Closes(CandlePath) /\ CandlePath # << >>
      BY <1>1, <2>1, SharedMinutePath DEF Closes
    <3>3. ~StartTrade /\ ~RejectBreakeven /\ ~ActivateBreakeven /\ ~ExitAtDeadline
      BY <1>1, <2>2, <2>3 DEF StartTrade, RejectBreakeven, ActivateBreakeven, ExitAtDeadline
    <3>4. ~TakeProfitOne /\ ~HoldOn
      BY <3>2 DEF TakeProfitOne, HoldOn
    <3> QED BY <3>1, <3>3, <3>4 DEF TradeStep
  <2>5. PICK e \in EventRecord : CandlePath = << e >> /\ e.time = now /\ e.reason = "INITIAL_STOP"
    BY <1>1, <2>1, SharedMinutePath
  <2>6. /\ events' = (events \o << e >>) \o << ClosedAfter(e) >>
        /\ openFraction' = 0 /\ exitReason' = ExitReasonOf(e)
    BY <2>4, <2>5 DEF CloseInCandle, Close
  <2>7. exitReason' = "SL"
    BY <2>5, <2>6 DEF ExitReasonOf
  <2>8. events'[Len(events) + 1] = e
    BY <1>1, <2>5, <2>6, ClosedAfterType, CloseWithOne DEF TypeOK
  <2> QED BY <2>1, <2>5, <2>6, <2>7, <2>8
<1>2. ASSUME TypeOK, Story, SharedMinute, [Next]_vars
      PROVE  [stage = "HOLDING" /\ OnEntryCandle /\ entry.stopAlso /\ ~candle.complete
                => /\ exitReason' = "SL" /\ openFraction' = 0
                   /\ events'[Len(events) + 1].time = entry.time]_vars
  BY <1>1, <1>2
<1> QED BY <1>2, StoryHolds, SharedMinuteHolds, PTL DEF Spec, SameCandleAdverse

(* What the ordering label hides *)

\* An event that only the OHLC values of a minute can have told.
Guess(e) ==
  /\ e.source = "KLINE_1M"
  /\ \/ e.type \in {"STOP_FILL", "TP1_FILL", "TP2_FILL", "INVALIDATED"}
     \/ e.reason = "ENTRY_NORMAL_CROSS"

\* Whoever guesses has counted the fallback; so has the entry of a candle that
\* the open trade looks at next.
Counted ==
  /\ (\E i \in Log : Guess(events[i])) => fallback
  /\ stage \in {"ENTERED", "HOLDING"} /\ candle # NoCandle /\ OnEntryCandle /\ ~candle.complete
       => fallback

Known(e) == ~Guess(e) /\ e.reason # "ENTRY_NORMAL_CROSS"
NothingGuessed(p) == \A i \in DOMAIN p : Known(p[i])

LEMMA FromTrade ==
  ASSUME NEW type, NEW i, NEW reason, NEW price, NEW fraction, reason # "ENTRY_NORMAL_CROSS"
  PROVE  Known(TradeEvent(type, i, reason, price, fraction))
BY DEF Known, Guess, TradeEvent, Event

LEMMA HalfPathIsKnown ==
  ASSUME NEW from
  PROVE  HalfTradePath(from) = << >> \/ \E e : HalfTradePath(from) = << e >> /\ Known(e)
<1> DEFINE i == First({k \in from .. Len(candle.trades) :
                         FallsTo(TradePrice(k), ProtectiveStop) \/ Reaches(TradePrice(k), Tp2)})
           stop == TradeEvent("STOP_FILL", i, ProtectiveReason, ProtectiveStop, Half)
           tp2 == TradeEvent("TP2_FILL", i, "TP2_TARGET", Tp2, Half)
<1>1. \/ HalfTradePath(from) = << >>
      \/ HalfTradePath(from) = << stop >>
      \/ HalfTradePath(from) = << tp2 >>
  BY DEF HalfTradePath
<1>2. ProtectiveReason # "ENTRY_NORMAL_CROSS"
  BY DEF ProtectiveReason
<1>3. Known(stop) /\ Known(tp2)
  <2> HIDE DEF i
  <2> QED BY <1>2, FromTrade
<1> HIDE DEF stop, tp2
<1> QED BY <1>1, <1>3

\* What trades tell is never a guess.
LEMMA TradePathIsKnown ==
  ASSUME NEW from
  PROVE  NothingGuessed(TradePath(from))
<1> DEFINE i == First({k \in from .. Len(candle.trades) :
                         FallsTo(TradePrice(k), StopPrice) \/ Reaches(TradePrice(k), Tp1)})
           stop == TradeEvent("STOP_FILL", i, "INITIAL_STOP", StopPrice, Full)
           tp1 == TradeEvent("TP1_FILL", i, "TP1_TARGET", Tp1, Half)
           tp2 == TradeEvent("TP2_FILL", i, "TP2_TARGET", Tp2, Half)
<1>1. \/ FullTradePath(from) = << >>
      \/ FullTradePath(from) = << stop >>
      \/ FullTradePath(from) = << tp1 >> \o << tp2 >>
      \/ FullTradePath(from) = << tp1 >> \o HalfTradePath(i + 1)
  BY DEF FullTradePath
<1>2. Known(stop) /\ Known(tp1) /\ Known(tp2)
  <2> HIDE DEF i
  <2> QED BY FromTrade
<1>3. \/ HalfTradePath(i + 1) = << >>
      \/ \E e : HalfTradePath(i + 1) = << e >> /\ Known(e)
  BY HalfPathIsKnown
<1> HIDE DEF i, stop, tp1, tp2
<1>4. ASSUME NEW e, Known(e)
      PROVE  NothingGuessed(<< e >>)
  BY <1>4 DEF NothingGuessed
<1>5. ASSUME NEW e, NEW f, Known(e), Known(f)
      PROVE  NothingGuessed(<< e, f >>)
  BY <1>5 DEF NothingGuessed
<1>6. NothingGuessed(<< >>)
  BY DEF NothingGuessed
<1>7. NothingGuessed(FullTradePath(from))
  <2>1. << tp1 >> \o << tp2 >> = << tp1, tp2 >>
    BY ConcatSmall
  <2>2. NothingGuessed(<< tp1 >> \o HalfTradePath(i + 1))
    <3>1. CASE HalfTradePath(i + 1) = << >>
      BY <1>2, <1>4, <3>1, ConcatSmall
    <3>2. CASE \E e : HalfTradePath(i + 1) = << e >> /\ Known(e)
      <4>1. PICK e : HalfTradePath(i + 1) = << e >> /\ Known(e)
        BY <3>2
      <4>2. << tp1 >> \o << e >> = << tp1, e >>
        BY ConcatSmall
      <4> QED BY <1>2, <1>5, <4>1, <4>2
    <3> QED BY <1>3, <3>1, <3>2
  <2>3. NothingGuessed(<< stop >>) /\ NothingGuessed(<< tp1, tp2 >>)
    BY <1>2, <1>4, <1>5
  <2> QED BY <1>1, <1>6, <2>1, <2>2, <2>3
<1>8. NothingGuessed(HalfTradePath(from))
  BY <1>4, <1>6, HalfPathIsKnown
<1> QED BY <1>7, <1>8 DEF TradePath

LEMMA GuessingIsNoted ==
  ASSUME TypeOK, Counted, Holding
  PROVE  /\ HandleCandle /\ CountHeld /\ ~NothingGuessed(CandlePath) => fallback'
         /\ CountCandle /\ ~NothingGuessed(DeadlinePath) => fallback'
<1>1. HandleCandle /\ CountHeld /\ ~candle.complete => fallback'
  BY DEF Counted, Holding, CountHeld, CountCandle
<1>2. candle.complete => NothingGuessed(CandlePath)
  BY TradePathIsKnown DEF CandlePath
<1>3. CountCandle /\ ~candle.complete => fallback'
  BY DEF CountCandle
<1>4. candle.complete => NothingGuessed(DeadlinePath)
  <2>1. NothingGuessed(TimeExit)
    BY DEF NothingGuessed, TimeExit, KlineEvent, Event, Known, Guess
  <2>2. candle.complete => DeadlineRiskPath = TradePath(1) \/ DeadlineRiskPath = << >>
    BY DEF DeadlineRiskPath
  <2> QED BY <2>1, <2>2, TradePathIsKnown DEF DeadlinePath
<1> QED BY <1>1, <1>2, <1>3, <1>4

LEMMA AppendingKnown ==
  ASSUME NEW log \in Seq(EventRecord), NEW p \in Seq(EventRecord), NothingGuessed(p),
         \A i \in DOMAIN log : ~Guess(log[i])
  PROVE  \A i \in DOMAIN (log \o p) : ~Guess((log \o p)[i])
<1>1. /\ Len(log) \in Nat /\ Len(p) \in Nat /\ DOMAIN log = 1 .. Len(log) /\ DOMAIN p = 1 .. Len(p)
      /\ log \o p \in Seq(EventRecord) /\ Len(log \o p) = Len(log) + Len(p)
      /\ \A i \in 1 .. Len(log) + Len(p) :
            (log \o p)[i] = IF i <= Len(log) THEN log[i] ELSE p[i - Len(log)]
  BY LenProperties, ConcatProperties
<1> DEFINE n == Len(log)
           m == Len(p)
<1>2. DOMAIN (log \o p) = 1 .. n + m
  BY <1>1, LenProperties
<1>3. ASSUME NEW i \in 1 .. n + m
      PROVE  ~Guess((log \o p)[i])
  <2> HIDE DEF n, m
  <2>1. n \in Nat /\ m \in Nat /\ (log \o p)[i] = IF i <= n THEN log[i] ELSE p[i - n]
    BY <1>1, <1>3 DEF n, m
  <2>2. CASE i <= n
    <3>1. i \in DOMAIN log
      BY <1>1, <1>3, <2>1, <2>2 DEF n
    <3> QED BY <2>1, <2>2, <3>1
  <2>3. CASE ~(i <= n)
    <3>1. i - n \in 1 .. m
      BY <1>3, <2>1, <2>3
    <3>2. i - n \in DOMAIN p
      BY <1>1, <3>1 DEF m
    <3> QED BY <2>1, <2>3, <3>2 DEF NothingGuessed, Known
  <2> QED BY <2>2, <2>3
<1> QED BY <1>2, <1>3

LEMMA ClosingIsCounted ==
  ASSUME TypeOK, Counted, NEW p, Path(p), p # << >>, Close(p), fallback => fallback',
         ~NothingGuessed(p) => fallback'
  PROVE  Counted'
<1>1. stage' = "RETURNED" /\ events' = (events \o p) \o << ClosedAfter(p[Len(p)]) >>
  BY DEF Close
<1>2. ASSUME ~fallback'
      PROVE  \A i \in DOMAIN events' : ~Guess(events'[i])
  <2>1. NothingGuessed(p) /\ \A i \in DOMAIN events : ~Guess(events[i])
    BY <1>2 DEF Counted, Log
  <2>2. p \in Seq(EventRecord) /\ p[Len(p)] \in EventRecord /\ ClosedAfter(p[Len(p)]) \in EventRecord
    BY PathIsSeq, ClosedAfterType
  <2>3. Len(p) \in DOMAIN p
    <3>1. Len(p) \in Nat /\ DOMAIN p = 1 .. Len(p) /\ Len(p) # 0
      BY <2>2, LenProperties, EmptySeq
    <3> QED BY <3>1
  <2>4. Known(ClosedAfter(p[Len(p)]))
    BY <2>1, <2>2, <2>3 DEF NothingGuessed, Known, ClosedAfter, Guess, EventRecord
  <2>5. events \o p \in Seq(EventRecord) /\ \A i \in DOMAIN (events \o p) : ~Guess((events \o p)[i])
    BY <2>1, <2>2, AppendingKnown, ConcatProperties DEF TypeOK
  <2>6. << ClosedAfter(p[Len(p)]) >> \in Seq(EventRecord)
        /\ NothingGuessed(<< ClosedAfter(p[Len(p)]) >>)
    BY <2>2, <2>4 DEF NothingGuessed
  <2> QED BY <1>1, <2>5, <2>6, AppendingKnown
<1> QED BY <1>1, <1>2 DEF Counted, Log

LEMMA AddingOneIsCounted ==
  ASSUME TypeOK, Counted, NEW e \in EventRecord, events' = Append(events, e),
         fallback => fallback', Guess(e) => fallback',
         stage' \in {"ENTERED", "HOLDING"} /\ candle' # NoCandle /\ now' = entry'.candleOpen
           /\ ~candle'.complete => fallback'
  PROVE  Counted'
<1>1. /\ events \in Seq(EventRecord) /\ Len(events) \in Nat
      /\ DOMAIN events = 1 .. Len(events)
      /\ DOMAIN events' = 1 .. Len(events) + 1
      /\ \A i \in 1 .. Len(events) : events'[i] = events[i]
      /\ events'[Len(events) + 1] = e
  BY AppendProperties, LenProperties DEF TypeOK
<1>2. ASSUME NEW i \in DOMAIN events', Guess(events'[i])
      PROVE  fallback'
  <2>1. i \in DOMAIN events \/ i = Len(events) + 1
    BY <1>1, <1>2
  <2> QED BY <1>1, <1>2, <2>1 DEF Counted, Log
<1> QED BY <1>2 DEF Counted, Log, OnEntryCandle

LEMMA QuietIsCounted ==
  ASSUME Counted, events' = events, fallback => fallback',
         stage' \in {"ENTERED", "HOLDING"} /\ candle' # NoCandle /\ now' = entry'.candleOpen
           /\ ~candle'.complete => fallback'
  PROVE  Counted'
BY DEF Counted, Log, OnEntryCandle

LEMMA ArmedStepIsCounted ==
  ASSUME TypeOK, TypeOK', Story, Counted, ArmedStep
  PROVE  Counted'
<1>0. /\ stage = "ARMED" /\ candle # NoCandle /\ candle.complete \in BOOLEAN
      /\ events = << >>
  <2>1. Scanning
    BY DEF ArmedStep, SkipEarlyCandle, Expire, Miss, EnterOnTrade, InvalidateOnTrade, PassTrades,
           EnterOnOhlc, InvalidateOnOhlc, PassOhlc, ByTrades, ByOhlc, InWindow
  <2> QED BY <2>1, CandleType DEF Scanning, Story
<1>1. CountCandle => (fallback => fallback') /\ (~candle.complete => fallback')
  BY DEF CountCandle
<1>2. ASSUME SkipEarlyCandle \/ PassTrades \/ PassOhlc
      PROVE  Counted'
  <2>1. PassArmed /\ (fallback => fallback')
    BY <1>1, <1>2 DEF SkipEarlyCandle, PassTrades, PassOhlc, PassArmed
  <2>2. events' = events /\ candle' = NoCandle
    BY <2>1 DEF PassArmed, NextMinute
  <2> QED BY <2>1, <2>2, QuietIsCounted
<1>3. ASSUME NEW state, NEW e \in EventRecord, EndArmed(state, e),
             fallback => fallback', Guess(e) => fallback'
      PROVE  Counted'
  <2>1. events' = Append(events, e) /\ candle' = NoCandle
    BY <1>3 DEF EndArmed
  <2> QED BY <1>3, <2>1, AddingOneIsCounted
<1>4. /\ {"INVALIDATED", "MISSED", "EXPIRED"} \subseteq EventTypes
      /\ {"ENTRY_NORMAL_CROSS", "ENTRY_GAP_WITHIN_LIMIT", "ENTRY_AND_INVALIDATION_SAME_CANDLE",
          "ENTRY_GAP_TOO_LARGE", "ENTRY_WINDOW_EXPIRED",
          "STRUCTURE_INVALIDATED_BEFORE_ENTRY"} \subseteq Reasons
      /\ 0 \in 0 .. Full /\ 0 \in Nat
  BY DEF EventTypes, Reasons, Full
<1>5. CASE Expire
  <2> DEFINE e == Event("EXPIRED", ExpiresAt, "KLINE_1M", ExpiresAt, "ENTRY_WINDOW_EXPIRED", 0, 0)
  <2>1. e \in EventRecord /\ ~Guess(e)
    BY <1>4, TimeAssumption DEF Event, EventRecord, Sources, Guess
  <2>2. EndArmed("EXPIRED", e) /\ fallback' = fallback
    BY <1>5 DEF Expire
  <2> HIDE DEF e
  <2> QED BY <1>3, <2>1, <2>2
<1>6. CASE Miss
  <2> DEFINE e == KlineEvent("MISSED", "ENTRY_GAP_TOO_LARGE", 0, 0)
  <2>1. e \in EventRecord
    BY <1>4, KlineEventType
  <2>2. ~Guess(e)
    BY DEF KlineEvent, Event, Guess
  <2>3. EndArmed("MISSED", e) /\ CountCandle
    BY <1>6 DEF Miss
  <2> HIDE DEF e
  <2> QED BY <1>1, <1>3, <2>1, <2>2, <2>3
<1>7. CASE InvalidateOnTrade
  <2> DEFINE e == TradeEvent("INVALIDATED", DecisiveTrade, "STRUCTURE_INVALIDATED_BEFORE_ENTRY", 0, 0)
  <2>0. DecisiveTrade \in 1 .. Len(candle.trades)
    BY <1>0, <1>7, DecisiveTradeType DEF InvalidateOnTrade
  <2>1. e \in EventRecord
    BY <1>0, <1>4, <2>0, TradeEventType
  <2>2. ~Guess(e)
    BY DEF TradeEvent, Event, Guess
  <2>3. EndArmed("INVALIDATED", e) /\ CountCandle
    BY <1>7 DEF InvalidateOnTrade
  <2> HIDE DEF e
  <2> QED BY <1>1, <1>3, <2>1, <2>2, <2>3
<1>8. CASE InvalidateOnOhlc
  <2> DEFINE e == KlineEvent("INVALIDATED", "STRUCTURE_INVALIDATED_BEFORE_ENTRY", 0, 0)
  <2>1. e \in EventRecord
    BY <1>4, KlineEventType
  <2>2. ~candle.complete
    BY <1>0, <1>8 DEF InvalidateOnOhlc, ByOhlc
  <2>3. EndArmed("INVALIDATED", e) /\ CountCandle
    BY <1>8 DEF InvalidateOnOhlc
  <2> HIDE DEF e
  <2> QED BY <1>1, <1>3, <2>1, <2>2, <2>3
<1>9. ASSUME NEW e \in EntryRecord, NEW reason \in Reasons, Trigger(e, reason), CountCandle,
             e.source = "KLINE_1M" /\ reason = "ENTRY_NORMAL_CROSS" => ~candle.complete
      PROVE  Counted'
  <2> DEFINE fill == EntryFillOf(e, reason)
  <2>1. fill \in EventRecord
    BY <1>9 DEF EntryFillOf, Event, EventRecord, EntryRecord, EventTypes, Full
  <2>2. Guess(fill) => ~candle.complete
    BY <1>9 DEF EntryFillOf, Event, Guess
  <2>3. events' = Append(events, fill) /\ candle' = candle
    BY <1>9 DEF Trigger
  <2> HIDE DEF fill
  <2> QED BY <1>1, <1>9, <2>1, <2>2, <2>3, AddingOneIsCounted
<1>10. ASSUME NEW e, NEW reason, Trigger(e, reason), e.time \in Nat
       PROVE  e \in EntryRecord
  <2>1. e \in EntryRecord \cup {NoEntry}
    BY <1>10 DEF Trigger, TypeOK
  <2>2. NoEntry.time \notin Nat
    BY DEF NoEntry, NoTime
  <2> QED BY <1>10, <2>1, <2>2
<1>11. CASE EnterOnTrade
  <2> DEFINE i == DecisiveTrade
             e == [price |-> EntryPrice, time |-> now + candle.trades[i].at,
                   candleOpen |-> now, source |-> "AGG_TRADE", ref |-> i, stopAlso |-> FALSE]
  <2>1. i \in 1 .. Len(candle.trades)
    BY <1>0, <1>11, DecisiveTradeType DEF EnterOnTrade
  <2>2. candle.trades[i].at \in Nat
    BY <1>0, <2>1, CandleType, TimeAssumption
  <2>3. e.time \in Nat /\ e.source = "AGG_TRADE"
    <3>1. now \in Nat
      BY DEF TypeOK
    <3> PICK at \in Nat : at = candle.trades[i].at
      BY <2>2
    <3> HIDE DEF i
    <3> QED BY <3>1
  <2>4. Trigger(e, "ENTRY_NORMAL_CROSS") /\ CountCandle
    BY <1>11 DEF EnterOnTrade
  <2> HIDE DEF e
  <2> QED BY <1>4, <1>9, <1>10, <2>3, <2>4
<1>12. CASE EnterOnOhlc
  <2> DEFINE e == [price |-> IF GapEntry(candle) THEN candle.open ELSE EntryPrice,
                   time |-> now, candleOpen |-> now, source |-> "KLINE_1M", ref |-> now,
                   stopAlso |-> InvalidationTouched]
             r == IF InvalidationTouched THEN "ENTRY_AND_INVALIDATION_SAME_CANDLE"
                  ELSE IF GapEntry(candle) THEN "ENTRY_GAP_WITHIN_LIMIT"
                  ELSE "ENTRY_NORMAL_CROSS"
  <2>1. Trigger(e, r) /\ CountCandle
    BY <1>12 DEF EnterOnOhlc
  <2>2. e.time \in Nat
    BY DEF TypeOK
  <2>3. r = "ENTRY_NORMAL_CROSS" => ~candle.complete
    BY <1>0, <1>12 DEF EnterOnOhlc, ByOhlc
  <2>4. r \in Reasons
    BY <1>4
  <2> HIDE DEF e, r
  <2> QED BY <1>9, <1>10, <2>1, <2>2, <2>3, <2>4
<1> QED BY <1>2, <1>5, <1>6, <1>7, <1>8, <1>11, <1>12 DEF ArmedStep

LEMMA TradeStepIsCounted ==
  ASSUME TypeOK, TypeOK', Story, Counted, TradeStep
  PROVE  Counted'
<1>1. CASE StartTrade
  <2>1. stage = "ENTERED" /\ UNCHANGED <<now, candle, entry, events, fallback>>
    BY <1>1 DEF StartTrade
  <2> QED BY <2>1 DEF Counted, Log, OnEntryCandle
<1>2. CASE RejectBreakeven
  <2>1. stage' = "RAISED" /\ events' = events /\ fallback' = fallback
    BY <1>2 DEF RejectBreakeven
  <2> QED BY <2>1, QuietIsCounted
<1>3. CASE ActivateBreakeven
  <2> DEFINE e == Event("BREAKEVEN_ACTIVATED", activation, "KLINE_1M", activation,
                        "BREAKEVEN_NEXT_MINUTE", breakeven, 0)
  <2>1. e \in EventRecord
    <3>1. /\ "BREAKEVEN_ACTIVATED" \in EventTypes /\ "BREAKEVEN_NEXT_MINUTE" \in Reasons
          /\ "KLINE_1M" \in Sources /\ 0 \in 0 .. Full
      BY DEF Full, EventTypes, Reasons, Sources
    <3>2. activation \in Nat /\ breakeven \in Nat
      BY <1>3 DEF ActivateBreakeven, ActivationDue, TypeOK
    <3> QED BY <3>1, <3>2 DEF Event, EventRecord
  <2>2. ~Guess(e)
    BY DEF Event, Guess
  <2>3. /\ events' = Append(events, e) /\ stage = "HOLDING"
        /\ UNCHANGED <<now, candle, entry, stage, fallback>>
    BY <1>3 DEF ActivateBreakeven, Holding
  <2> HIDE DEF e
  <2>4. now' = entry'.candleOpen /\ candle' # NoCandle /\ ~candle'.complete => fallback'
    BY <2>3 DEF Counted, OnEntryCandle
  <2> QED BY <2>1, <2>2, <2>3, <2>4, AddingOneIsCounted
<1>4. CASE ExitAtDeadline
  <2>1. Holding /\ Close(DeadlinePath) /\ CountCandle /\ candle # NoCandle
    BY <1>4 DEF ExitAtDeadline, Holding
  <2>2. fallback => fallback'
    BY <2>1 DEF CountCandle
  <2> QED BY <2>1, <2>2, CandlePathTypes, GuessingIsNoted, ClosingIsCounted
<1>5. CountHeld => (fallback => fallback')
  BY DEF CountHeld, CountCandle
<1>6. CASE CloseInCandle
  <2>1. /\ Holding /\ HandleCandle /\ Close(CandlePath) /\ CountHeld /\ candle # NoCandle
        /\ CandlePath # << >>
    BY <1>6 DEF CloseInCandle, HandleCandle, Holding, Closes
  <2> QED BY <1>5, <2>1, CandlePathTypes, GuessingIsNoted, ClosingIsCounted
<1>7. CASE TakeProfitOne
  <2>1. /\ Holding /\ HandleCandle /\ CountHeld /\ candle # NoCandle /\ events' = events \o CandlePath
        /\ candle' = NoCandle
    BY <1>7 DEF TakeProfitOne, HandleCandle, Holding, NextMinute
  <2>2. CandlePath \in Seq(EventRecord)
    BY <2>1, CandlePathTypes, PathIsSeq
  <2>3. ASSUME ~fallback'
        PROVE  \A i \in DOMAIN events' : ~Guess(events'[i])
    <3>1. NothingGuessed(CandlePath) /\ \A i \in DOMAIN events : ~Guess(events[i])
      BY <1>5, <2>1, <2>3, GuessingIsNoted DEF Counted, Log
    <3> QED BY <2>1, <2>2, <3>1, AppendingKnown DEF TypeOK
  <2> QED BY <2>1, <2>3 DEF Counted, Log
<1>8. CASE HoldOn
  <2>1. events' = events /\ candle' = NoCandle /\ CountHeld
    BY <1>8 DEF HoldOn, NextMinute
  <2> QED BY <1>5, <2>1, QuietIsCounted
<1> QED BY <1>1, <1>2, <1>3, <1>4, <1>6, <1>7, <1>8 DEF TradeStep

\* A result that says its order comes from trades has no exit, no invalidation
\* and no crossing of the entry that was guessed from OHLC, in every market.
THEOREM OrderingIsHonest == Spec => []OrderingHonest
<1>1. Init => Counted
  BY DEF Init, Counted, Log
<1>2. ASSUME TypeOK, TypeOK', Story, Counted, [Next]_vars
      PROVE  Counted'
  <2>1. CASE ReadCandle \/ DataExhausted
    <3>1. /\ events' = events /\ fallback' = fallback /\ entry' = entry /\ now' = now
          /\ stage \in {"ARMED", "HOLDING"} /\ candle = NoCandle
          /\ (stage' = stage \/ stage' = "RETURNED")
      BY <2>1 DEF ReadCandle, DataExhausted
    <3>2. stage' \in {"ENTERED", "HOLDING"} => now' # entry'.candleOpen
      BY <1>2, <3>1 DEF Story, EntryKnown, OnEntryCandle
    <3> QED BY <1>2, <3>1, <3>2, QuietIsCounted
  <2>2. CASE UNCHANGED vars
    BY <1>2, <2>2 DEF vars, Counted, Log, OnEntryCandle
  <2> QED BY <1>2, <2>1, <2>2, ArmedStepIsCounted, TradeStepIsCounted DEF Next
<1>3. Counted => OrderingHonest
  BY DEF Counted, OrderingHonest, OrderingSource, Guess
<1> QED BY <1>1, <1>2, <1>3, StoryHolds, PTL DEF Spec

(* The worse of two exits *)

LEMMA CancelFactor ==
  ASSUME NEW a \in Int, NEW b \in Int, NEW c \in Nat \ {0}, a * c <= b * c
  PROVE  a <= b
OBVIOUS

LEMMA ProductIsAssociative ==
  ASSUME NEW a \in Int, NEW b \in Int, NEW c \in Int
  PROVE  (a * b) * c = a * (b * c)
OBVIOUS

\* What one exit leaves after slippage and fees, of each unit of value.
NetRate ==
  IF Long THEN (RateUnit - SlippageRate) * (RateUnit - FeeRate)
          ELSE (RateUnit + SlippageRate) * (RateUnit + FeeRate)

LEMMA CashflowOfValue ==
  ASSUME NEW e \in EventRecord
  PROVE  /\ NetRate \in Nat \ {0} /\ Value(e) \in Nat
         /\ FillCashflow(e) = IF Long THEN Value(e) * NetRate ELSE -(Value(e) * NetRate)
<1>1. /\ RateUnit - SlippageRate \in Nat \ {0} /\ RateUnit - FeeRate \in Nat \ {0}
      /\ RateUnit + SlippageRate \in Nat \ {0} /\ RateUnit + FeeRate \in Nat \ {0}
  BY RateAssumption
<1>2. NetRate \in Nat \ {0}
  BY <1>1, ProductIsPositive DEF NetRate
<1>3. e.price \in Nat /\ e.fraction \in Nat
  BY DEF EventRecord, Full
<1>4. Value(e) \in Nat
  BY <1>3, ProductIsNat DEF Value
<1>5. Long => FillCashflow(e) = Value(e) * NetRate
  <2> DEFINE v == e.price * e.fraction
  <2>1. v \in Nat
    BY <1>4 DEF Value
  <2> HIDE DEF v
  <2>2. (v * (RateUnit - SlippageRate)) * (RateUnit - FeeRate)
          = v * ((RateUnit - SlippageRate) * (RateUnit - FeeRate))
    BY <1>1, <2>1, ProductIsAssociative
  <2> QED BY <2>2 DEF v, FillCashflow, Value, NetRate
<1>6. ~Long => FillCashflow(e) = -(Value(e) * NetRate)
  <2> DEFINE v == e.price * e.fraction
  <2>1. v \in Nat
    BY <1>4 DEF Value
  <2> HIDE DEF v
  <2>2. (v * (RateUnit + SlippageRate)) * (RateUnit + FeeRate)
          = v * ((RateUnit + SlippageRate) * (RateUnit + FeeRate))
    BY <1>1, <2>1, ProductIsAssociative
  <2> QED BY <2>2 DEF v, FillCashflow, Value, NetRate
<1> QED BY <1>2, <1>4, <1>5, <1>6

Worse(value, other) == IF Long THEN value <= other ELSE value >= other

\* Costs are the same for both exits: what is worse after them is worse before.
LEMMA WorseBeforeCosts ==
  ASSUME NEW x \in Nat, NEW e \in EventRecord,
         (IF Long THEN x * NetRate ELSE -(x * NetRate)) <= FillCashflow(e)
  PROVE  Worse(x, Value(e))
<1>1. NetRate \in Nat \ {0} /\ Value(e) \in Nat
  BY CashflowOfValue
<1>2. CASE Long
  <2>1. x * NetRate <= Value(e) * NetRate
    BY <1>2, CashflowOfValue
  <2> QED BY <1>1, <1>2, <2>1, CancelFactor DEF Worse
<1>3. CASE ~Long
  <2> DEFINE a == x * NetRate
             b == Value(e) * NetRate
  <2>1. a \in Int /\ b \in Int
    BY <1>1
  <2>2. -a <= -b
    BY <1>3, CashflowOfValue
  <2> HIDE DEF a, b
  <2>3. b <= a
    BY <2>1, <2>2
  <2>4. Value(e) <= x
    BY <1>1, <2>3, CancelFactor DEF a, b
  <2> QED BY <1>3, <1>1, <2>4 DEF Worse
<1> QED BY <1>2, <1>3

LEMMA SumOfValues ==
  ASSUME NEW e \in EventRecord, NEW f \in EventRecord
  PROVE  /\ Value(e) + Value(f) \in Nat
         /\ FillCashflow(e) + FillCashflow(f)
              = IF Long THEN (Value(e) + Value(f)) * NetRate ELSE -((Value(e) + Value(f)) * NetRate)
<1>1. /\ NetRate \in Nat \ {0} /\ Value(e) \in Nat /\ Value(f) \in Nat
  BY CashflowOfValue
<1>2. (Value(e) + Value(f)) * NetRate = Value(e) * NetRate + Value(f) * NetRate
  BY <1>1
<1>3. Value(e) * NetRate \in Nat /\ Value(f) * NetRate \in Nat
  BY <1>1
<1>4. CASE Long
  BY <1>1, <1>2, <1>4, CashflowOfValue
<1>5. CASE ~Long
  <2> DEFINE a == Value(e) * NetRate
             b == Value(f) * NetRate
  <2>1. FillCashflow(e) = -a /\ FillCashflow(f) = -b
    BY <1>5, CashflowOfValue
  <2> HIDE DEF a, b
  <2>2. a \in Nat /\ b \in Nat
    BY <1>3 DEF a, b
  <2>3. -a + -b = -(a + b)
    BY <2>2
  <2> QED BY <1>1, <1>2, <1>5, <2>1, <2>3 DEF a, b
<1> QED BY <1>4, <1>5

\* The value of a path, as far as a path goes.
PathValue(p) == IF Len(p) = 1 THEN Value(p[1]) ELSE Value(p[1]) + Value(p[2])

LEMMA DeadlineValue ==
  ASSUME TypeOK, Story, Holding, ~ActivationDue, now >= Deadline
  PROVE  Worse(PathValue(DeadlinePath), candle.open * openFraction)
<1> DEFINE atOpen == KlineEvent("TIME_EXIT", "MAX_HOLDING_REACHED", candle.open, openFraction)
<1>1. /\ candle # NoCandle /\ candle.open \in Nat /\ openFraction \in 0 .. Full
  BY CandleType DEF Holding, TypeOK
<1>2. atOpen \in EventRecord
  <2>1. "TIME_EXIT" \in EventTypes /\ "MAX_HOLDING_REACHED" \in Reasons
    BY DEF EventTypes, Reasons
  <2> QED BY <1>1, <2>1, KlineEventType
<1>3. TimeExit = << atOpen >> /\ Value(atOpen) = candle.open * openFraction
  BY DEF TimeExit, Value, KlineEvent, Event
<1> HIDE DEF atOpen
<1>4. Value(atOpen) \in Nat /\ ExitCashflow(TimeExit) = FillCashflow(atOpen)
  BY <1>2, <1>3, CashflowOfValue DEF ExitCashflow
<1>5. CASE DeadlinePath = TimeExit
  <2>1. PathValue(DeadlinePath) = Value(atOpen)
    BY <1>3, <1>5 DEF PathValue
  <2> QED BY <1>3, <1>4, <2>1 DEF Worse
<1>6. CASE DeadlinePath # TimeExit
  <2>1. ExitCashflow(DeadlinePath) <= FillCashflow(atOpen)
    BY <1>4, <1>6 DEF DeadlinePath
  <2>2. Path(DeadlinePath) /\ DeadlinePath # << >>
    BY <1>1, CandlePathTypes
  <2>3. CASE \E e \in EventRecord : DeadlinePath = << e >>
    <3>1. PICK e \in EventRecord : DeadlinePath = << e >>
      BY <2>3
    <3>2. ExitCashflow(DeadlinePath) = FillCashflow(e) /\ PathValue(DeadlinePath) = Value(e)
      BY <3>1 DEF ExitCashflow, PathValue
    <3>3. Value(e) \in Nat
          /\ FillCashflow(e) = IF Long THEN Value(e) * NetRate ELSE -(Value(e) * NetRate)
      BY CashflowOfValue
    <3>4. Worse(Value(e), Value(atOpen))
      BY <1>2, <2>1, <3>2, <3>3, WorseBeforeCosts
    <3> QED BY <1>3, <3>2, <3>4
  <2>4. CASE \E e, f \in EventRecord : DeadlinePath = << e, f >>
    <3>1. PICK e \in EventRecord, f \in EventRecord : DeadlinePath = << e, f >>
      BY <2>4
    <3>2. /\ ExitCashflow(DeadlinePath) = FillCashflow(e) + FillCashflow(f)
          /\ PathValue(DeadlinePath) = Value(e) + Value(f)
      BY <3>1 DEF ExitCashflow, PathValue
    <3>3. Worse(Value(e) + Value(f), Value(atOpen))
      BY <1>2, <2>1, <3>2, SumOfValues, WorseBeforeCosts
    <3> QED BY <1>3, <3>2, <3>3
  <2> QED BY <2>2, <2>3, <2>4 DEF Path
<1> QED BY <1>5, <1>6

\* The fills a closing step adds to the log are those of its path.
LEMMA NewFillsOfPath ==
  ASSUME TypeOK, Story, Holding, NEW p, NEW from, ClosingPath(p, from), Close(p)
  PROVE  NewValue = PathValue(p)
<1> DEFINE n == Len(events)
<1>1. events \in Seq(EventRecord) /\ n \in Nat /\ Log = 1 .. n
  BY LogLength DEF TypeOK
<1>2. events' = (events \o p) \o << ClosedAfter(p[Len(p)]) >>
  BY DEF Close
<1> HIDE DEF n
<1>3. ASSUME NEW e \in EventRecord, p = << e >>, IsTerminal(e)
      PROVE  NewValue = PathValue(p)
  <2> DEFINE c == ClosedAfter(e)
  <2>1. c \in EventRecord /\ c.type = "CLOSED" /\ e.type # "CLOSED" /\ p[Len(p)] = e
    BY <1>3, ClosedAfterType DEF ClosedAfter, EventRecord, IsTerminal
  <2> HIDE DEF c
  <2>2. events' = (events \o << e >>) \o << c >>
    BY <1>2, <1>3, <2>1 DEF c
  <2>3. /\ Len(events') = n + 2 /\ events'[n + 1] = e /\ events'[n + 2] = c
    BY <1>1, <2>1, <2>2, CloseWithOne DEF n
  <2>4. DOMAIN events' = 1 .. n + 2
    <3>1. events' \in Seq(EventRecord)
      <4>1. << e >> \in Seq(EventRecord) /\ << c >> \in Seq(EventRecord)
        BY <2>1
      <4>2. events \o << e >> \in Seq(EventRecord)
        BY <1>1, <4>1, ConcatProperties
      <4> QED BY <2>2, <4>1, <4>2, ConcatProperties
    <3> QED BY <2>3, <3>1, LenProperties
  <2>5. NewFills = {n + 1}
    BY <1>1, <2>1, <2>3, <2>4 DEF NewFills
  <2>6. Cardinality(NewFills) = 1
    BY <1>1, <2>5, FS_Singleton
  <2>7. NewValue = Value(e)
    BY <2>3, <2>6 DEF NewValue, n
  <2> QED BY <1>3, <2>7 DEF PathValue
<1>4. ASSUME position = "FULL", NEW e \in EventRecord, NEW f \in EventRecord, p = << e, f >>,
             IsTakeProfit(e), IsTerminal(f)
      PROVE  NewValue = PathValue(p)
  <2> DEFINE c == ClosedAfter(f)
  <2>0. n = 1
    BY <1>4 DEF Story, FullPosition, n
  <2>1. /\ c \in EventRecord /\ c.type = "CLOSED" /\ e.type # "CLOSED" /\ f.type # "CLOSED"
        /\ p[Len(p)] = f
    BY <1>4, ClosedAfterType DEF ClosedAfter, EventRecord, IsTerminal, IsTakeProfit
  <2> HIDE DEF c
  <2>2. events' = (events \o << e, f >>) \o << c >>
    BY <1>2, <1>4, <2>1 DEF c
  <2>3. Len(events') = 4 /\ events'[2] = e /\ events'[3] = f /\ events'[4] = c
    BY <1>1, <2>0, <2>1, <2>2, CloseWithTwo DEF n
  <2>4. DOMAIN events' = 1 .. 4
    <3>1. events' \in Seq(EventRecord)
      <4>1. << e, f >> \in Seq(EventRecord) /\ << c >> \in Seq(EventRecord)
        BY <2>1
      <4>2. events \o << e, f >> \in Seq(EventRecord)
        BY <1>1, <4>1, ConcatProperties
      <4> QED BY <2>2, <4>1, <4>2, ConcatProperties
    <3> QED BY <2>3, <3>1, LenProperties
  <2>5. NewFills = {2, 3}
    BY <1>1, <2>0, <2>1, <2>3, <2>4 DEF NewFills
  <2>6. Cardinality(NewFills) = 2
    <3>1. IsFiniteSet({2}) /\ Cardinality({2}) = 1
      BY FS_Singleton
    <3>2. {2, 3} = {2} \cup {3} /\ 3 \notin {2}
      OBVIOUS
    <3>3. Cardinality({2} \cup {3}) = Cardinality({2}) + 1
      BY <3>1, <3>2, FS_AddElement
    <3> QED BY <2>5, <3>1, <3>2, <3>3
  <2>7. NewValue = Value(e) + Value(f)
    BY <2>0, <2>3, <2>6 DEF NewValue, n
  <2> QED BY <1>4, <2>7 DEF PathValue
<1> QED BY <1>3, <1>4 DEF ClosingPath, Closing

\* At the deadline the exit is never better than the one at the minute's open, for
\* any prices and costs.
THEOREM DeadlineIsNeverBetter == Spec => DeadlineTakesWorse
<1>1. ASSUME TypeOK, Story, Next, stage = "HOLDING", position' = "FLAT", now >= Deadline
      PROVE  IF Long THEN NewValue <= candle.open * openFraction
                     ELSE NewValue >= candle.open * openFraction
  <2>1. position # "FLAT" /\ now \in Nat /\ EntryKnown
    BY <1>1 DEF Story, TypeOK
  <2>2. Deadline \in Nat
    BY <1>1, <2>1, DeadlineType
  <2>3. TradeStep
    BY <1>1, <2>1 DEF Next, ReadCandle, DataExhausted, ArmedStep, SkipEarlyCandle, Expire, Miss,
                      EnterOnTrade, InvalidateOnTrade, PassTrades, EnterOnOhlc,
                      InvalidateOnOhlc, PassOhlc, ByTrades, ByOhlc, InWindow, Scanning
  <2>4. ~HandleCandle
    BY <1>1, <2>1, <2>2 DEF HandleCandle
  <2>5. ExitAtDeadline
    BY <1>1, <2>1, <2>3, <2>4 DEF TradeStep, StartTrade, RejectBreakeven, ActivateBreakeven,
                                  CloseInCandle, TakeProfitOne, HoldOn
  <2>6. Holding /\ ~ActivationDue /\ Close(DeadlinePath)
    BY <2>5 DEF ExitAtDeadline
  <2>7. ClosingPath(DeadlinePath, now)
    BY <1>1, <2>6, DeadlinePathStory
  <2>8. NewValue = PathValue(DeadlinePath)
    BY <1>1, <2>6, <2>7, NewFillsOfPath
  <2> QED BY <1>1, <2>6, <2>8, DeadlineValue DEF Worse
<1>2. ASSUME TypeOK, Story, [Next]_vars
      PROVE  [stage = "HOLDING" /\ position' = "FLAT" /\ now >= Deadline
                => IF Long THEN NewValue <= candle.open * openFraction
                           ELSE NewValue >= candle.open * openFraction]_vars
  BY <1>1, <1>2
<1> QED BY <1>2, StoryHolds, PTL DEF Spec, DeadlineTakesWorse

\* What a minute leaves open is decided against the trade, at its entry and at its
\* deadline.
THEOREM DecidedAgainstTheTrade == Spec => AmbiguityIsAdverse
BY DeadlineIsNeverBetter, SharedMinuteStopsOut DEF AmbiguityIsAdverse

-----------------------------------------------------------------------------
(* The breakeven price *)

UpRate == (RateUnit + SlippageRate) * (RateUnit + FeeRate)
DownRate == (RateUnit - SlippageRate) * (RateUnit - FeeRate)

\* A remaining leg that is closed at this price is not a loss before funding.
Pays(price, theoretical) ==
  IF Long
  THEN price * (RateUnit - SlippageRate) * (RateUnit - FeeRate)
         >= theoretical * (RateUnit + SlippageRate) * (RateUnit + FeeRate)
  ELSE price * (RateUnit + SlippageRate) * (RateUnit + FeeRate)
         <= theoretical * (RateUnit - SlippageRate) * (RateUnit - FeeRate)

LEMMA Rates ==
  /\ UpRate \in Nat \ {0} /\ DownRate \in Nat \ {0}
  /\ \A p \in Nat : /\ p * (RateUnit + SlippageRate) * (RateUnit + FeeRate) = p * UpRate
                    /\ p * (RateUnit - SlippageRate) * (RateUnit - FeeRate) = p * DownRate
<1>1. /\ RateUnit + SlippageRate \in Nat \ {0} /\ RateUnit + FeeRate \in Nat \ {0}
      /\ RateUnit - SlippageRate \in Nat \ {0} /\ RateUnit - FeeRate \in Nat \ {0}
  BY RateAssumption
<1>2. UpRate \in Nat \ {0} /\ DownRate \in Nat \ {0}
  BY <1>1, ProductIsPositive DEF UpRate, DownRate
<1>3. ASSUME NEW p \in Nat
      PROVE  /\ p * (RateUnit + SlippageRate) * (RateUnit + FeeRate) = p * UpRate
             /\ p * (RateUnit - SlippageRate) * (RateUnit - FeeRate) = p * DownRate
  BY <1>1, ProductIsAssociative DEF UpRate, DownRate
<1> QED BY <1>2, <1>3

\* Rounding up never loses, rounding down never exceeds.
LEMMA RoundingCovers ==
  ASSUME NEW num \in Nat, NEW den \in Nat \ {0}
  PROVE  CeilToTick(num, den) * den >= num /\ FloorToTick(num, den) * den <= num
<1> DEFINE unit == den * TickSize
           up == (num + unit - 1) \div unit
           down == num \div unit
<1>1. TickSize \in Nat \ {0} /\ unit \in Nat \ {0}
  BY PriceAssumption, ProductIsPositive
<1>2. /\ up \in Nat /\ up * unit >= num
      /\ down \in Nat /\ down * unit <= num
  <2> HIDE DEF unit
  <2>1. num + unit - 1 \in Nat
    BY <1>1
  <2>2. num + unit - 1 < up * unit + unit /\ up \in Nat
    BY <1>1, <2>1, DivisionBounds
  <2>3. down \in Nat /\ down * unit <= num
    BY <1>1, DivisionBounds
  <2>4. up * unit \in Nat
    BY <1>1, <2>2, ProductIsNat
  <2> HIDE DEF up, down
  <2> QED BY <1>1, <2>2, <2>3, <2>4
<1>3. ASSUME NEW q \in Nat PROVE (q * TickSize) * den = q * unit
  <2>1. (q * TickSize) * den = q * (TickSize * den)
    BY <1>1, ProductIsAssociative
  <2>2. TickSize * den = den * TickSize
    BY <1>1
  <2> QED BY <2>1, <2>2
<1>4. CeilToTick(num, den) = up * TickSize /\ FloorToTick(num, den) = down * TickSize
  BY DEF CeilToTick, FloorToTick
<1> HIDE DEF up, down, unit
<1> QED BY <1>2, <1>3, <1>4

\* A SHORT whose targets are at least two ticks, at costs below half of the price.
BreakevenIsPriced == Long \/ (2 * TickSize <= Tp2 /\ UpRate <= 2 * DownRate)

LEMMA SmallProducts ==
  ASSUME NEW p \in Nat, NEW t \in Nat, NEW d \in Nat, NEW u \in Nat, 2 * t <= p, u <= 2 * d
  PROVE  u * t <= p * d
<1>1. u * t <= (2 * d) * t
  OBVIOUS
<1>2. (2 * d) * t = d * (2 * t)
  OBVIOUS
<1>3. d * (2 * t) <= d * p
  OBVIOUS
<1>4. d * p = p * d
  OBVIOUS
<1>5. u * t \in Nat /\ (2 * d) * t \in Nat /\ d * p \in Nat
  BY ProductIsNat
<1> QED BY <1>1, <1>2, <1>3, <1>4, <1>5

LEMMA QuotientIsPositive ==
  ASSUME NEW a \in Nat, NEW b \in Nat \ {0}, b <= a
  PROVE  a \div b \in Nat \ {0}
<1>1. a \div b \in Nat /\ a < (a \div b) * b + b
  BY DivisionBounds
<1>2. ASSUME a \div b = 0 PROVE FALSE
  BY <1>1, <1>2
<1> QED BY <1>1, <1>2

LEMMA BreakevenPays ==
  ASSUME BreakevenIsPriced, NEW p \in Nat, BreakevenOrdered(BreakevenFor(p))
  PROVE  Pays(BreakevenFor(p), p)
<1> DEFINE b == BreakevenFor(p)
           c == CostAwareBreakeven(p)
<1>1. UpRate \in Nat \ {0} /\ DownRate \in Nat \ {0}
  BY Rates
<1>2. p * UpRate \in Nat /\ p * DownRate \in Nat
  BY <1>1, ProductIsNat
<1>3. c = IF Long THEN CeilToTick(p * UpRate, DownRate) ELSE FloorToTick(p * DownRate, UpRate)
  BY Rates DEF CostAwareBreakeven, UpRate, DownRate
<1>4. b \in Nat /\ c \in Nat
  BY <1>1, <1>2, <1>3, BreakevenIsNat, TickRounding
<1>5. b = IF c = 0 THEN p ELSE c
  BY DEF BreakevenFor
<1>6. CASE Long
  <2>1. c * DownRate >= p * UpRate
    BY <1>1, <1>2, <1>3, <1>6, RoundingCovers
  <2>2. c = 0 => p = 0
    BY <1>1, <2>1
  <2>3. b * DownRate >= p * UpRate
    BY <1>5, <2>1, <2>2
  <2> QED BY <1>4, <1>6, <2>3, Rates DEF Pays
<1>7. CASE ~Long
  <2>1. c * UpRate <= p * DownRate
    BY <1>1, <1>2, <1>3, <1>7, RoundingCovers
  <2>2. c # 0
    <3>1. SUFFICES ASSUME c = 0 PROVE FALSE
      OBVIOUS
    <3>2. b = p /\ b > Tp2 /\ TickSize \in Nat \ {0} /\ Tp2 \in Nat
      BY <1>5, <1>7, <3>1, PriceAssumption DEF BreakevenOrdered
    <3>3. 2 * TickSize <= p /\ UpRate <= 2 * DownRate
      BY <1>7, <3>2 DEF BreakevenIsPriced
    <3>4. UpRate * TickSize <= p * DownRate /\ UpRate * TickSize \in Nat \ {0}
      BY <1>1, <3>2, <3>3, SmallProducts, ProductIsPositive
    <3>5. (p * DownRate) \div (UpRate * TickSize) \in Nat \ {0}
      BY <1>2, <3>4, QuotientIsPositive
    <3>6. FloorToTick(p * DownRate, UpRate) \in Nat \ {0}
      BY <3>2, <3>5, ProductIsPositive DEF FloorToTick
    <3> QED BY <1>3, <1>7, <3>1, <3>6
  <2>3. b * UpRate <= p * DownRate
    BY <1>5, <2>1, <2>2
  <2> QED BY <1>4, <1>7, <2>3, Rates DEF Pays
<1> QED BY <1>6, <1>7

(* The stop at breakeven *)

Paid ==
  /\ position \in {"FULL", "HALF"} => Pays(breakeven, entry.price)
  /\ \A i \in Log : events[i].reason = "BREAKEVEN_STOP" => Pays(events[i].price, entry.price)

\* Until a trade is closed nothing has been stopped out.
LEMMA NotYetStopped ==
  ASSUME TypeOK, Story, position # "FLAT"
  PROVE  \A i \in Log : events[i].reason # "BREAKEVEN_STOP"
<1>1. Len(events) \in Nat /\ Log = 1..Len(events)
  BY LogLength DEF TypeOK
<1>2. CASE position = "NONE"
  BY <1>2 DEF Story, Untraded, StopReasons
<1>3. CASE position = "FULL"
  <2>1. Len(events) = 1 /\ events[1].reason # "BREAKEVEN_STOP"
    BY <1>3 DEF Story, FullPosition, IsEntry, StopReasons
  <2> QED BY <1>1, <2>1
<1>4. CASE position = "HALF"
  <2>1. HalfPosition
    BY <1>4 DEF Story
  <2>2. /\ events[1].reason # "BREAKEVEN_STOP" /\ events[2].reason # "BREAKEVEN_STOP"
        /\ Len(events) = 2 \/ (Len(events) = 3 /\ events[3].reason # "BREAKEVEN_STOP")
    BY <2>1 DEF HalfPosition, HalfTaken, IsEntry, IsTakeProfit, IsActivation, StopReasons
  <2> QED BY <1>1, <2>2
<1> QED BY <1>2, <1>3, <1>4 DEF TypeOK

AtBreakeven(e) == e.reason = "BREAKEVEN_STOP" => e.price = breakeven

\* The remaining half is stopped out exactly at the breakeven price.
LEMMA HalfStopsAtBreakeven ==
  ASSUME position = "HALF", breakevenActive, NEW e,
         CandlePath = << e >> \/ DeadlinePath = << e >>
  PROVE  AtBreakeven(e)
<1>1. ASSUME NEW from, HalfTradePath(from) = << e >> PROVE AtBreakeven(e)
  <2> DEFINE i == First({k \in from .. Len(candle.trades) :
                         FallsTo(TradePrice(k), ProtectiveStop) \/ Reaches(TradePrice(k), Tp2)})
             stop == TradeEvent("STOP_FILL", i, ProtectiveReason, ProtectiveStop, Half)
             tp2 == TradeEvent("TP2_FILL", i, "TP2_TARGET", Tp2, Half)
  <2>1. \/ << e >> = << >>
        \/ << e >> = << stop >>
        \/ << e >> = << tp2 >>
    BY <1>1 DEF HalfTradePath
  <2>2. AtBreakeven(stop) /\ AtBreakeven(tp2)
    BY DEF AtBreakeven, TradeEvent, Event, ProtectiveStop
  <2> HIDE DEF i, stop, tp2
  <2>3. e = stop \/ e = tp2
    BY <2>1
  <2> QED BY <2>2, <2>3
<1>2. ASSUME NEW from, TradePath(from) = << e >> PROVE AtBreakeven(e)
  BY <1>1, <1>2 DEF TradePath
<1> DEFINE stop == KlineEvent("STOP_FILL", "BREAKEVEN_STOP", breakeven, Half)
           tp2 == KlineEvent("TP2_FILL", "TP2_TARGET", Tp2, Half)
           exit == KlineEvent("TIME_EXIT", "MAX_HOLDING_REACHED", candle.open, openFraction)
<1>3. AtBreakeven(stop) /\ AtBreakeven(tp2) /\ AtBreakeven(exit)
  BY DEF AtBreakeven, KlineEvent, Event
<1>4. OhlcPath \in {<< >>, << stop >>, << tp2 >>} /\ DeadlineOhlcPath \in {<< >>, << stop >>, << tp2 >>}
  BY DEF OhlcPath, DeadlineOhlcPath, KlineStop, KlineTp2, ProtectiveStop, ProtectiveReason
<1>5. TimeExit = << exit >>
  BY DEF TimeExit
<1> HIDE DEF stop, tp2, exit
<1>6. CASE CandlePath = << e >>
  <2>1. CASE candle.complete
    BY <1>2, <1>6, <2>1 DEF CandlePath
  <2>2. CASE ~candle.complete
    <3>1. e = stop \/ e = tp2
      BY <1>4, <1>6, <2>2 DEF CandlePath
    <3> QED BY <1>3, <3>1
  <2> QED BY <2>1, <2>2
<1>7. CASE DeadlinePath = << e >>
  <2>1. \/ << e >> = << exit >>
        \/ << e >> = DeadlineOhlcPath
        \/ << e >> = TradePath(1)
        \/ << e >> = << >>
    BY <1>5, <1>7 DEF DeadlinePath, DeadlineRiskPath
  <2>2. e = exit \/ e = stop \/ e = tp2 \/ TradePath(1) = << e >>
    BY <1>4, <2>1
  <2> QED BY <1>2, <1>3, <2>2
<1> QED BY <1>6, <1>7

LEMMA ClosePays ==
  ASSUME TypeOK, Story, Paid, Holding, Ready, NEW p, NEW from, ClosingPath(p, from), Close(p),
         p = CandlePath \/ p = DeadlinePath, Story', TypeOK'
  PROVE  Paid'
<1>1. position' = "FLAT" /\ entry' = entry /\ breakeven' = breakeven
      /\ events' = (events \o p) \o << ClosedAfter(p[Len(p)]) >>
  BY DEF Close
<1>2. events \in Seq(EventRecord) /\ Log' = 1..Len(events') /\ Len(events') \in Nat
  BY LogLength DEF TypeOK, Log
<1>3. FlatPosition'
  BY <1>1 DEF Story
<1>4. CASE position = "FULL"
  <2>1. Len(events) = 1
    BY <1>4 DEF Story, FullPosition
  <2>2. \A i \in 1..Len(events') : events'[i].reason # "BREAKEVEN_STOP"
    <3>1. Len(events') # 5
      <4>1. ASSUME NEW e \in EventRecord, p = << e >>, IsTerminal(e) PROVE Len(events') = 3
        <5> DEFINE c == ClosedAfter(e)
        <5>1. c \in EventRecord /\ events' = (events \o << e >>) \o << c >>
          BY <1>1, <4>1, ClosedAfterType
        <5> DEFINE n == Len(events)
        <5> HIDE DEF c
        <5>2. Len(events') = n + 2
          BY <1>2, <4>1, <5>1, CloseWithOne
        <5> QED BY <2>1, <5>2
      <4>2. ASSUME NEW e \in EventRecord, NEW f \in EventRecord, p = << e, f >>, IsTerminal(f)
            PROVE  Len(events') = 4
        <5> DEFINE c == ClosedAfter(f)
        <5>1. c \in EventRecord /\ events' = (events \o << e, f >>) \o << c >>
          BY <1>1, <4>2, ClosedAfterType
        <5> HIDE DEF c
        <5> QED BY <1>2, <2>1, <4>2, <5>1, CloseWithTwo
      <4> QED BY <4>1, <4>2 DEF ClosingPath, Closing
    <3>2. events'[1].reason # "BREAKEVEN_STOP"
      BY <1>3 DEF FlatPosition, IsEntry, StopReasons
    <3>3. CASE Len(events') = 3
      BY <1>3, <3>2, <3>3 DEF FlatPosition, Ended
    <3>4. CASE Len(events') = 4
      BY <1>3, <3>2, <3>4 DEF FlatPosition, Ended, IsTakeProfit
    <3> QED BY <1>3, <3>1, <3>3, <3>4 DEF FlatPosition
  <2> QED BY <1>1, <1>2, <2>2 DEF Paid
<1>5. CASE position = "HALF"
  <2>1. PICK e \in EventRecord : p = << e >> /\ IsTerminal(e)
    BY <1>5 DEF ClosingPath, Closing
  <2>2. AtBreakeven(e)
    BY <1>5, <2>1, HalfStopsAtBreakeven DEF Ready
  <2> DEFINE c == ClosedAfter(e)
  <2>3. /\ c \in EventRecord /\ events' = (events \o << e >>) \o << c >>
        /\ c.price = e.price /\ c.reason = e.reason
    BY <1>1, <2>1, ClosedAfterType DEF ClosedAfter, EventRecord
  <2> HIDE DEF c
  <2>4. Len(events) = 3
    BY <1>5 DEF Story, HalfPosition, Ready
  <2>5. /\ Len(events') = 5 /\ \A i \in 1..3 : events'[i] = events[i]
        /\ events'[4] = e /\ events'[5] = c
    <3> DEFINE n == Len(events)
    <3>1. /\ Len(events') = n + 2 /\ \A i \in 1..n : events'[i] = events[i]
          /\ events'[n + 1] = e /\ events'[n + 2] = c
      BY <1>2, <2>1, <2>3, CloseWithOne
    <3> QED BY <2>4, <3>1
  <2>6. \A i \in 1..3 : events[i].reason # "BREAKEVEN_STOP"
    <3>1. Log = 1..3
      BY <1>2, <2>4, LogLength
    <3> QED BY <1>5, <3>1, NotYetStopped
  <2>7. e.reason = "BREAKEVEN_STOP" => Pays(e.price, entry.price)
    BY <1>5, <2>2 DEF AtBreakeven, Paid
  <2>8. ASSUME NEW i \in 1..5, events'[i].reason = "BREAKEVEN_STOP"
        PROVE  Pays(events'[i].price, entry'.price)
    <3>1. i = 4 \/ i = 5
      BY <2>5, <2>6, <2>8
    <3> QED BY <1>1, <2>3, <2>5, <2>7, <2>8, <3>1
  <2> QED BY <1>1, <1>2, <2>5, <2>8 DEF Paid, Pays
<1> QED BY <1>4, <1>5 DEF Ready

LEMMA StepPays ==
  ASSUME BreakevenIsPriced, TypeOK, TypeOK', Story, Story', Paid, [Next]_vars
  PROVE  Paid'
<1>1. CASE UNCHANGED vars
  BY <1>1 DEF vars, Paid, Pays, Log
<1>2. CASE ExitAtDeadline
  <2>1. Holding /\ ~ActivationDue /\ now >= Deadline /\ Close(DeadlinePath)
    BY <1>2 DEF ExitAtDeadline
  <2>2. Ready /\ ClosingPath(DeadlinePath, Start)
    BY <2>1, DeadlinePathStory DEF Start
  <2> QED BY <2>1, <2>2, ClosePays
<1>3. CASE CloseInCandle
  <2>1. HandleCandle /\ Holding /\ Closes(CandlePath) /\ Close(CandlePath)
    BY <1>3 DEF CloseInCandle, HandleCandle
  <2>2. Ready /\ ClosingPath(CandlePath, Start)
    BY <2>1, CandlePathStory, PathEnds
  <2> QED BY <2>1, <2>2, ClosePays
<1>4. ASSUME position' # "FLAT", position' \in {"FULL", "HALF"} => Pays(breakeven', entry'.price)
      PROVE  Paid'
  <2>1. \A i \in Log' : events'[i].reason # "BREAKEVEN_STOP"
    <3>1. (TypeOK /\ Story /\ position # "FLAT" => \A i \in Log : events[i].reason # "BREAKEVEN_STOP")'
      BY NotYetStopped, PTL
    <3> QED BY <1>4, <3>1
  <2> QED BY <1>4, <2>1 DEF Paid
<1>5. CASE StartTrade
  <2>1. position' = "FULL" /\ breakeven' = BreakevenFor(entry.price) /\ entry' = entry
    BY <1>5 DEF StartTrade
  <2>2. entry.price \in Nat
    BY <1>5 DEF StartTrade, Story, EntryKnown, EntryRecord
  <2>3. Pays(breakeven', entry'.price)
    BY <1>5, <2>1, <2>2, BreakevenPays DEF StartTrade
  <2> QED BY <1>4, <2>1, <2>3
<1>6. CASE ReadCandle \/ DataExhausted \/ ActivateBreakeven \/ TakeProfitOne \/ HoldOn
  <2>1. breakeven' = breakeven /\ entry' = entry /\ stage \in {"ARMED", "HOLDING"}
        /\ (position' = position \/ (position' = "HALF" /\ stage = "HOLDING"))
    BY <1>6 DEF ReadCandle, DataExhausted, ActivateBreakeven, TakeProfitOne, HoldOn, HandleCandle,
                Holding
  <2>2. IF stage = "ARMED" THEN position = "NONE" ELSE position \in {"FULL", "HALF"}
    BY <2>1 DEF Story
  <2> QED BY <1>4, <2>1, <2>2 DEF Paid
<1>7. CASE RejectBreakeven \/ ArmedStep
  <2>1. position = "NONE" /\ position' = position
    BY <1>7 DEF Story, RejectBreakeven, ArmedStep, SkipEarlyCandle, PassTrades, PassOhlc, PassArmed,
                Expire, Miss, InvalidateOnTrade, InvalidateOnOhlc, EnterOnTrade, EnterOnOhlc,
                EndArmed, Trigger, TradeUnchanged, ByTrades, ByOhlc, InWindow, Scanning
  <2> QED BY <1>4, <2>1
<1> QED BY <1>1, <1>2, <1>3, <1>5, <1>6, <1>7 DEF Next, TradeStep

LEMMA InitPays ==
  ASSUME Init
  PROVE  Paid
BY DEF Init, Paid, Log

\* The stop at breakeven never turns the remaining half into a loss before funding,
\* whatever price the trade was entered at and whatever the tick and the rates are.
\* (_breakeven_price in the cost scenario and the default of replay_trade: a
\* breakeven that rounds to zero would be taken for a missing one.)
THEOREM BreakevenPaysItsCosts ==
  ASSUME BreakevenIsPriced
  PROVE  Spec => []BreakevenCovers
<1>1. ASSUME TypeOK, Story, TypeOK', Story', Paid, [Next]_vars PROVE Paid'
  BY <1>1, StepPays
<1>2. Paid => BreakevenCovers
  BY DEF Paid, Pays, BreakevenCovers
<1> QED BY <1>1, <1>2, InitPays, StoryHolds, PTL DEF Spec

-----------------------------------------------------------------------------
(* The consumers of the log *)

\* What Story leaves out: which event ended a signal, what an entry fills, and
\* what the log of a closed trade says of its breakeven.
Details ==
  /\ signal = "ARMED" => events = << >>
  /\ signal \in Endings =>
       /\ stage = "RETURNED" /\ position = "NONE"
       /\ Len(events) = 1 /\ events[1].type = signal
  /\ signal = "TRIGGERED" =>
       /\ stage = "RETURNED" => position # "NONE"
       /\ events # << >> /\ events[1].fraction = Full
  /\ position = "FLAT" => (breakevenActive <=> Len(events) = 5)

LEMMA EndArmedDetails ==
  ASSUME TypeOK, Story, Scanning, NEW state \in Endings, NEW e, e.type = state, EndArmed(state, e)
  PROVE  Details'
<1>1. /\ events' = << e >> /\ signal' = state /\ stage' = "RETURNED" /\ position' = "NONE"
  BY DEF Story, EndArmed, TradeUnchanged, Scanning
<1>2. Len(events') = 1 /\ events'[1] = e
  BY <1>1
<1> QED BY <1>1, <1>2 DEF Details, Endings

LEMMA TriggerDetails ==
  ASSUME TypeOK, Story, Scanning, NEW e, NEW reason, Trigger(e, reason)
  PROVE  Details'
<1>1. /\ events' = << EntryFillOf(e, reason) >> /\ signal' = "TRIGGERED" /\ stage' = "ENTERED"
      /\ position' = "NONE"
  BY DEF Story, Trigger, TradeUnchanged, Scanning
<1>2. events' # << >> /\ events'[1].fraction = Full
  BY <1>1 DEF EntryFillOf, Event
<1> QED BY <1>1, <1>2 DEF Details, Endings

LEMMA ArmedStepDetails ==
  ASSUME TypeOK, Story, Details, ArmedStep
  PROVE  Details'
<1>2. CASE SkipEarlyCandle \/ PassTrades \/ PassOhlc
  <2>1. UNCHANGED <<stage, signal, events, position, breakevenActive>>
    BY <1>2 DEF SkipEarlyCandle, PassTrades, PassOhlc, PassArmed, TradeUnchanged
  <2> QED BY <2>1 DEF Details
<1>3. CASE Expire
  <2>1. "EXPIRED" \in Endings
    BY DEF Endings
  <2> QED BY <1>3, <2>1, EndArmedDetails DEF Expire, Event
<1>4. CASE Miss
  <2>1. "MISSED" \in Endings
    BY DEF Endings
  <2> QED BY <1>4, <2>1, EndArmedDetails DEF Miss, InWindow, KlineEvent, Event
<1>5. CASE InvalidateOnTrade \/ InvalidateOnOhlc
  <2>1. "INVALIDATED" \in Endings
    BY DEF Endings
  <2> QED BY <1>5, <2>1, EndArmedDetails
          DEF InvalidateOnTrade, InvalidateOnOhlc, ByTrades, ByOhlc, InWindow, KlineEvent, TradeEvent, Event
<1>6. CASE EnterOnTrade \/ EnterOnOhlc
  BY <1>6, TriggerDetails DEF EnterOnTrade, EnterOnOhlc, ByTrades, ByOhlc, InWindow
<1> QED BY <1>2, <1>3, <1>4, <1>5, <1>6 DEF ArmedStep

LEMMA CloseDetails ==
  ASSUME TypeOK, Story, Details, Holding, Ready, NEW p, NEW from, ClosingPath(p, from), Close(p)
  PROVE  Details'
<1>1. /\ position' = "FLAT" /\ stage' = "RETURNED" /\ signal' = "TRIGGERED" /\ signal = "TRIGGERED"
      /\ breakevenActive' = breakevenActive
      /\ events' = (events \o p) \o << ClosedAfter(p[Len(p)]) >>
  BY DEF Close, Story, Holding
<1>2. events \in Seq(EventRecord) /\ events[1].fraction = Full
  BY <1>1 DEF TypeOK, Details
<1>3. ASSUME NEW e \in EventRecord, IsTerminal(e), p = << e >>
      PROVE  /\ Len(events') = Len(events) + 2
             /\ Len(events) >= 1 => events'[1] = events[1]
  <2>1. p[Len(p)] = e /\ ClosedAfter(e) \in EventRecord
    BY <1>3, ClosedAfterType
  <2> DEFINE c == ClosedAfter(e)
             n == Len(events)
  <2>2. c \in EventRecord /\ events' = (events \o << e >>) \o << c >>
    BY <1>1, <1>3, <2>1
  <2> HIDE DEF c
  <2>3. /\ Len(events') = n + 2 /\ n \in Nat /\ \A i \in 1 .. n : events'[i] = events[i]
    BY <1>2, <1>3, <2>2, CloseWithOne
  <2> QED BY <2>3
<1>4. ASSUME position = "FULL", NEW e \in EventRecord, NEW f \in EventRecord, IsTerminal(f),
             p = << e, f >>
      PROVE  Len(events') = 4 /\ events'[1] = events[1]
  <2>1. p[Len(p)] = f /\ ClosedAfter(f) \in EventRecord
    BY <1>4, ClosedAfterType
  <2>2. Len(events) = 1
    BY <1>4 DEF Story, FullPosition
  <2> DEFINE c == ClosedAfter(f)
  <2>3. c \in EventRecord /\ events' = (events \o << e, f >>) \o << c >>
    BY <1>1, <1>4, <2>1
  <2> HIDE DEF c
  <2> QED BY <1>2, <1>4, <2>2, <2>3, CloseWithTwo
<1>5. CASE position = "FULL"
  <2>1. Len(events) = 1 /\ ~breakevenActive
    BY <1>5 DEF Story, FullPosition
  <2>2. Len(events') \in {3, 4} /\ events'[1] = events[1]
    BY <1>3, <1>4, <1>5, <2>1 DEF ClosingPath, Closing
  <2>3. events' # << >>
    BY <2>2
  <2> QED BY <1>1, <1>2, <2>1, <2>2, <2>3 DEF Details, Endings
<1>6. CASE position = "HALF"
  <2>1. Len(events) = 3 /\ breakevenActive
    BY <1>6 DEF Story, HalfPosition, Ready
  <2>2. Len(events') = 5 /\ events'[1] = events[1]
    BY <1>3, <1>6, <2>1 DEF ClosingPath, Closing
  <2>3. events' # << >>
    BY <2>2
  <2> QED BY <1>1, <1>2, <2>1, <2>2, <2>3 DEF Details, Endings
<1> QED BY <1>5, <1>6 DEF Ready

LEMMA TradeStepDetails ==
  ASSUME TypeOK, TypeOK', Story, Story', Details, TradeStep
  PROVE  Details'
<1>1. CASE ExitAtDeadline
  <2>1. Holding /\ ~ActivationDue /\ now >= Deadline /\ Close(DeadlinePath) /\ activation' = activation
    BY <1>1 DEF ExitAtDeadline
  <2>2. Ready /\ ClosingPath(DeadlinePath, Start)
    BY <2>1, DeadlinePathStory DEF Start
  <2> QED BY <2>1, <2>2, CloseDetails
<1>2. CASE CloseInCandle
  <2>1. HandleCandle /\ Holding /\ Closes(CandlePath) /\ Close(CandlePath)
    BY <1>2 DEF CloseInCandle, HandleCandle
  <2>2. Ready /\ ClosingPath(CandlePath, Start)
    BY <2>1, CandlePathStory, PathEnds
  <2> QED BY <2>1, <2>2, CloseDetails
<1>3. CASE StartTrade \/ RejectBreakeven \/ HoldOn
  <2>1. signal' = "TRIGGERED" /\ signal = "TRIGGERED" /\ events' = events /\ stage' # "RETURNED"
        /\ position' # "FLAT"
    BY <1>3 DEF Story, StartTrade, RejectBreakeven, HoldOn, HandleCandle, Holding
  <2> QED BY <2>1 DEF Details, Endings
<1>4. CASE ActivateBreakeven \/ TakeProfitOne
  <2>1. signal' = "TRIGGERED" /\ signal = "TRIGGERED" /\ stage' = "HOLDING" /\ position' # "FLAT"
    BY <1>4 DEF Story, ActivateBreakeven, TakeProfitOne, HandleCandle, Holding
  <2>2. events \in Seq(EventRecord) /\ events # << >> /\ events' \in Seq(EventRecord)
    BY <2>1 DEF TypeOK, Details
  <2>3. events'[1] = events[1] /\ events' # << >>
    <3>1. CASE ActivateBreakeven
      BY <2>2, <3>1 DEF ActivateBreakeven
    <3>2. CASE TakeProfitOne
      <4>1. CandlePath \in Seq(EventRecord)
        BY <3>2, CandlePathTypes, PathIsSeq DEF TakeProfitOne, HandleCandle, Holding
      <4>2. events' = events \o CandlePath
        BY <3>2 DEF TakeProfitOne
      <4> QED BY <2>2, <4>1, <4>2, ConcatProperties, EmptySeq, LenProperties
    <3> QED BY <1>4, <3>1, <3>2
  <2> QED BY <2>1, <2>3 DEF Details, Endings
<1> QED BY <1>1, <1>2, <1>3, <1>4 DEF TradeStep

LEMMA StepKeepsDetails ==
  ASSUME TypeOK, Story, Details, [Next]_vars
  PROVE  TypeOK' /\ Story' /\ Details'
<1>1. TypeOK'
  <2>1. CASE UNCHANGED vars
    BY <2>1 DEF TypeOK, vars
  <2> QED BY <2>1, ReadingKeepsType, ArmedStepKeepsType, TradeStepKeepsType DEF Next
<1>2. Story'
  BY <1>1, ReadingKeepsStory, ArmedStepKeepsStory, TradeStepKeepsStory, StutterKeepsStory DEF Next
<1>3. Details'
  <2>1. CASE UNCHANGED vars
    BY <2>1 DEF Details, vars
  <2>2. CASE ReadCandle \/ DataExhausted
    <3>1. /\ UNCHANGED <<signal, position, events, breakevenActive>>
          /\ stage \in {"ARMED", "HOLDING"} /\ (stage' = stage \/ stage' = "RETURNED")
      BY <2>2 DEF ReadCandle, DataExhausted
    <3>2. stage = "ARMED" => signal = "ARMED"
      BY DEF Story
    <3>3. stage = "HOLDING" => position # "NONE" /\ signal = "TRIGGERED"
      BY DEF Story
    <3> QED BY <3>1, <3>2, <3>3 DEF Details, Endings
  <2> QED BY <1>1, <1>2, <2>1, <2>2, ArmedStepDetails, TradeStepDetails DEF Next
<1> QED BY <1>1, <1>2, <1>3

-----------------------------------------------------------------------------
(* The reducer: what a fold of Apply goes through *)

\* Everything the reducer is given, and the states it can be in.
Words == EventTypes \cup Reasons \cup Sources
           \cup {"LATE_EVENT_IGNORED", "LATE_ENTRY_AFTER_TERMINAL",
                 "ARMED", "TRIGGERED", "CLOSED", "NONE", "FULL", "HALF", "FLAT"}
Reported == [type : Words, time : Nat, source : Words, ref : Nat, reason : Words,
             price : Nat, fraction : Int]
Identities == Words \X Nat \X Words \X Nat
Reductions == [lifecycle : Words, position : Words, openFraction : Int,
               breakevenActive : BOOLEAN, terminalReason : Words, closedSeen : BOOLEAN,
               applied : SUBSET Identities, lastTime : Int,
               raised : BOOLEAN]

LEMMA FreshType == Fresh \in Reductions
<1>1. NoTime \in Int /\ 0 \in Int /\ {} \in SUBSET Identities /\ FALSE \in BOOLEAN
  BY DEF NoTime
<1>2. "ARMED" \in Words /\ "NONE" \in Words
  BY DEF Words
<1> QED BY <1>1, <1>2, Zenon DEF Fresh, Reductions

LEMMA EffectType ==
  ASSUME NEW s \in Reductions, NEW e \in Reported
  PROVE  Effect(s, e) \in Reductions
<1>1. /\ e.type \in Words /\ e.reason \in Words
      /\ Full \in Int /\ Half \in Int /\ 0 \in Int /\ TRUE \in BOOLEAN
  BY DEF Reported, Full, Half
<1>2. ASSUME NEW l \in Words, NEW p \in Words, NEW f \in Int, NEW t \in Words
      PROVE  /\ [s EXCEPT !.lifecycle = l, !.position = p, !.openFraction = f] \in Reductions
             /\ [s EXCEPT !.lifecycle = l, !.terminalReason = t] \in Reductions
             /\ [s EXCEPT !.position = p, !.openFraction = f] \in Reductions
             /\ [s EXCEPT !.lifecycle = l, !.position = p, !.openFraction = f,
                          !.terminalReason = t] \in Reductions
             /\ [s EXCEPT !.breakevenActive = TRUE] \in Reductions
             /\ [s EXCEPT !.closedSeen = TRUE] \in Reductions
  BY DEF Reductions
<1>3. {"TRIGGERED", "FULL", "HALF", "CLOSED", "FLAT"} \subseteq Words
  BY DEF Words
<1> QED BY <1>1, <1>2, <1>3 DEF Effect

LEMMA ApplyType ==
  ASSUME NEW s \in Reductions, NEW e \in Reported
  PROVE  Apply(s, e) \in Reductions
<1> DEFINE t == Effect(s, e)
<1>1. t \in Reductions /\ t.applied \in SUBSET Identities
  BY EffectType DEF Reductions
<1>2. EventId(e) \in Identities /\ e.time \in Int
  BY DEF EventId, Reported, Identities
<1> HIDE DEF t
<1>3. [t EXCEPT !.applied = @ \cup {EventId(e)}, !.lastTime = e.time] \in Reductions
  BY <1>1, <1>2 DEF Reductions
<1>4. [s EXCEPT !.raised = TRUE] \in Reductions
  BY DEF Reductions
<1> QED BY <1>3, <1>4 DEF Apply, t

\* The reductions of the members of a set of positions of b, from s.
Reduces(s, b, it) ==
  it = [S \in SUBSET DOMAIN b |-> IF S = {} THEN s ELSE Apply(it[S \ {Max(S)}], b[Max(S)])]

LEMMA ReduceIsFold ==
  ASSUME NEW s, NEW b, NEW it, Reduces(s, b, it)
  PROVE  \E jt : Reduces(s, b, jt) /\ Reduce(s, b) = jt[DOMAIN b]
BY DEF Reduce, FoldLeft, MapThenFoldSet, Reduces

\* The state after each event of a slice.
LEMMA ReduceSteps ==
  ASSUME NEW s \in Reductions, NEW b \in Seq(Reported)
  PROVE  \E g : /\ g[0] = s
                /\ \A i \in 1..Len(b) : g[i] = Apply(g[i - 1], b[i])
                /\ Reduce(s, b) = g[Len(b)]
<1> DEFINE n == Len(b)
           H == [i \in 1..n |-> [v \in Reductions |-> Apply(v, b[i])]]
<1>1. n \in Nat /\ DOMAIN b = 1..n /\ \A i \in 1..n : b[i] \in Reported
  BY LenProperties, ElementOfSeq
<1>2. \A i \in 1..n, v \in Reductions : H[i][v] = Apply(v, b[i]) /\ H[i][v] \in Reductions
  <2>1. \A i \in 1..n, v \in Reductions : Apply(v, b[i]) \in Reductions
    BY <1>1, ApplyType
  <2> HIDE DEF n
  <2> QED BY <2>1
<1> HIDE DEF H, n
<1>3. PICK it : it \in [SUBSET (1..n) -> Reductions] /\ IsFold(1..n, s, H, it)
  BY <1>1, <1>2, FoldSteps
<1>4. Reduces(s, b, it)
  <2>1. \A S \in SUBSET (1..n) : S # {} =>
           H[Max(S)][it[S \ {Max(S)}]] = Apply(it[S \ {Max(S)}], b[Max(S)])
    <3>1. \A S \in SUBSET (1..n) : S # {} => Max(S) \in 1..n /\ S \ {Max(S)} \in SUBSET (1..n)
      BY <1>1, FirstMembers
    <3> QED BY <1>2, <1>3, <3>1
  <2>2. it = [S \in SUBSET (1..n) |-> IF S = {} THEN s ELSE Apply(it[S \ {Max(S)}], b[Max(S)])]
    BY <1>3, <2>1 DEF IsFold
  <2> QED BY <1>1, <2>2 DEF Reduces
<1>5. PICK jt : Reduces(s, b, jt) /\ Reduce(s, b) = jt[DOMAIN b]
  BY <1>4, ReduceIsFold
<1> DEFINE g == [i \in 0..n |-> jt[1..i]]
<1>6. g[0] = s
  <2>1. jt[{}] = s
    BY <1>1, <1>5, FirstMembers DEF Reduces
  <2> QED BY <1>1, <2>1, FirstMembers
<1>7. ASSUME NEW i \in 1..n PROVE g[i] = Apply(g[i - 1], b[i])
  <2>1. jt[1..i] = Apply(jt[(1..i) \ {Max(1..i)}], b[Max(1..i)])
    BY <1>1, <1>5, FirstMembers DEF Reduces
  <2>2. jt[1..i] = Apply(jt[1..(i - 1)], b[i])
    BY <1>1, <2>1, FirstMembers
  <2> QED BY <1>1, <2>2
<1>8. Reduce(s, b) = g[n]
  BY <1>1, <1>5
<1> HIDE DEF g
<1> QED BY <1>6, <1>7, <1>8 DEF n

-----------------------------------------------------------------------------
(* The state a log tells after k of its events *)

EndedBy(log, k) == IsTerminal(log[k]) \/ log[k].type = "CLOSED"

Told(log, k) ==
  IF k = 0 THEN Fresh ELSE
  LET traded == log[1].type = "ENTRY_FILL"
      half == k >= 2 /\ log[2].type = "TP1_FILL"
  IN  [lifecycle |-> IF ~traded THEN log[1].type
                     ELSE IF EndedBy(log, k) THEN "CLOSED" ELSE "TRIGGERED",
       position |-> IF ~traded THEN "NONE" ELSE IF EndedBy(log, k) THEN "FLAT"
                    ELSE IF half THEN "HALF" ELSE "FULL",
       openFraction |-> IF ~traded \/ EndedBy(log, k) THEN 0 ELSE IF half THEN Half ELSE Full,
       breakevenActive |-> traded /\ k >= 3 /\ log[3].type = "BREAKEVEN_ACTIVATED",
       terminalReason |-> IF ~traded THEN log[1].reason
                          ELSE IF EndedBy(log, k) THEN log[k].reason ELSE "NONE",
       closedSeen |-> traded /\ log[k].type = "CLOSED",
       applied |-> {EventId(log[i]) : i \in 1..k},
       lastTime |-> log[k].time,
       raised |-> FALSE]

Raising(log, k) == [Told(log, k) EXCEPT !.raised = TRUE]

InOrder(log, k) == \A i \in 1..k : i > 1 => log[i - 1].time <= log[i].time
Late(log, k) == k >= 1 /\ k < Len(log) /\ log[k + 1].time < log[k].time

Advanced(s, e) == [Effect(s, e) EXCEPT !.applied = @ \cup {EventId(e)}, !.lastTime = e.time]

\* Every event of the log is new and can follow those before it.
Tells(log) ==
  /\ log \in Seq(Reported)
  /\ \A i, j \in 1..Len(log) : EventId(log[i]) = EventId(log[j]) => i = j
  /\ \A k \in 1..Len(log) : /\ Legal(Told(log, k - 1), log[k])
                            /\ Advanced(Told(log, k - 1), log[k]) = Told(log, k)

LEMMA ToldFields ==
  ASSUME NEW log, NEW k \in Nat
  PROVE  /\ Told(log, k).applied = {EventId(log[i]) : i \in 1..k}
         /\ Told(log, k).raised = FALSE
         /\ Told(log, k).lastTime = IF k = 0 THEN NoTime ELSE log[k].time
         /\ Raising(log, k).applied = Told(log, k).applied /\ Raising(log, k).raised = TRUE
<1>1. CASE k = 0
  <2>1. {EventId(log[i]) : i \in 1..k} = {}
    BY <1>1
  <2> QED BY <1>1, <2>1 DEF Told, Fresh, Raising
<1>2. CASE k # 0
  BY <1>2 DEF Told, Raising
<1> QED BY <1>1, <1>2

LEMMA ToldType ==
  ASSUME NEW log \in Seq(Reported), NEW k \in 0..Len(log)
  PROVE  Told(log, k) \in Reductions /\ Raising(log, k) \in Reductions
<1>1. Told(log, k) \in Reductions
  <2>1. CASE k = 0
    BY <2>1, FreshType DEF Told
  <2>2. CASE k # 0
    <3>1. /\ \A i \in 1..k : log[i] \in Reported
          /\ 1 \in 1..k /\ k \in 1..k
      BY <2>2, LenProperties, ElementOfSeq
    <3>2. /\ log[1].type \in Words /\ log[1].reason \in Words
          /\ log[k].reason \in Words /\ log[k].time \in Int
      BY <3>1 DEF Reported
    <3>3. \A i \in 1..k : EventId(log[i]) \in Identities
      BY <3>1 DEF EventId, Reported, Identities
    <3>4. {EventId(log[i]) : i \in 1..k} \in SUBSET Identities
      BY <3>3
    <3> DEFINE ids == {EventId(log[i]) : i \in 1..k}
               traded == log[1].type = "ENTRY_FILL"
               half == k >= 2 /\ log[2].type = "TP1_FILL"
               done == EndedBy(log, k)
    <3>5. /\ traded \in BOOLEAN /\ half \in BOOLEAN /\ done \in BOOLEAN
          /\ (traded /\ k >= 3 /\ log[3].type = "BREAKEVEN_ACTIVATED") \in BOOLEAN
          /\ (traded /\ log[k].type = "CLOSED") \in BOOLEAN
      BY DEF EndedBy
    <3> HIDE DEF ids
    <3>6. ids \in SUBSET Identities
      BY <3>4 DEF ids
    <3>7. /\ Half \in Int /\ Full \in Int /\ 0 \in Int /\ FALSE \in BOOLEAN
          /\ {"TRIGGERED", "FULL", "HALF", "CLOSED", "FLAT", "NONE"} \subseteq Words
      BY DEF Half, Full, Words
    <3> DEFINE t == Told(log, k)
    <3>8. t = [lifecycle |-> t.lifecycle, position |-> t.position, openFraction |-> t.openFraction,
               breakevenActive |-> t.breakevenActive, terminalReason |-> t.terminalReason,
               closedSeen |-> t.closedSeen, applied |-> t.applied, lastTime |-> t.lastTime,
               raised |-> t.raised]
      BY <2>2 DEF Told
    <3>9. /\ t.lifecycle \in Words /\ t.position \in Words /\ t.openFraction \in Int
          /\ t.terminalReason \in Words /\ t.applied \in SUBSET Identities /\ t.lastTime \in Int
      BY <2>2, <3>2, <3>6, <3>7 DEF Told, ids
    <3>10. t.breakevenActive \in BOOLEAN /\ t.closedSeen \in BOOLEAN /\ t.raised \in BOOLEAN
      BY <2>2, <3>5 DEF Told
    <3> HIDE DEF t
    <3>11. t \in Reductions
      BY <3>8, <3>9, <3>10, Zenon DEF Reductions
    <3> QED BY <3>11 DEF t
  <2> QED BY <2>1, <2>2
<1>2. Raising(log, k) \in Reductions
  BY <1>1 DEF Raising, Reductions
<1> QED BY <1>1, <1>2

\* One event of a log that tells: it is seen, or too late, or the next one.
LEMMA ToldStep ==
  ASSUME NEW log, Tells(log), NEW k \in 0..Len(log), NEW j \in 1..Len(log)
  PROVE  /\ j <= k => Apply(Told(log, k), log[j]) = Told(log, k)
         /\ j = k + 1 => Apply(Told(log, k), log[j]) = IF Late(log, k) THEN Raising(log, k)
                                                       ELSE Told(log, k + 1)
         /\ Apply(Raising(log, k), log[j]) = Raising(log, k)
<1>1. k \in Nat /\ Len(log) \in Nat /\ log \in Seq(Reported)
  BY LenProperties DEF Tells
<1>2. ASSUME NEW i \in 1..Len(log)
      PROVE  Seen(Told(log, k), log[i]) <=> \E h \in 1..k : EventId(log[h]) = EventId(log[i])
  <2>1. Told(log, k).applied = {EventId(log[h]) : h \in 1..k}
    BY <1>1, ToldFields
  <2> DEFINE Id(h) == EventId(log[h])
  <2>2. Told(log, k).applied = {Id(h) : h \in 1..k} /\ EventId(log[i]) = Id(i)
    BY <2>1
  <2>3. Id(i) \in {Id(h) : h \in 1..k} <=> \E h \in 1..k : Id(h) = Id(i)
    <3> HIDE DEF Id
    <3> QED OBVIOUS
  <2> QED BY <2>2, <2>3 DEF Seen
<1>3. ASSUME j = k + 1
      PROVE  Apply(Told(log, k), log[j]) = IF Late(log, k) THEN Raising(log, k) ELSE Told(log, k + 1)
  <2>1. ~Seen(Told(log, k), log[j])
    <3>1. ASSUME NEW i \in 1..k PROVE EventId(log[i]) # EventId(log[j])
      <4>1. i \in 1..Len(log) /\ i # j
        BY <1>1, <1>3
      <4> QED BY <4>1 DEF Tells
    <3> QED BY <1>2, <3>1
  <2>2. Told(log, k).lastTime = IF k = 0 THEN NoTime ELSE log[k].time
    BY <1>1, ToldFields
  <2>3. k # 0 => log[k].time # NoTime
    <3>1. k # 0 => log[k] \in Reported
      BY <1>1, ElementOfSeq
    <3> QED BY <3>1 DEF Reported, NoTime
  <2>4. OutOfOrder(Told(log, k), log[j]) <=> Late(log, k)
    BY <1>1, <1>3, <2>2, <2>3 DEF OutOfOrder, Late
  <2>5. Legal(Told(log, k), log[j]) /\ Advanced(Told(log, k), log[j]) = Told(log, k + 1)
    <3>1. /\ Legal(Told(log, j - 1), log[j])
          /\ Advanced(Told(log, j - 1), log[j]) = Told(log, j)
      BY DEF Tells
    <3>2. j - 1 = k
      BY <1>1, <1>3
    <3> QED BY <1>3, <3>1, <3>2
  <2>6. Told(log, k).raised = FALSE
    BY <1>1, ToldFields
  <2> QED BY <2>1, <2>4, <2>5, <2>6 DEF Apply, Advanced, Raising
<1>4. Apply(Raising(log, k), log[j]) = Raising(log, k)
  BY <1>1, ToldFields DEF Apply
<1>5. j <= k => Apply(Told(log, k), log[j]) = Told(log, k)
  <2>1. j <= k => j \in 1..k
    BY <1>1
  <2> QED BY <1>2, <2>1 DEF Apply
<1> QED BY <1>3, <1>4, <1>5

Further(k, j) == IF j > k THEN j ELSE k

\* Where a reduction may be: at the k-th event, or stuck before one out of order.
At(log, s, k) == InOrder(log, k) /\ s = Told(log, k)
Stuck(log, s) == \E k \in 0..Len(log) : InOrder(log, k) /\ Late(log, k) /\ s = Raising(log, k)

\* However a log is cut, a slice that skips nothing brings the reduction as far as
\* its last event, or to the first event out of order.
LEMMA SliceReduces ==
  ASSUME NEW log, Tells(log), NEW k \in 0..Len(log), InOrder(log, k),
         NEW from \in 1..Len(log) + 1, NEW to \in 0..Len(log), from <= k + 1
  PROVE  LET s == Reduce(Told(log, k), SubSeq(log, from, to))
         IN  At(log, s, Further(k, to)) \/ Stuck(log, s)
<1>1. k \in Nat /\ Len(log) \in Nat /\ log \in Seq(Reported) /\ Told(log, k) \in Reductions
  BY LenProperties, ToldType DEF Tells
<1> DEFINE b == SubSeq(log, from, to)
           n == Len(b)
<1>2. /\ b \in Seq(Reported) /\ n = IF from <= to THEN to - from + 1 ELSE 0
      /\ \A i \in 1..n : b[i] = log[from + i - 1]
  <2>1. \A i \in from..to : log[i] \in Reported
    BY <1>1, ElementOfSeq
  <2>2. from \in Int /\ to \in Int
    OBVIOUS
  <2>3. /\ b \in Seq(Reported) /\ n = IF from <= to THEN to - from + 1 ELSE 0
        /\ \A i \in 1..to - from + 1 : b[i] = log[from + i - 1]
    <3> HIDE DEF Reported
    <3> QED BY <2>1, <2>2, SubSeqProperties
  <2> HIDE DEF b
  <2> QED BY <2>3
<1> HIDE DEF b
<1>3. PICK g : /\ g[0] = Told(log, k)
               /\ \A i \in 1..n : g[i] = Apply(g[i - 1], b[i])
               /\ Reduce(Told(log, k), b) = g[n]
  BY <1>1, <1>2, ReduceSteps
<1> DEFINE Good(i) == At(log, g[i], Further(k, from - 1 + i)) \/ Stuck(log, g[i])
           I == {i \in Nat : i <= n => Good(i)}
<1>4. 0 \in I
  <2>1. Further(k, from - 1 + 0) = k
    BY <1>1 DEF Further
  <2> QED BY <1>3, <2>1 DEF At
<1>5. ASSUME NEW i \in I PROVE i + 1 \in I
  <2> SUFFICES ASSUME i + 1 <= n PROVE Good(i + 1)
    BY <1>5
  <2>1. i \in Nat /\ Good(i) /\ n \in Nat
    BY <1>1, <1>2
  <2> DEFINE j == from + i
             m == Further(k, from - 1 + i)
  <2>2. g[i + 1] = Apply(g[i], log[j]) /\ j \in 1..Len(log)
    <3>1. i + 1 \in 1..n /\ i + 1 - 1 = i /\ from + (i + 1) - 1 = j
      BY <1>1, <2>1
    <3> PICK q \in 1..n : q = i + 1
      BY <3>1
    <3>2. g[i + 1] = Apply(g[i], b[i + 1]) /\ b[i + 1] = log[j]
      <4>1. g[q] = Apply(g[q - 1], b[q]) /\ q - 1 = i
        BY <1>3, <2>1
      <4>2. b[q] = log[from + q - 1] /\ from + q - 1 = j
        BY <1>2, <3>1
      <4> QED BY <4>1, <4>2
    <3>3. j \in 1..Len(log)
      BY <1>1, <1>2, <2>1
    <3> QED BY <3>2, <3>3
  <2>3. m \in 0..Len(log) /\ j <= m + 1
    BY <1>1, <2>1, <2>2 DEF Further
  <2>4. Further(k, from - 1 + (i + 1)) = IF j <= m THEN m ELSE m + 1
    BY <1>1, <2>1, <2>3 DEF Further
  <2> HIDE DEF j, m
  <2>5. CASE Stuck(log, g[i])
    <3>1. PICK q \in 0..Len(log) : InOrder(log, q) /\ Late(log, q) /\ g[i] = Raising(log, q)
      BY <2>5 DEF Stuck
    <3>2. g[i + 1] = Raising(log, q)
      BY <2>2, <3>1, ToldStep
    <3> QED BY <3>1, <3>2 DEF Stuck
  <2>6. CASE At(log, g[i], m) /\ j <= m
    <3>1. g[i + 1] = Told(log, m)
      BY <2>2, <2>3, <2>6, ToldStep DEF At
    <3> QED BY <2>4, <2>6, <3>1 DEF At
  <2>7. CASE At(log, g[i], m) /\ j = m + 1
    <3>1. g[i + 1] = IF Late(log, m) THEN Raising(log, m) ELSE Told(log, m + 1)
      BY <2>2, <2>3, <2>7, ToldStep DEF At
    <3>2. CASE Late(log, m)
      BY <2>3, <2>7, <3>1, <3>2 DEF Stuck, At
    <3>3. CASE ~Late(log, m)
      <4>1. InOrder(log, m + 1)
        <5> SUFFICES ASSUME NEW x \in 1..m + 1, x > 1 PROVE log[x - 1].time <= log[x].time
          BY DEF InOrder
        <5>1. CASE x <= m
          BY <2>3, <2>7, <5>1 DEF At, InOrder
        <5>2. CASE x = m + 1
          <6>1. m >= 1 /\ m \in 1..Len(log) /\ m + 1 \in 1..Len(log) /\ m < Len(log)
            BY <1>1, <2>2, <2>3, <2>7, <5>2
          <6>2. log[m].time \in Nat /\ log[m + 1].time \in Nat
            <7>1. log[m] \in Reported /\ log[m + 1] \in Reported
              BY <1>1, <6>1, ElementOfSeq
            <7> QED BY <7>1 DEF Reported
          <6>3. ~(log[m + 1].time < log[m].time)
            BY <3>3, <6>1 DEF Late
          <6>4. x - 1 = m
            BY <5>2, <6>1
          <6> QED BY <5>2, <6>2, <6>3, <6>4
        <5> QED BY <2>3, <5>1, <5>2
      <4>2. g[i + 1] = Told(log, m + 1) /\ ~(j <= m)
        BY <2>3, <2>7, <3>1, <3>3
      <4> QED BY <2>4, <4>1, <4>2 DEF At
    <3> QED BY <3>2, <3>3
  <2> QED BY <2>1, <2>2, <2>3, <2>5, <2>6, <2>7 DEF m
<1>6. I = Nat
  <2> HIDE DEF I
  <2>1. I \in SUBSET Nat
    BY DEF I
  <2> QED BY <1>4, <1>5, <2>1, AllNumbers
<1>7. Good(n)
  <2>1. n \in Nat
    BY <1>1, <1>2
  <2>2. n \in I
    <3> HIDE DEF I
    <3> QED BY <1>6, <2>1
  <2> QED BY <2>1, <2>2
<1>8. Further(k, from - 1 + n) = Further(k, to)
  BY <1>1, <1>2 DEF Further
<1> QED BY <1>3, <1>7, <1>8 DEF b

-----------------------------------------------------------------------------
(* The logs of a replay tell *)

\* The fields that tell what has happened.
SameTale(s, t) ==
  /\ s.lifecycle = t.lifecycle /\ s.position = t.position /\ s.openFraction = t.openFraction
  /\ s.breakevenActive = t.breakevenActive /\ s.terminalReason = t.terminalReason
  /\ s.closedSeen = t.closedSeen

LEMMA OneMore ==
  ASSUME NEW log, NEW k \in Nat \ {0}
  PROVE  Told(log, k).applied = Told(log, k - 1).applied \cup {EventId(log[k])}
<1> DEFINE Id(i) == EventId(log[i])
<1>0. k \in Nat /\ k - 1 \in Nat
  OBVIOUS
<1>1. Told(log, k).applied = {Id(i) : i \in 1..k}
  BY <1>0, ToldFields
<1>2. Told(log, k - 1).applied = {Id(i) : i \in 1..k - 1}
  BY <1>0, ToldFields
<1>3. 1..k = (1..k - 1) \cup {k}
  OBVIOUS
<1>4. {Id(i) : i \in 1..k} = {Id(i) : i \in 1..k - 1} \cup {Id(k)}
  <2> HIDE DEF Id
  <2> QED BY <1>3
<1> QED BY <1>1, <1>2, <1>4

LEMMA EffectKeeps ==
  ASSUME NEW s \in Reductions, NEW e
  PROVE  /\ Effect(s, e).applied = s.applied /\ Effect(s, e).raised = s.raised
<1>1. s = [f \in DOMAIN s |-> s[f]]
      /\ DOMAIN s = {"lifecycle", "position", "openFraction", "breakevenActive", "terminalReason",
                     "closedSeen", "applied", "lastTime", "raised"}
  BY DEF Reductions
<1> QED BY <1>1 DEF Effect

LEMMA ToldNext ==
  ASSUME NEW log \in Seq(Reported), NEW k \in 1..Len(log),
         SameTale(Effect(Told(log, k - 1), log[k]), Told(log, k))
  PROVE  Advanced(Told(log, k - 1), log[k]) = Told(log, k)
<1> DEFINE s == Told(log, k - 1)
           e == log[k]
           t == Effect(s, e)
           a == Advanced(s, e)
           w == Told(log, k)
<1>1. k \in Nat \ {0} /\ k - 1 \in 0..Len(log) /\ k \in 0..Len(log) /\ e \in Reported
  BY LenProperties, ElementOfSeq
<1>2. s \in Reductions /\ w \in Reductions /\ t \in Reductions
  BY <1>1, ToldType, EffectType
<1>3. t.applied = s.applied /\ t.raised = s.raised
  BY <1>2, EffectKeeps
<1>0. k - 1 \in Nat /\ k \in Nat
  BY <1>1
<1>4. /\ w.applied = s.applied \cup {EventId(e)} /\ w.lastTime = e.time
      /\ w.raised = FALSE /\ s.raised = FALSE
  <2>1. w.applied = s.applied \cup {EventId(e)}
    BY <1>1, OneMore
  <2>2. w.lastTime = e.time /\ w.raised = FALSE
    BY <1>0, <1>1, ToldFields
  <2>3. s.raised = FALSE
    BY <1>0, ToldFields
  <2> QED BY <2>1, <2>2, <2>3
<1>5. SameTale(t, w)
  OBVIOUS
<1>6. a = [t EXCEPT !.applied = @ \cup {EventId(e)}, !.lastTime = e.time]
  BY DEF Advanced
<1> HIDE DEF s, e, t, a, w
<1>7. /\ a.applied = w.applied /\ a.lastTime = w.lastTime /\ a.raised = w.raised
      /\ SameTale(a, t)
      /\ DOMAIN a = {"lifecycle", "position", "openFraction", "breakevenActive", "terminalReason",
                     "closedSeen", "applied", "lastTime", "raised"}
      /\ a = [f \in DOMAIN a |-> a[f]]
  BY <1>2, <1>3, <1>4, <1>6 DEF Reductions, SameTale
<1>8. /\ DOMAIN w = {"lifecycle", "position", "openFraction", "breakevenActive", "terminalReason",
                     "closedSeen", "applied", "lastTime", "raised"}
      /\ w = [f \in DOMAIN w |-> w[f]]
  BY <1>2 DEF Reductions
<1>9. \A f \in DOMAIN w : a[f] = w[f]
  BY <1>5, <1>7, <1>8 DEF SameTale
<1>10. a = w
  BY <1>7, <1>8, <1>9
<1> QED BY <1>10 DEF a, s, e, w

\* An event of a log that can follow those before it.
Follows(log, k) ==
  Legal(Told(log, k - 1), log[k]) /\ Advanced(Told(log, k - 1), log[k]) = Told(log, k)

LEMMA EffectCases ==
  ASSUME NEW s, NEW e
  PROVE  /\ e.type = "ENTRY_FILL" => Effect(s, e) =
              [s EXCEPT !.lifecycle = "TRIGGERED", !.position = "FULL", !.openFraction = Full]
         /\ e.type \in Endings => Effect(s, e) =
              [s EXCEPT !.lifecycle = e.type, !.terminalReason = e.reason]
         /\ e.type = "TP1_FILL" => Effect(s, e) =
              [s EXCEPT !.position = "HALF", !.openFraction = Half]
         /\ e.type = "BREAKEVEN_ACTIVATED" => Effect(s, e) = [s EXCEPT !.breakevenActive = TRUE]
         /\ IsTerminal(e) => Effect(s, e) =
              [s EXCEPT !.lifecycle = "CLOSED", !.position = "FLAT", !.openFraction = 0,
                        !.terminalReason = e.reason]
         /\ e.type = "CLOSED" => Effect(s, e) = [s EXCEPT !.closedSeen = TRUE]
         /\ e.type = "LATE_EVENT_IGNORED" => Effect(s, e) = s
<1>1. Endings = PreTradeTerminal
  BY DEF Endings, PreTradeTerminal
<1>2. CASE e.type = "ENTRY_FILL"
  BY <1>1, <1>2 DEF Effect, IsTerminal, PreTradeTerminal
<1>3. CASE e.type \in Endings
  BY <1>1, <1>3 DEF Effect, IsTerminal, PreTradeTerminal
<1>4. CASE e.type = "TP1_FILL"
  BY <1>1, <1>4 DEF Effect, IsTerminal, PreTradeTerminal
<1>5. CASE e.type = "BREAKEVEN_ACTIVATED"
  BY <1>1, <1>5 DEF Effect, IsTerminal, PreTradeTerminal
<1>6. CASE IsTerminal(e)
  BY <1>1, <1>6 DEF Effect, IsTerminal, PreTradeTerminal
<1>7. CASE e.type = "CLOSED"
  BY <1>1, <1>7 DEF Effect, IsTerminal, PreTradeTerminal
<1>8. CASE e.type = "LATE_EVENT_IGNORED"
  BY <1>1, <1>8 DEF Effect, IsTerminal, PreTradeTerminal
<1> QED BY <1>2, <1>3, <1>4, <1>5, <1>6, <1>7, <1>8

\* What each kind of event does to the reduced state, one fact at a time.
LEMMA EntryEffect ==
  ASSUME NEW s, NEW e, e.type = "ENTRY_FILL"
  PROVE  Effect(s, e) = [s EXCEPT !.lifecycle = "TRIGGERED", !.position = "FULL", !.openFraction = Full]
  BY EffectCases, Zenon

LEMMA EndingEffect ==
  ASSUME NEW s, NEW e, e.type \in Endings
  PROVE  Effect(s, e) = [s EXCEPT !.lifecycle = e.type, !.terminalReason = e.reason]
  BY EffectCases, Zenon

LEMMA TargetEffect ==
  ASSUME NEW s, NEW e, e.type = "TP1_FILL"
  PROVE  Effect(s, e) = [s EXCEPT !.position = "HALF", !.openFraction = Half]
  BY EffectCases, Zenon

LEMMA BreakevenEffect ==
  ASSUME NEW s, NEW e, e.type = "BREAKEVEN_ACTIVATED"
  PROVE  Effect(s, e) = [s EXCEPT !.breakevenActive = TRUE]
  BY EffectCases, Zenon

LEMMA ExitEffect ==
  ASSUME NEW s, NEW e, IsTerminal(e)
  PROVE  Effect(s, e) = [s EXCEPT !.lifecycle = "CLOSED", !.position = "FLAT", !.openFraction = 0,
                                  !.terminalReason = e.reason]
  BY EffectCases, Zenon

LEMMA ClosedEffect ==
  ASSUME NEW s, NEW e, e.type = "CLOSED"
  PROVE  Effect(s, e) = [s EXCEPT !.closedSeen = TRUE]
  BY EffectCases, Zenon

LEMMA LateEffect ==
  ASSUME NEW s, NEW e, e.type = "LATE_EVENT_IGNORED"
  PROVE  Effect(s, e) = s
  BY EffectCases, Zenon


\* The state of an open trade.

LEMMA OpenTold ==
  ASSUME NEW log, NEW k \in 1..Len(log), log[1].type = "ENTRY_FILL", ~EndedBy(log, k), k \in Nat
  PROVE  LET s == Told(log, k)
             half == k >= 2 /\ log[2].type = "TP1_FILL"
         IN  /\ s.lifecycle = "TRIGGERED" /\ s.terminalReason = "NONE" /\ s.closedSeen = FALSE
             /\ s.position = IF half THEN "HALF" ELSE "FULL"
             /\ s.openFraction = IF half THEN Half ELSE Full
             /\ s.breakevenActive = (k >= 3 /\ log[3].type = "BREAKEVEN_ACTIVATED")
<1>1. k # 0 /\ log[k].type # "CLOSED"
  BY DEF EndedBy
<1> QED BY <1>1 DEF Told

LEMMA EndedTold ==
  ASSUME NEW log, NEW k \in 1..Len(log), log[1].type = "ENTRY_FILL", EndedBy(log, k), k \in Nat
  PROVE  LET s == Told(log, k)
         IN  /\ s.lifecycle = "CLOSED" /\ s.terminalReason = log[k].reason
             /\ s.closedSeen = (log[k].type = "CLOSED")
             /\ s.position = "FLAT" /\ s.openFraction = 0
             /\ s.breakevenActive = (k >= 3 /\ log[3].type = "BREAKEVEN_ACTIVATED")
<1>1. k # 0
  OBVIOUS
<1> QED BY <1>1 DEF Told

\* The state of a signal that ended without a trade.
LEMMA UntradedTold ==
  ASSUME NEW log, NEW k \in 1..Len(log), log[1].type # "ENTRY_FILL", k \in Nat
  PROVE  LET s == Told(log, k)
         IN  /\ s.lifecycle = log[1].type /\ s.terminalReason = log[1].reason
             /\ s.closedSeen = FALSE /\ s.position = "NONE" /\ s.openFraction = 0
             /\ s.breakevenActive = FALSE
<1>1. k # 0
  OBVIOUS
<1> QED BY <1>1 DEF Told

LEMMA FirstFollows ==
  ASSUME NEW log \in Seq(Reported), NEW k \in 1..Len(log), k = 1,
         \/ log[k].type = "ENTRY_FILL" /\ log[k].fraction = Full
         \/ log[k].type \in Endings
  PROVE  Follows(log, k)
<1> DEFINE s == Told(log, k - 1)
           w == Told(log, k)
<1>1. s = Fresh /\ k \in Nat /\ ~(k >= 2) /\ ~(k >= 3) /\ log[1] = log[k]
  BY DEF Told
<1>2. /\ s.lifecycle = "ARMED" /\ s.terminalReason = "NONE" /\ s.closedSeen = FALSE
      /\ s.position = "NONE" /\ s.openFraction = 0 /\ s.breakevenActive = FALSE
      /\ s \in Reductions
  <2>1. s = Fresh
    BY <1>1
  <2> HIDE DEF s
  <2>2. s \in Reductions
    BY <2>1, FreshType
  <2>3. /\ s.lifecycle = "ARMED" /\ s.terminalReason = "NONE" /\ s.closedSeen = FALSE
        /\ s.position = "NONE" /\ s.openFraction = 0 /\ s.breakevenActive = FALSE
    BY <2>1 DEF Fresh
  <2> QED BY <2>2, <2>3
<1>3. CASE log[k].type = "ENTRY_FILL" /\ log[k].fraction = Full
  <2>1. ~EndedBy(log, k)
    BY <1>3 DEF EndedBy, IsTerminal
  <2>2. /\ w.lifecycle = "TRIGGERED" /\ w.terminalReason = "NONE" /\ w.closedSeen = FALSE
        /\ w.position = "FULL" /\ w.openFraction = Full /\ w.breakevenActive = FALSE
    BY <1>1, <1>3, <2>1, OpenTold
  <2> HIDE DEF s, w
  <2>3. Effect(s, log[k]) =
          [s EXCEPT !.lifecycle = "TRIGGERED", !.position = "FULL", !.openFraction = Full]
    BY <1>3, EntryEffect
  <2>4. SameTale(Effect(s, log[k]), w)
    BY <1>2, <2>2, <2>3 DEF SameTale, Reductions
  <2>5. Legal(s, log[k])
    BY <1>2, <1>3 DEF Legal
  <2> QED BY <2>4, <2>5, ToldNext DEF Follows, s, w
<1>4. CASE log[k].type \in Endings
  <2>1. log[1].type # "ENTRY_FILL"
    BY <1>1, <1>4 DEF Endings
  <2>2. /\ w.lifecycle = log[k].type /\ w.terminalReason = log[k].reason /\ w.closedSeen = FALSE
        /\ w.position = "NONE" /\ w.openFraction = 0 /\ w.breakevenActive = FALSE
    BY <1>1, <2>1, UntradedTold
  <2> HIDE DEF s, w
  <2>3. Effect(s, log[k]) = [s EXCEPT !.lifecycle = log[k].type, !.terminalReason = log[k].reason]
    BY <1>4, EndingEffect
  <2>4. SameTale(Effect(s, log[k]), w)
    BY <1>2, <2>2, <2>3 DEF SameTale, Reductions
  <2>5. Legal(s, log[k])
    BY <1>2, <1>4 DEF Legal, Endings, PreTradeTerminal
  <2> QED BY <2>4, <2>5, ToldNext DEF Follows, s, w
<1> QED BY <1>3, <1>4

LEMMA TargetFollows ==
  ASSUME NEW log \in Seq(Reported), NEW k \in 1..Len(log), k = 2, log[1].type = "ENTRY_FILL",
         log[k].type = "TP1_FILL", log[k].fraction = Half
  PROVE  Follows(log, k)
<1>1. k \in Nat /\ k - 1 \in 1..Len(log) /\ k - 1 \in Nat /\ ~(k - 1 >= 2) /\ ~(k >= 3)
      /\ ~(k - 1 >= 3) /\ log[k - 1].type = "ENTRY_FILL" /\ log[2].type = "TP1_FILL"
  BY LenProperties
<1>2. ~EndedBy(log, k - 1) /\ ~EndedBy(log, k) /\ k >= 2
  BY <1>1 DEF EndedBy, IsTerminal
<1> DEFINE s == Told(log, k - 1)
           w == Told(log, k)
<1>3. /\ s.lifecycle = "TRIGGERED" /\ s.terminalReason = "NONE" /\ s.closedSeen = FALSE
      /\ s.position = "FULL" /\ s.openFraction = Full /\ s.breakevenActive = FALSE
  BY <1>1, <1>2, OpenTold
<1>4. /\ w.lifecycle = "TRIGGERED" /\ w.terminalReason = "NONE" /\ w.closedSeen = FALSE
      /\ w.position = "HALF" /\ w.openFraction = Half /\ w.breakevenActive = FALSE
  BY <1>1, <1>2, OpenTold
<1>5. s \in Reductions
  BY <1>1, ToldType
<1> HIDE DEF s, w
<1>6. Legal(s, log[k])
  BY <1>3 DEF Legal
<1>7. Effect(s, log[k]) = [s EXCEPT !.position = "HALF", !.openFraction = Half]
  BY TargetEffect
<1>8. SameTale(Effect(s, log[k]), w)
  BY <1>3, <1>4, <1>5, <1>7 DEF SameTale, Reductions
<1> QED BY <1>1, <1>6, <1>8, ToldNext DEF Follows, s, w

LEMMA ActivationFollows ==
  ASSUME NEW log \in Seq(Reported), NEW k \in 1..Len(log), k = 3, log[1].type = "ENTRY_FILL",
         log[2].type = "TP1_FILL", log[k].type = "BREAKEVEN_ACTIVATED"
  PROVE  Follows(log, k)
<1>1. /\ k \in Nat /\ k - 1 \in 1..Len(log) /\ k - 1 \in Nat /\ k - 1 >= 2 /\ k >= 2 /\ k >= 3
      /\ ~(k - 1 >= 3) /\ log[k - 1].type = "TP1_FILL" /\ log[3].type = "BREAKEVEN_ACTIVATED"
  BY LenProperties
<1>2. ~EndedBy(log, k - 1) /\ ~EndedBy(log, k)
  BY <1>1 DEF EndedBy, IsTerminal
<1> DEFINE s == Told(log, k - 1)
           w == Told(log, k)
<1>3. /\ s.lifecycle = "TRIGGERED" /\ s.terminalReason = "NONE" /\ s.closedSeen = FALSE
      /\ s.position = "HALF" /\ s.openFraction = Half
  BY <1>1, <1>2, OpenTold
<1>4. /\ w.lifecycle = "TRIGGERED" /\ w.terminalReason = "NONE" /\ w.closedSeen = FALSE
      /\ w.position = "HALF" /\ w.openFraction = Half /\ w.breakevenActive = TRUE
  BY <1>1, <1>2, OpenTold
<1>5. s \in Reductions
  BY <1>1, ToldType
<1> HIDE DEF s, w
<1>6. Legal(s, log[k])
  BY <1>3 DEF Legal
<1>7. Effect(s, log[k]) = [s EXCEPT !.breakevenActive = TRUE]
  BY BreakevenEffect
<1>8. SameTale(Effect(s, log[k]), w)
  BY <1>3, <1>4, <1>5, <1>7 DEF SameTale, Reductions
<1> QED BY <1>1, <1>6, <1>8, ToldNext DEF Follows, s, w

LEMMA ExitFollows ==
  ASSUME NEW log \in Seq(Reported), NEW k \in 2..Len(log), log[1].type = "ENTRY_FILL",
         ~EndedBy(log, k - 1), IsTerminal(log[k]),
         log[k].fraction = IF k > 2 /\ log[2].type = "TP1_FILL" THEN Half ELSE Full
  PROVE  Follows(log, k)
<1>1. k - 1 \in 1..Len(log) /\ k \in 1..Len(log) /\ k \in Nat /\ k - 1 \in Nat /\ (k - 1 >= 2 <=> k > 2)
  BY LenProperties
<1>2. EndedBy(log, k)
  BY DEF EndedBy
<1>0. log[k].type \notin {"ENTRY_FILL", "TP1_FILL", "BREAKEVEN_ACTIVATED", "CLOSED"} \cup PreTradeTerminal
  BY DEF IsTerminal, PreTradeTerminal
<1> DEFINE s == Told(log, k - 1)
           w == Told(log, k)
<1>3. /\ s.lifecycle = "TRIGGERED" /\ s.terminalReason = "NONE" /\ s.closedSeen = FALSE
      /\ s.position # "NONE" /\ s.openFraction = log[k].fraction
      /\ s.breakevenActive = (k - 1 >= 3 /\ log[3].type = "BREAKEVEN_ACTIVATED")
  BY <1>1, OpenTold
<1>4. /\ w.lifecycle = "CLOSED" /\ w.terminalReason = log[k].reason /\ w.closedSeen = FALSE
      /\ w.position = "FLAT" /\ w.openFraction = 0
      /\ w.breakevenActive = (k >= 3 /\ log[3].type = "BREAKEVEN_ACTIVATED")
  BY <1>0, <1>1, <1>2, EndedTold
<1>5. s.breakevenActive = w.breakevenActive
  BY <1>0, <1>1, <1>3, <1>4
<1>6. s \in Reductions
  BY <1>1, ToldType
<1> HIDE DEF s, w
<1>7. Legal(s, log[k])
  BY <1>3 DEF Legal
<1>8. Effect(s, log[k]) = [s EXCEPT !.lifecycle = "CLOSED", !.position = "FLAT", !.openFraction = 0,
                                    !.terminalReason = log[k].reason]
  BY ExitEffect
<1>9. SameTale(Effect(s, log[k]), w)
  BY <1>3, <1>4, <1>5, <1>6, <1>8 DEF SameTale, Reductions
<1> QED BY <1>1, <1>7, <1>9, ToldNext DEF Follows, s, w

LEMMA ClosedFollows ==
  ASSUME NEW log \in Seq(Reported), NEW k \in 3..Len(log), log[1].type = "ENTRY_FILL",
         IsTerminal(log[k - 1]), log[k].type = "CLOSED", log[k].reason = log[k - 1].reason
  PROVE  Follows(log, k)
<1>1. k - 1 \in 1..Len(log) /\ k \in 1..Len(log) /\ k \in Nat /\ k - 1 \in Nat /\ (k - 1 >= 3 <=> k > 3)
  BY LenProperties
<1>2. EndedBy(log, k) /\ EndedBy(log, k - 1) /\ ~IsTerminal(log[k]) /\ log[k - 1].type # "CLOSED"
  BY DEF EndedBy, IsTerminal
<1> DEFINE s == Told(log, k - 1)
           w == Told(log, k)
<1>3. /\ s.lifecycle = "CLOSED" /\ s.terminalReason = log[k].reason /\ s.closedSeen = FALSE
      /\ s.position = "FLAT" /\ s.openFraction = 0
      /\ s.breakevenActive = (k - 1 >= 3 /\ log[3].type = "BREAKEVEN_ACTIVATED")
  BY <1>1, <1>2, EndedTold
<1>4. /\ w.lifecycle = "CLOSED" /\ w.terminalReason = log[k].reason /\ w.closedSeen = TRUE
      /\ w.position = "FLAT" /\ w.openFraction = 0
      /\ w.breakevenActive = (k >= 3 /\ log[3].type = "BREAKEVEN_ACTIVATED")
  BY <1>1, <1>2, EndedTold
<1>5. s.breakevenActive = w.breakevenActive
  BY <1>1, <1>2, <1>3, <1>4
<1>6. s \in Reductions
  BY <1>1, ToldType
<1> HIDE DEF s, w
<1>7. Legal(s, log[k])
  BY <1>3 DEF Legal
<1>8. Effect(s, log[k]) = [s EXCEPT !.closedSeen = TRUE]
  BY ClosedEffect
<1>9. SameTale(Effect(s, log[k]), w)
  BY <1>3, <1>4, <1>5, <1>6, <1>8 DEF SameTale, Reductions
<1> QED BY <1>1, <1>7, <1>9, ToldNext DEF Follows, s, w

LEMMA LateFollows ==
  ASSUME NEW log \in Seq(Reported), NEW k \in 2..Len(log), log[1].type \in Endings,
         log[k].type = "LATE_EVENT_IGNORED"
  PROVE  Follows(log, k)
<1>1. k - 1 \in 1..Len(log) /\ k \in 1..Len(log) /\ k \in Nat /\ k - 1 \in Nat /\ k # 0 /\ k - 1 # 0
  BY LenProperties
<1>2. log[1].type # "ENTRY_FILL" /\ ~IsTerminal(log[k])
  BY DEF Endings, IsTerminal
<1> DEFINE s == Told(log, k - 1)
           w == Told(log, k)
<1>3. s.lifecycle = log[1].type /\ SameTale(s, w)
  BY <1>1, <1>2 DEF Told, SameTale
<1> HIDE DEF s, w
<1>4. Legal(s, log[k])
  BY <1>3 DEF Legal, Endings, PreTradeTerminal
<1>5. Effect(s, log[k]) = s
  BY LateEffect
<1> QED BY <1>1, <1>3, <1>4, <1>5, ToldNext DEF Follows, s, w

LEMMA ReportedLogs == Seq(EventRecord) \subseteq Seq(Reported)
<1>1. EventRecord \subseteq Reported
  <2>1. /\ EventTypes \subseteq Words /\ Reasons \subseteq Words /\ Sources \subseteq Words
        /\ 0 .. Full \subseteq Int
    BY DEF Words
  <2> QED BY <2>1 DEF EventRecord, Reported
<1> HIDE DEF EventRecord, Reported
<1> QED BY <1>1

\* A log of different types of events repeats none.
LEMMA DifferentTypes ==
  ASSUME NEW log, \A i, j \in 1..Len(log) : log[i].type = log[j].type => i = j
  PROVE  \A i, j \in 1..Len(log) : EventId(log[i]) = EventId(log[j]) => i = j
<1>1. \A i, j \in 1..Len(log) : EventId(log[i]) = EventId(log[j]) => log[i].type = log[j].type
  BY DEF EventId
<1> QED BY <1>1

\* The log of a trade, of its entry and at most four more events.
LEMMA TradeTells ==
  ASSUME TypeOK, Story, Details, stage = "RETURNED", signal = "TRIGGERED"
  PROVE  Tells(events)
<1> DEFINE n == Len(events)
<1>1. events \in Seq(Reported) /\ n \in Nat
  BY ReportedLogs, LenProperties DEF TypeOK
<1>2. n >= 1 /\ events[1].type = "ENTRY_FILL" /\ events[1].fraction = Full
  <2>1. position \in {"FULL", "HALF", "FLAT"}
    BY DEF TypeOK, Details
  <2>2. IsEntry(events[1]) /\ n >= 1
    BY <1>1, <2>1 DEF Story, FullPosition, HalfPosition, HalfTaken, FlatPosition
  <2> QED BY <2>2 DEF Details, IsEntry
<1>3. Follows(events, 1)
  <2>1. \A k \in 1..n : k = 1 => Follows(events, k)
    BY <1>1, <1>2, FirstFollows
  <2> QED BY <1>1, <1>2, <2>1
<1>4. ASSUME n >= 2, IsTakeProfit(events[2]) PROVE Follows(events, 2)
  <2>1. \A k \in 1..n : k = 2 => Follows(events, k)
    BY <1>1, <1>2, <1>4, TargetFollows DEF IsTakeProfit
  <2> QED BY <1>1, <1>4, <2>1
<1>5. ASSUME n >= 3, IsTakeProfit(events[2]), IsActivation(events[3]) PROVE Follows(events, 3)
  <2>1. \A k \in 1..n : k = 3 => Follows(events, k)
    BY <1>1, <1>2, <1>5, ActivationFollows DEF IsTakeProfit, IsActivation
  <2> QED BY <1>1, <1>5, <2>1
<1>6. ASSUME n >= 3, NEW fraction, Ended(fraction), ~EndedBy(events, n - 2),
             fraction = IF n > 3 /\ events[2].type = "TP1_FILL" THEN Half ELSE Full
      PROVE  Follows(events, n - 1) /\ Follows(events, n)
  <2>1. PICK k \in Nat : k = n - 1
    BY <1>1, <1>6
  <2>2. k \in 2..n /\ k - 1 = n - 2 /\ (k > 2 <=> n > 3)
    BY <1>1, <1>6, <2>1
  <2>3. IsTerminal(events[k]) /\ events[k].fraction = fraction
        /\ events[n].type = "CLOSED" /\ events[n].reason = events[k].reason
    BY <1>6, <2>1 DEF Ended
  <2>4. Follows(events, k)
    BY <1>1, <1>2, <1>6, <2>2, <2>3, ExitFollows
  <2>5. Follows(events, n)
    <3>1. n \in 3..n /\ n - 1 = k
      BY <1>1, <1>6, <2>1
    <3> HIDE DEF n
    <3> QED BY <1>1, <1>2, <2>3, <3>1, ClosedFollows DEF n
  <2> QED BY <2>1, <2>4, <2>5
<1>7. CASE position = "FULL"
  <2>1. n = 1
    BY <1>7 DEF Story, FullPosition
  <2> QED BY <1>1, <1>3, <2>1 DEF Tells, Follows
<1>8. CASE position = "HALF"
  <2>1. IsTakeProfit(events[2]) /\ (n = 2 \/ (n = 3 /\ IsActivation(events[3])))
    BY <1>8 DEF Story, HalfPosition, HalfTaken
  <2>2. \A k \in 1..n : Follows(events, k)
    <3>1. n = 2 => 1..n = {1, 2}
      OBVIOUS
    <3>2. n = 3 => 1..n = {1, 2, 3}
      OBVIOUS
    <3>3. Follows(events, 2) /\ (n = 3 => Follows(events, 3))
      BY <1>4, <1>5, <2>1
    <3> HIDE DEF n
    <3> QED BY <1>3, <2>1, <3>1, <3>2, <3>3
  <2>3. \A i, j \in 1..n : events[i].type = events[j].type => i = j
    BY <1>1, <1>2, <2>1 DEF IsTakeProfit, IsActivation
  <2> QED BY <1>1, <2>2, <2>3, DifferentTypes DEF Tells, Follows
<1>9. CASE position = "FLAT"
  <2>1. FlatPosition
    BY <1>9 DEF Story
  <2>2. CASE n = 3 /\ Ended(Full)
    <3>1. IsTerminal(events[2]) /\ events[3].type = "CLOSED"
      BY <2>2 DEF Ended
    <3>2. ~EndedBy(events, 1) /\ n - 2 = 1 /\ n - 1 = 2 /\ ~(n > 3)
      BY <1>2, <2>2 DEF EndedBy, IsTerminal
    <3>3. Follows(events, 2) /\ Follows(events, 3)
      BY <1>6, <2>2, <3>2
    <3>4. \A k \in 1..n : Follows(events, k)
      BY <1>3, <2>2, <3>3
    <3>5. \A i, j \in 1..n : events[i].type = events[j].type => i = j
      BY <1>2, <2>2, <3>1 DEF IsTerminal
    <3> QED BY <1>1, <3>4, <3>5, DifferentTypes DEF Tells, Follows
  <2>3. CASE n = 4 /\ Ended(Half) /\ IsTakeProfit(events[2])
    <3>1. IsTerminal(events[3]) /\ events[4].type = "CLOSED" /\ events[2].type = "TP1_FILL"
      BY <2>3 DEF Ended, IsTakeProfit
    <3>2. ~EndedBy(events, 2) /\ n - 2 = 2 /\ n - 1 = 3 /\ n > 3
      BY <2>3, <3>1 DEF EndedBy, IsTerminal
    <3>3. Follows(events, 3) /\ Follows(events, 4)
      BY <1>6, <2>3, <3>1, <3>2
    <3>4. Follows(events, 2)
      BY <1>4, <2>3
    <3>5. \A k \in 1..n : Follows(events, k)
      BY <1>3, <2>3, <3>3, <3>4
    <3>6. \A i, j \in 1..n : events[i].type = events[j].type => i = j
      BY <1>2, <2>3, <3>1 DEF IsTerminal
    <3> QED BY <1>1, <3>5, <3>6, DifferentTypes DEF Tells, Follows
  <2>4. CASE n = 5 /\ Ended(Half) /\ IsTakeProfit(events[2]) /\ IsActivation(events[3])
    <3>1. /\ IsTerminal(events[4]) /\ events[5].type = "CLOSED" /\ events[2].type = "TP1_FILL"
          /\ events[3].type = "BREAKEVEN_ACTIVATED"
      BY <2>4 DEF Ended, IsTakeProfit, IsActivation
    <3>2. ~EndedBy(events, 3) /\ n - 2 = 3 /\ n - 1 = 4 /\ n > 3
      BY <2>4, <3>1 DEF EndedBy, IsTerminal
    <3>3. Follows(events, 4) /\ Follows(events, 5)
      BY <1>6, <2>4, <3>1, <3>2
    <3>4. Follows(events, 2) /\ Follows(events, 3)
      BY <1>4, <1>5, <2>4
    <3>5. \A k \in 1..n : Follows(events, k)
      BY <1>3, <2>4, <3>3, <3>4
    <3>6. \A i, j \in 1..n : events[i].type = events[j].type => i = j
      BY <1>2, <2>4, <3>1 DEF IsTerminal
    <3> QED BY <1>1, <3>5, <3>6, DifferentTypes DEF Tells, Follows
  <2> QED BY <2>1, <2>2, <2>3, <2>4 DEF FlatPosition, HalfTaken
<1> QED BY <1>7, <1>8, <1>9 DEF TypeOK, Details

\* A signal that ended without a trade, and the late entries of its log.
Refused ==
  /\ stage = "RETURNED" /\ position = "NONE" /\ openFraction = 0 /\ breakevenActive = FALSE
  /\ events \in Seq(Reported) /\ Len(events) >= 1 /\ events[1].type = signal
  /\ \A i \in 2..Len(events) : events[i].type = "LATE_EVENT_IGNORED"
  /\ \A i, j \in 1..Len(events) : EventId(events[i]) = EventId(events[j]) => i = j

LEMMA RefusedTells ==
  ASSUME Refused, signal \in Endings
  PROVE  Tells(events)
<1>1. events \in Seq(Reported) /\ Len(events) \in Nat /\ events[1].type \in Endings
  BY LenProperties DEF Refused
<1>2. \A k \in 1..Len(events) : Follows(events, k)
  <2>1. ASSUME NEW k \in 1..Len(events), k = 1 PROVE Follows(events, k)
    BY <1>1, <2>1, FirstFollows
  <2>2. ASSUME NEW k \in 2..Len(events) PROVE Follows(events, k)
    BY <1>1, LateFollows DEF Refused
  <2> QED BY <1>1, <2>1, <2>2
<1> QED BY <1>1, <1>2 DEF Tells, Follows, Refused

LEMMA BecomesRefused ==
  ASSUME TypeOK, Story, Details, signal \in Endings
  PROVE  Refused
<1>1. Len(events) = 1 /\ position = "NONE" /\ stage = "RETURNED" /\ events[1].type = signal
  BY DEF Details
<1>2. openFraction = 0 /\ breakevenActive = FALSE
  BY <1>1 DEF Story, Untraded, TypeOK
<1>3. events \in Seq(Reported)
  BY ReportedLogs DEF TypeOK
<1> QED BY <1>1, <1>2, <1>3 DEF Refused

ReplayKnown ==
  IF signal \in Endings THEN Refused ELSE TypeOK /\ Story /\ Details

LEMMA ReturnedTells ==
  ASSUME ReplayKnown, stage = "RETURNED"
  PROVE  Tells(events)
<1>1. CASE signal \in Endings
  BY <1>1, RefusedTells DEF ReplayKnown
<1>2. CASE signal = "TRIGGERED"
  BY <1>2, TradeTells DEF ReplayKnown, Endings
<1>3. CASE signal = "ARMED"
  <2>1. events = << >>
    BY <1>3 DEF ReplayKnown, Details, Endings
  <2> QED BY <2>1 DEF Tells
<1> QED BY <1>1, <1>2, <1>3 DEF ReplayKnown, TypeOK, Endings

LEMMA AppliedCount ==
  ASSUME NEW log, Tells(log)
  PROVE  \A k \in 0..Len(log) : Cardinality(Told(log, k).applied) = k
<1> DEFINE A(k) == Told(log, k).applied
           I == {k \in Nat : k <= Len(log) => IsFiniteSet(A(k)) /\ Cardinality(A(k)) = k}
<1>1. 0 \in I
  <2>1. A(0) = {}
    BY DEF Told, Fresh
  <2> QED BY <2>1, FS_EmptySet
<1>2. ASSUME NEW k \in I PROVE k + 1 \in I
  <2> SUFFICES ASSUME k + 1 <= Len(log)
               PROVE  IsFiniteSet(A(k + 1)) /\ Cardinality(A(k + 1)) = k + 1
    BY <1>2
  <2>1. k \in Nat /\ Len(log) \in Nat /\ IsFiniteSet(A(k)) /\ Cardinality(A(k)) = k
    BY <1>2, LenProperties DEF Tells
  <2>2. PICK m : m = k + 1
    OBVIOUS
  <2>3. m \in Nat \ {0} /\ m - 1 = k /\ m \in 1..Len(log)
    BY <2>1, <2>2
  <2>4. Told(log, m).applied = Told(log, m - 1).applied \cup {EventId(log[m])}
    BY <2>3, OneMore
  <2>5. EventId(log[m]) \notin Told(log, k).applied
    <3> DEFINE Id(i) == EventId(log[i])
    <3>1. Told(log, k).applied = {Id(i) : i \in 1..k}
      BY <2>1, ToldFields
    <3>2. \A i \in 1..k : Id(i) # Id(m)
      BY <2>1, <2>2, <2>3 DEF Tells
    <3>3. Id(m) \notin {Id(i) : i \in 1..k}
      <4> HIDE DEF Id
      <4> QED BY <3>2
    <3> QED BY <3>1, <3>3
  <2>6. A(m) = A(k) \cup {EventId(log[m])} /\ EventId(log[m]) \notin A(k)
    BY <2>3, <2>4, <2>5
  <2> DEFINE x == EventId(log[m])
  <2> HIDE DEF A, x
  <2>7. A(m) = A(k) \cup {x} /\ x \notin A(k)
    BY <2>6 DEF x
  <2>8. IsFiniteSet(A(m)) /\ Cardinality(A(m)) = Cardinality(A(k)) + 1
    BY <2>1, <2>7, FS_AddElement
  <2> QED BY <2>1, <2>2, <2>8
<1>3. I = Nat
  <2> HIDE DEF I
  <2>1. I \in SUBSET Nat
    BY DEF I
  <2> QED BY <1>1, <1>2, <2>1, AllNumbers
<1>4. ASSUME NEW k \in 0..Len(log) PROVE Cardinality(A(k)) = k
  <2>1. k \in Nat /\ k <= Len(log)
    BY LenProperties DEF Tells
  <2>2. k \in I
    <3> HIDE DEF I
    <3> QED BY <1>3, <2>1
  <2> QED BY <2>1, <2>2
<1> QED BY <1>4

\* What a checkpoint says of a log it says of every longer one.
LEMMA ToldOfPrefix ==
  ASSUME NEW log, NEW new, NEW k \in Nat, \A i \in 1..k : new[i] = log[i]
  PROVE  Told(new, k) = Told(log, k) /\ Raising(new, k) = Raising(log, k)
<1>1. CASE k = 0
  BY <1>1 DEF Told, Raising
<1>2. CASE k # 0
  <2>1. /\ new[1] = log[1] /\ new[k] = log[k]
        /\ (k >= 2 => new[2] = log[2]) /\ (k >= 3 => new[3] = log[3])
    BY <1>2
  <2>2. EndedBy(new, k) <=> EndedBy(log, k)
    BY <2>1 DEF EndedBy
  <2>3. {EventId(new[i]) : i \in 1..k} = {EventId(log[i]) : i \in 1..k}
    OBVIOUS
  <2>4. (k >= 2 /\ new[2].type = "TP1_FILL") = (k >= 2 /\ log[2].type = "TP1_FILL")
    BY <2>1
  <2>5. (k >= 3 /\ new[3].type = "BREAKEVEN_ACTIVATED") = (k >= 3 /\ log[3].type = "BREAKEVEN_ACTIVATED")
    BY <2>1
  <2>6. Told(new, k) = Told(log, k)
    BY <1>2, <2>1, <2>2, <2>3, <2>4, <2>5 DEF Told
  <2> QED BY <2>6 DEF Raising
<1> QED BY <1>1, <1>2

-----------------------------------------------------------------------------
(* The checkpoint of a consumer *)

\* A checkpoint is empty until the replay returns; then it is somewhere in the log,
\* and stuck only before an event that is out of order.
CheckpointKnown ==
  IF stage = "RETURNED"
  THEN (\E k \in 0..Len(events) : At(events, checkpoint, k)) \/ Stuck(events, checkpoint)
  ELSE checkpoint = Fresh

RecoveryInv == ReplayKnown /\ CheckpointKnown

LEMMA FreshIsAt ==
  ASSUME NEW log
  PROVE  At(log, Fresh, 0)
BY DEF At, InOrder, Told

LEMMA NextKeepsRecovery ==
  ASSUME RecoveryInv, Next, UNCHANGED checkpoint
  PROVE  RecoveryInv'
<1>1. stage # "RETURNED"
  BY DEF Next, ReadCandle, DataExhausted, ArmedStep, SkipEarlyCandle, PassTrades, PassOhlc, Expire,
         Miss, InvalidateOnTrade, InvalidateOnOhlc, EnterOnTrade, EnterOnOhlc, TradeStep,
         ExitAtDeadline, CloseInCandle, StartTrade, RejectBreakeven, HoldOn, ActivateBreakeven,
         TakeProfitOne, Scanning, ByTrades, ByOhlc, InWindow, HandleCandle, Holding
<1>2. TypeOK /\ Story /\ Details /\ checkpoint = Fresh
  BY <1>1 DEF RecoveryInv, ReplayKnown, CheckpointKnown, Refused
<1>3. TypeOK' /\ Story' /\ Details'
  BY <1>2, StepKeepsDetails
<1>4. ReplayKnown'
  <2>1. CASE signal' \in Endings
    <3>1. Refused'
      <4>1. (TypeOK /\ Story /\ Details /\ signal \in Endings => Refused)'
        BY BecomesRefused, PTL
      <4> QED BY <1>3, <2>1, <4>1
    <3> QED BY <2>1, <3>1 DEF ReplayKnown
  <2> QED BY <1>3, <2>1 DEF ReplayKnown
<1>5. CheckpointKnown'
  <2>1. checkpoint' = Fresh
    BY <1>2
  <2>2. stage' = "RETURNED" => \E k \in 0..Len(events') : At(events', checkpoint', k)
    <3>1. At(events', Fresh, 0)
      BY FreshIsAt
    <3>2. 0 \in 0..Len(events')
      BY <1>3, LenProperties DEF TypeOK
    <3> QED BY <2>1, <3>1, <3>2
  <2> QED BY <2>1, <2>2 DEF CheckpointKnown
<1> QED BY <1>4, <1>5 DEF RecoveryInv

LEMMA LateEventType ==
  ASSUME NEW time \in LateTimes, NEW source \in Sources
  PROVE  LateEvent(time, source) \in Reported
<1>1. time \in Nat /\ EntryPrice \in Nat /\ source \in Words /\ 0 \in Int
      /\ "LATE_EVENT_IGNORED" \in Words /\ "LATE_ENTRY_AFTER_TERMINAL" \in Words
  BY LateAssumption, PriceAssumption DEF Words
<1> QED BY <1>1 DEF LateEvent, Event, Reported

LEMMA LateEntryKeepsRecovery ==
  ASSUME RecoveryInv, NEW time \in LateTimes, NEW source \in Sources, ApplyLateEntry(time, source),
         UNCHANGED checkpoint
  PROVE  RecoveryInv'
<1> DEFINE e == LateEvent(time, source)
           n == Len(events)
<1>1. /\ stage = "RETURNED" /\ signal \in Endings /\ Refused /\ events' = Append(events, e)
      /\ UNCHANGED <<stage, signal, position, openFraction, breakevenActive>>
  BY DEF ApplyLateEntry, RecoveryInv, ReplayKnown, Endings, PreTradeTerminal
<1>2. e \in Reported /\ e.type = "LATE_EVENT_IGNORED"
  BY LateEventType DEF LateEvent, Event
<1>3. \A i \in 1..n : EventId(events[i]) # EventId(e)
  BY DEF ApplyLateEntry, AlreadyLogged, Log
<1> HIDE DEF e
<1>4. /\ events' \in Seq(Reported) /\ Len(events') = n + 1 /\ n \in Nat /\ n >= 1
      /\ \A i \in 1..n : events'[i] = events[i]
      /\ events'[n + 1] = e
  BY <1>1, <1>2, AppendProperties, LenProperties DEF Refused
<1>5. Refused'
  <2>1. events'[1].type = signal
    BY <1>1, <1>4 DEF Refused
  <2>2. \A i \in 2..n + 1 : events'[i].type = "LATE_EVENT_IGNORED"
    <3>1. \A i \in 2..n : events'[i].type = "LATE_EVENT_IGNORED"
      BY <1>1, <1>4 DEF Refused
    <3> QED BY <1>2, <1>4, <3>1
  <2>3. \A i, j \in 1..n + 1 : EventId(events'[i]) = EventId(events'[j]) => i = j
    <3>1. \A i, j \in 1..n : EventId(events'[i]) = EventId(events'[j]) => i = j
      BY <1>1, <1>4 DEF Refused
    <3>2. \A i \in 1..n : EventId(events'[i]) # EventId(events'[n + 1])
      BY <1>3, <1>4
    <3>3. \A i \in 1..n + 1 : i \in 1..n \/ i = n + 1
      BY <1>4
    <3> QED BY <3>1, <3>2, <3>3
  <2> QED BY <1>1, <1>4, <2>1, <2>2, <2>3 DEF Refused
<1>6. ASSUME NEW k \in 0..n
      PROVE  /\ k \in 0..Len(events') /\ Told(events', k) = Told(events, k)
             /\ Raising(events', k) = Raising(events, k)
             /\ InOrder(events, k) => InOrder(events', k)
             /\ Late(events, k) => Late(events', k)
  <2>1. k \in Nat /\ k <= n /\ k \in 0..Len(events') /\ \A i \in 1..k : events'[i] = events[i]
    BY <1>4
  <2>2. Told(events', k) = Told(events, k) /\ Raising(events', k) = Raising(events, k)
    BY <2>1, ToldOfPrefix
  <2>3. InOrder(events, k) => InOrder(events', k)
    <3>1. \A i \in 1..k : i > 1 => i - 1 \in 1..n /\ i \in 1..n
      BY <1>4, <2>1
    <3> QED BY <1>4, <3>1 DEF InOrder
  <2>4. Late(events, k) => Late(events', k)
    BY <1>4, <2>1 DEF Late
  <2> QED BY <2>1, <2>2, <2>3, <2>4
<1>7. CheckpointKnown'
  <2>1. CASE \E k \in 0..n : At(events, checkpoint, k)
    <3>1. PICK k \in 0..n : At(events, checkpoint, k)
      BY <2>1
    <3>2. At(events', checkpoint', k) /\ k \in 0..Len(events')
      BY <1>6, <3>1 DEF At
    <3> QED BY <1>1, <3>2 DEF CheckpointKnown
  <2>2. CASE Stuck(events, checkpoint)
    <3>1. PICK k \in 0..n : InOrder(events, k) /\ Late(events, k) /\ checkpoint = Raising(events, k)
      BY <2>2 DEF Stuck
    <3>2. Stuck(events', checkpoint')
      BY <1>6, <3>1 DEF Stuck
    <3> QED BY <1>1, <3>2 DEF CheckpointKnown
  <2> QED BY <1>1, <2>1, <2>2 DEF RecoveryInv, CheckpointKnown
<1> QED BY <1>1, <1>5, <1>7 DEF RecoveryInv, ReplayKnown

\* How far a checkpoint is: what it has applied.
LEMMA AppliedIsPlace ==
  ASSUME RecoveryInv, stage = "RETURNED"
  PROVE  \/ ~checkpoint.raised /\ Applied \in 0..Len(events) /\ At(events, checkpoint, Applied)
         \/ checkpoint.raised /\ Stuck(events, checkpoint) /\ Applied < Len(events)
<1>1. Tells(events) /\ Len(events) \in Nat
  BY ReturnedTells, LenProperties DEF RecoveryInv, Tells
<1>2. CASE \E k \in 0..Len(events) : At(events, checkpoint, k)
  <2>1. PICK k \in 0..Len(events) : At(events, checkpoint, k)
    BY <1>2
  <2>2. k \in Nat /\ Cardinality(Told(events, k).applied) = k /\ ~Told(events, k).raised
    <3>1. k \in Nat
      OBVIOUS
    <3>2. Cardinality(Told(events, k).applied) = k
      BY <1>1, AppliedCount
    <3>3. Told(events, k).raised = FALSE
      BY <3>1, ToldFields
    <3> QED BY <3>1, <3>2, <3>3
  <2>3. Applied = k /\ ~checkpoint.raised
    BY <2>1, <2>2 DEF At, Applied
  <2> QED BY <2>1, <2>3
<1>3. CASE Stuck(events, checkpoint)
  <2>1. PICK k \in 0..Len(events) : Late(events, k) /\ checkpoint = Raising(events, k)
    BY <1>3 DEF Stuck
  <2>2. k \in Nat /\ k < Len(events) /\ Cardinality(Told(events, k).applied) = k
    BY <1>1, <2>1, AppliedCount DEF Late
  <2>3. checkpoint.applied = Told(events, k).applied /\ checkpoint.raised = TRUE
    BY <2>1, <2>2, ToldFields
  <2> QED BY <1>3, <2>2, <2>3 DEF Applied
<1> QED BY <1>2, <1>3 DEF RecoveryInv, CheckpointKnown

LEMMA SameReplay ==
  ASSUME ReplayKnown, UNCHANGED vars
  PROVE  ReplayKnown'
<1>1. UNCHANGED <<stage, position, openFraction, breakevenActive, events, signal>>
  BY DEF vars
<1>2. CASE signal \in Endings
  BY <1>1, <1>2 DEF ReplayKnown, Refused
<1>3. CASE signal \notin Endings
  <2>1. TypeOK' /\ Story' /\ Details'
    BY <1>3, StepKeepsDetails DEF ReplayKnown
  <2> QED BY <1>1, <1>3, <2>1 DEF ReplayKnown
<1> QED BY <1>2, <1>3

LEMMA ResumeKeepsRecovery ==
  ASSUME RecoveryInv, NEW from \in 1..Len(events), NEW to \in 1..Len(events), from <= Applied + 1,
         ResumeWith(from, to)
  PROVE  RecoveryInv'
<1>1. stage = "RETURNED" /\ ~checkpoint.raised /\ UNCHANGED vars
  BY DEF ResumeWith
<1>2. Tells(events) /\ Len(events) \in Nat
  BY <1>1, ReturnedTells, LenProperties DEF RecoveryInv, Tells
<1>3. Applied \in 0..Len(events) /\ At(events, checkpoint, Applied)
  BY <1>1, AppliedIsPlace
<1> DEFINE k == Applied
           s == Reduce(Told(events, k), SubSeq(events, from, to))
<1>4. checkpoint' = s /\ checkpoint = Told(events, k) /\ InOrder(events, k)
  BY <1>3 DEF ResumeWith, At
<1>5. At(events, s, Further(k, to)) \/ Stuck(events, s)
  <2>1. from \in 1..Len(events) + 1 /\ to \in 0..Len(events)
    BY <1>2
  <2> HIDE DEF k
  <2> QED BY <1>2, <1>3, <1>4, <2>1, SliceReduces DEF k
<1>6. Further(k, to) \in 0..Len(events)
  BY <1>2, <1>3 DEF Further
<1> HIDE DEF s
<1>7. events' = events /\ stage' = stage
  BY <1>1 DEF vars
<1>8. CheckpointKnown'
  BY <1>1, <1>4, <1>5, <1>6, <1>7 DEF CheckpointKnown
<1>9. ReplayKnown'
  BY <1>1, SameReplay DEF RecoveryInv
<1> QED BY <1>8, <1>9 DEF RecoveryInv

LEMMA StepKeepsRecovery ==
  ASSUME RecoveryInv, [RecoveryNext]_<<vars, checkpoint>>
  PROVE  RecoveryInv'
<1>1. CASE UNCHANGED <<vars, checkpoint>>
  <2>1. ReplayKnown'
    BY <1>1, SameReplay DEF RecoveryInv
  <2>2. CheckpointKnown'
    BY <1>1 DEF vars, RecoveryInv, CheckpointKnown
  <2> QED BY <2>1, <2>2 DEF RecoveryInv
<1> QED BY <1>1, NextKeepsRecovery, LateEntryKeepsRecovery, ResumeKeepsRecovery
        DEF RecoveryNext, LateNext

LEMMA InitRecovery ==
  ASSUME RecoveryInit
  PROVE  RecoveryInv
<1>1. TypeOK /\ Story /\ signal = "ARMED" /\ stage = "ARMED" /\ events = << >> /\ position = "NONE"
  BY InitStory, InitType DEF RecoveryInit, Init
<1>2. Details
  BY <1>1 DEF Details, Endings
<1>3. ReplayKnown /\ CheckpointKnown
  BY <1>1, <1>2 DEF ReplayKnown, CheckpointKnown, RecoveryInit, Endings
<1> QED BY <1>3 DEF RecoveryInv

\* In every state of the replay, its late entries and its consumer, the log can be
\* told event by event and the checkpoint is at a place of it.
THEOREM CheckpointIsInTheLog == RecoverySpec => []RecoveryInv
BY InitRecovery, StepKeepsRecovery, PTL DEF RecoverySpec

\* A log in order leaves no reduction stuck.
LEMMA OrderedIsNotStuck ==
  ASSUME NEW s, Tells(events), Stuck(events, s)
  PROVE  ~LogOrdered
<1>1. events \in Seq(Reported) /\ Len(events) \in Nat /\ Log = 1..Len(events)
  BY LenProperties DEF Tells, Log
<1>2. PICK k \in 0..Len(events) : k >= 1 /\ k < Len(events) /\ events[k + 1].time < events[k].time
  BY DEF Stuck, Late
<1>3. PICK m : m = k + 1
  OBVIOUS
<1>4. k \in Log /\ m \in Log /\ k < m
  BY <1>1, <1>2, <1>3
<1>5. events[k].time \in Nat /\ events[m].time \in Nat
  <2>1. events[k] \in Reported /\ events[m] \in Reported
    BY <1>1, <1>4, ElementOfSeq
  <2> QED BY <2>1 DEF Reported
<1> QED BY <1>2, <1>3, <1>4, <1>5 DEF LogOrdered

LEMMA ResumeStateIsKnown ==
  ASSUME RecoveryInv
  PROVE  ResumeEqualsUninterrupted
<1> SUFFICES ASSUME stage = "RETURNED", LogOrdered
             PROVE  checkpoint = Reduce(Fresh, SubSeq(events, 1, Applied))
  BY DEF ResumeEqualsUninterrupted
<1>1. Tells(events) /\ Len(events) \in Nat
  BY ReturnedTells, LenProperties DEF RecoveryInv, Tells
<1>2. Applied \in 0..Len(events) /\ checkpoint = Told(events, Applied)
  BY <1>1, AppliedIsPlace, OrderedIsNotStuck DEF At
<1> DEFINE k == Applied
           s == Reduce(Told(events, 0), SubSeq(events, 1, k))
<1>3. At(events, s, Further(0, k)) \/ Stuck(events, s)
  <2>1. 0 \in 0..Len(events) /\ 1 \in 1..Len(events) + 1 /\ InOrder(events, 0) /\ 1 <= 0 + 1
    BY <1>1 DEF InOrder
  <2> HIDE DEF k
  <2> QED BY <1>1, <1>2, <2>1, SliceReduces DEF k
<1>4. Further(0, k) = k /\ Told(events, 0) = Fresh
  BY <1>2 DEF Further, Told
<1>5. ~Stuck(events, s)
  BY <1>1, OrderedIsNotStuck
<1>6. s = Told(events, k)
  BY <1>3, <1>4, <1>5 DEF At
<1> QED BY <1>2, <1>4, <1>6

\* The whole log of a result tells the result.
LEMMA WholeLogTellsResult ==
  ASSUME ReplayKnown, stage = "RETURNED"
  PROVE  LET s == Told(events, Len(events))
         IN  /\ s.lifecycle = IF position = "FLAT" THEN "CLOSED" ELSE signal
             /\ s.position = position
             /\ s.openFraction = openFraction
             /\ s.breakevenActive = breakevenActive
             /\ s.closedSeen = (position = "FLAT")
             /\ position = "FLAT" => s.terminalReason = events[Len(events)].reason
<1> DEFINE n == Len(events)
           s == Told(events, n)
<1>1. CASE signal \in Endings
  <2>1. /\ n \in Nat /\ n \in 1..n /\ events[1].type = signal /\ events[1].type # "ENTRY_FILL"
        /\ position = "NONE" /\ openFraction = 0 /\ breakevenActive = FALSE
    BY <1>1, LenProperties DEF ReplayKnown, Refused, Endings
  <2> QED BY <2>1, UntradedTold
<1>2. CASE signal = "ARMED"
  <2>1. events = << >> /\ position = "NONE" /\ TypeOK
    BY <1>2 DEF ReplayKnown, Details, Story, Endings, TypeOK
  <2>2. openFraction = 0 /\ breakevenActive = FALSE
    BY <1>2, <2>1 DEF ReplayKnown, Story, Untraded, Endings, TypeOK
  <2>3. s = Fresh
    BY <2>1 DEF Told
  <2>4. /\ s.lifecycle = "ARMED" /\ s.position = "NONE" /\ s.openFraction = 0
        /\ s.breakevenActive = FALSE /\ s.closedSeen = FALSE
    BY <2>3 DEF Fresh
  <2>5. position # "FLAT" /\ (position = "FLAT") = FALSE
    BY <2>1
  <2>6. s.position = position /\ s.openFraction = openFraction
    BY <2>1, <2>2, <2>4
  <2>7. s.closedSeen = (position = "FLAT")
    BY <2>4, <2>5, Zenon
  <2>8. s.lifecycle = IF position = "FLAT" THEN "CLOSED" ELSE signal
    BY <1>2, <2>4, <2>5
  <2>9. s.breakevenActive = breakevenActive
    BY <2>2, <2>4, Zenon
  <2> QED BY <2>5, <2>6, <2>7, <2>8, <2>9
<1>3. CASE signal = "TRIGGERED"
  <2>1. /\ TypeOK /\ Story /\ Details /\ n \in Nat /\ position \in {"FULL", "HALF", "FLAT"}
        /\ breakevenActive \in BOOLEAN
    BY <1>3, LenProperties DEF ReplayKnown, Endings, TypeOK, Details
  <2>2. IsEntry(events[1]) /\ n >= 1
    BY <2>1 DEF Story, FullPosition, HalfPosition, HalfTaken, FlatPosition
  <2>3. events[1].type = "ENTRY_FILL" /\ n \in 1..n
    BY <2>1, <2>2 DEF IsEntry
  <2>4. CASE position = "FULL"
    <3>1. n = 1 /\ openFraction = Full /\ breakevenActive = FALSE
      BY <2>1, <2>4 DEF Story, FullPosition
    <3>2. ~EndedBy(events, n)
      BY <2>3, <3>1 DEF EndedBy, IsTerminal
    <3>3. (n >= 3 /\ events[3].type = "BREAKEVEN_ACTIVATED") = FALSE
      BY <3>1
    <3>4. (n >= 2 /\ events[2].type = "TP1_FILL") = FALSE
      BY <3>1
    <3> QED BY <1>3, <2>1, <2>3, <2>4, <3>1, <3>2, <3>3, <3>4, OpenTold
  <2>5. CASE position = "HALF"
    <3>1. /\ openFraction = Half /\ events[2].type = "TP1_FILL"
          /\ IF breakevenActive THEN n = 3 /\ events[3].type = "BREAKEVEN_ACTIVATED" ELSE n = 2
      BY <2>1, <2>5 DEF Story, HalfPosition, HalfTaken, IsTakeProfit, IsActivation
    <3>2. ~EndedBy(events, n) /\ n >= 2
      BY <3>1 DEF EndedBy, IsTerminal
    <3>3. breakevenActive = (n >= 3 /\ events[3].type = "BREAKEVEN_ACTIVATED")
      BY <2>1, <3>1
    <3>4. (n >= 2 /\ events[2].type = "TP1_FILL") = TRUE
      BY <3>1, <3>2
    <3> QED BY <1>3, <2>1, <2>3, <2>5, <3>1, <3>2, <3>3, <3>4, OpenTold
  <2>6. CASE position = "FLAT"
    <3>1. FlatPosition
      BY <2>1, <2>6 DEF Story
    <3>2. openFraction = 0 /\ events[n].type = "CLOSED" /\ IsTerminal(events[n - 1]) /\ n \in {3, 4, 5}
      BY <3>1 DEF FlatPosition, Ended
    <3>3. EndedBy(events, n)
      BY <3>2 DEF EndedBy
    <3>4. breakevenActive = (n >= 3 /\ events[3].type = "BREAKEVEN_ACTIVATED")
      <4>1. breakevenActive <=> n = 5
        BY <2>1, <2>6 DEF Details
      <4>2. n = 5 => events[3].type = "BREAKEVEN_ACTIVATED"
        BY <3>1 DEF FlatPosition, IsActivation
      <4>3. n \in {3, 4} => events[3].type # "BREAKEVEN_ACTIVATED"
        BY <3>2 DEF IsTerminal
      <4> QED BY <2>1, <3>2, <4>1, <4>2, <4>3
    <3> QED BY <1>3, <2>1, <2>3, <2>6, <3>2, <3>3, <3>4, EndedTold
  <2> QED BY <2>1, <2>4, <2>5, <2>6
<1>4. signal \in {"ARMED", "TRIGGERED"} \cup Endings
  BY DEF ReplayKnown, TypeOK, Endings
<1> QED BY <1>1, <1>2, <1>3, <1>4

LEMMA RebuiltIsKnown ==
  ASSUME RecoveryInv
  PROVE  RebuildsResult
<1> SUFFICES ASSUME stage = "RETURNED", Applied = Len(events) PROVE RebuildsResult
  BY DEF RebuildsResult
<1>1. Len(events) \in Nat
  BY ReturnedTells, LenProperties DEF RecoveryInv, Tells
<1>2. checkpoint = Told(events, Len(events))
  BY <1>1, AppliedIsPlace DEF At
<1> QED BY <1>2, WholeLogTellsResult DEF RecoveryInv, RebuildsResult

LEMMA LateIsKnown ==
  ASSUME RecoveryInv
  PROVE  LateKeepsTerminal
<1> SUFFICES ASSUME stage = "RETURNED", LogOrdered, Len(events) > 0, signal \in PreTradeTerminal
             PROVE  LET s == Reduce(Fresh, events)
                    IN  /\ ~s.raised /\ s.lifecycle = signal /\ s.terminalReason = events[1].reason
                        /\ Cardinality(s.applied) = Len(events)
  BY DEF LateKeepsTerminal
<1> DEFINE n == Len(events)
           s == Reduce(Told(events, 0), SubSeq(events, 1, n))
<1>1. Tells(events) /\ n \in Nat /\ Refused /\ events \in Seq(Reported)
  BY ReturnedTells, LenProperties DEF RecoveryInv, Tells, ReplayKnown, Endings, PreTradeTerminal
<1>2. SubSeq(events, 1, n) = events /\ Told(events, 0) = Fresh
  BY <1>1, SubSeqFull DEF Told
<1>3. At(events, s, Further(0, n)) \/ Stuck(events, s)
  <2>1. 0 \in 0..n /\ n \in 0..n /\ 1 \in 1..n + 1 /\ InOrder(events, 0) /\ 1 <= 0 + 1
    BY <1>1 DEF InOrder
  <2> QED BY <1>1, <2>1, SliceReduces
<1>4. s = Told(events, n)
  <2>1. Further(0, n) = n
    BY <1>1 DEF Further
  <2> QED BY <1>1, <1>3, <2>1, OrderedIsNotStuck DEF At
<1>5. Told(events, n).raised = FALSE /\ Cardinality(Told(events, n).applied) = n
  <2>1. n \in 0..n
    BY <1>1
  <2>2. Cardinality(Told(events, n).applied) = n
    BY <1>1, <2>1, AppliedCount
  <2> QED BY <1>1, <2>2, ToldFields
<1>6. Told(events, n).lifecycle = signal /\ Told(events, n).terminalReason = events[1].reason
  <2>1. n \in 1..n /\ events[1].type = signal /\ events[1].type # "ENTRY_FILL"
    BY <1>1 DEF Refused, PreTradeTerminal
  <2> QED BY <1>1, <2>1, UntradedTold
<1> HIDE DEF s
<1>7. Reduce(Fresh, events) = s
  BY <1>2 DEF s
<1> QED BY <1>4, <1>5, <1>6, <1>7

\* However the consumer is interrupted and whatever slices it reduces again, it has
\* the state of an uninterrupted reduction of what it has applied (reduce_event_log).
THEOREM ResumingChangesNothing == RecoverySpec => []ResumeEqualsUninterrupted
BY CheckpointIsInTheLog, ResumeStateIsKnown, PTL

\* A consumer that has applied the whole log has rebuilt the result of the replay,
\* for every plan and every market.
THEOREM LogRebuildsTheResult == RecoverySpec => []RebuildsResult
BY CheckpointIsInTheLog, RebuiltIsKnown, PTL

\* Late entries that arrive in exchange-time order never revive a signal that ended
\* without a trade, whatever their number (apply_late_entry_event).
THEOREM LateEntriesChangeNothing == RecoverySpec => []LateKeepsTerminal
BY CheckpointIsInTheLog, LateIsKnown, PTL
-----------------------------------------------------------------------------
(* The ledger of a closed trade *)

\* The place of the final exit, and whether the first target was taken before it.
FinalExit == Len(events) - 1
Partial == Len(events) > 3

LEMMA ClosedLog ==
  ASSUME TypeOK, Story, Details, position = "FLAT"
  PROVE  /\ Len(events) \in 3..5 /\ Log = 1..Len(events) /\ FinalExit \in 2..4
         /\ 1 \in Log /\ 2 \in Log /\ FinalExit \in Log
         /\ events[1].type = "ENTRY_FILL" /\ events[1].fraction = Full /\ events[1].time = entry.time
         /\ IsTerminal(events[FinalExit]) /\ events[FinalExit].fraction = IF Partial THEN Half ELSE Full
         /\ IF Partial THEN FinalExit > 2 /\ events[2].type = "TP1_FILL" /\ events[2].fraction = Half
                       ELSE FinalExit = 2
         /\ \A i \in Log \ {1, 2, FinalExit} : events[i].type \in {"BREAKEVEN_ACTIVATED", "CLOSED"}
         /\ \A i \in Log : i > FinalExit => i = Len(events)
<1> DEFINE n == Len(events)
<1>1. /\ n \in 3..5 /\ IsEntry(events[1]) /\ (n > 3 => IsTakeProfit(events[2]))
      /\ (n = 5 => IsActivation(events[3])) /\ Ended(IF n = 3 THEN Full ELSE Half)
  BY FlatLog
<1>2. Log = 1..n /\ n \in Nat
  BY LogLength
<1>3. /\ IsTerminal(events[n - 1]) /\ events[n - 1].fraction = (IF n = 3 THEN Full ELSE Half)
      /\ events[n].type = "CLOSED"
  BY <1>1 DEF Ended
<1>4. events[1].type = "ENTRY_FILL" /\ events[1].time = entry.time /\ events[1].fraction = Full
  <2>1. signal = "TRIGGERED"
    BY DEF Story
  <2>2. events[1].fraction = Full
    BY <2>1 DEF Details
  <2> QED BY <1>1, <2>2 DEF IsEntry
<1>5. ASSUME NEW i \in Log, i # 1, i # 2, i # n - 1
      PROVE  events[i].type \in {"BREAKEVEN_ACTIVATED", "CLOSED"}
  <2>1. i = n \/ (n = 5 /\ i = 3)
    <3> HIDE DEF n
    <3>1. i \in 1..n /\ n \in {3, 4, 5}
      BY <1>1, <1>2
    <3> QED BY <1>5, <3>1
  <2> QED BY <1>1, <1>3, <2>1 DEF IsActivation
<1>6. n - 1 \in 2..4 /\ n - 1 \in Log /\ 1 \in Log /\ 2 \in Log /\ (n > 3 <=> n # 3)
      /\ (n > 3 => n - 1 > 2) /\ (n = 3 => n - 1 = 2)
      /\ \A i \in Log : i > n - 1 => i = n
  <2> HIDE DEF n
  <2> QED BY <1>1, <1>2
<1>7. \A i \in Log \ {1, 2, n - 1} : events[i].type \in {"BREAKEVEN_ACTIVATED", "CLOSED"}
  BY <1>5
<1>8. n > 3 => events[2].type = "TP1_FILL" /\ events[2].fraction = Half
  BY <1>1 DEF IsTakeProfit
<1> QED BY <1>1, <1>2, <1>3, <1>4, <1>6, <1>7, <1>8 DEF FinalExit, Partial

LEMMA FillsOfClosed ==
  ASSUME TypeOK, Story, Details, position = "FLAT"
  PROVE  /\ Fills = IF Partial THEN {1, 2, FinalExit} ELSE {1, 2}
         /\ Exits = IF Partial THEN {2, FinalExit} ELSE {2}
         /\ ExitTime = events[FinalExit].time /\ Min(Fills) = 1 /\ ~(Cardinality(Fills) < 2)
<1>1. Fills \subseteq {1, 2, FinalExit} /\ {1, 2, FinalExit} \subseteq Fills
  BY ClosedLog DEF Fills, FillTypes, IsTerminal
<1>2. FinalExit \in Nat /\ FinalExit > 1 /\ (IF Partial THEN FinalExit > 2 ELSE FinalExit = 2)
  BY ClosedLog
<1>3. Fills = IF Partial THEN {1, 2, FinalExit} ELSE {1, 2}
  BY <1>1, <1>2
<1>4. Exits = IF Partial THEN {2, FinalExit} ELSE {2}
  <2>1. events[1].type = "ENTRY_FILL" /\ events[FinalExit].type # "ENTRY_FILL"
        /\ events[2].type # "ENTRY_FILL"
    BY ClosedLog DEF IsTerminal
  <2> QED BY <1>2, <1>3, <2>1 DEF Exits
<1>5. Max(Fills) = FinalExit
  <2>1. FinalExit \in Fills /\ \A i \in Fills : FinalExit >= i
    BY <1>1, <1>2
  <2>2. \A x \in Fills : (\A i \in Fills : x >= i) => x = FinalExit
    BY <1>1, <1>2, <2>1
  <2> QED BY <2>1, <2>2 DEF Max
<1>6. Min(Fills) = 1
  <2>1. 1 \in Fills /\ \A i \in Fills : 1 <= i
    BY <1>1, <1>2
  <2>2. \A x \in Fills : (\A i \in Fills : x <= i) => x = 1
    BY <1>1, <1>2, <2>1
  <2> QED BY <2>1, <2>2 DEF Min
<1>7. ~(Cardinality(Fills) < 2)
  <2>1. IsFiniteSet({1, 2}) /\ Cardinality({1, 2}) = 2
    <3>1. 1..2 = {1, 2}
      OBVIOUS
    <3> QED BY <3>1, FirstNumbers
  <2>2. Partial => Fills = {1, 2} \cup {FinalExit} /\ FinalExit \notin {1, 2}
    BY <1>2, <1>3
  <2>3. Partial => Cardinality({1, 2} \cup {FinalExit}) = 3
    BY <2>1, <2>2, FS_AddElement
  <2> QED BY <1>3, <2>1, <2>2, <2>3
<1> QED BY <1>3, <1>4, <1>5, <1>6, <1>7 DEF ExitTime

\* The sum of what each fill has, over the exits and over all fills.
LEMMA SumOverExits ==
  ASSUME TypeOK, Story, Details, position = "FLAT", NEW f, \A i \in Exits : f[i] \in Int
  PROVE  SumFunctionOnSet(f, Exits) = IF Partial THEN f[FinalExit] + f[2] ELSE f[FinalExit]
<1>1. Exits = (IF Partial THEN {2, FinalExit} ELSE {FinalExit}) /\ (Partial => 2 # FinalExit)
  BY FillsOfClosed, ClosedLog
<1>2. f[FinalExit] \in Int /\ (Partial => f[2] \in Int)
  BY <1>1
<1>3. CASE Partial
  <2>1. SumFunctionOnSet(f, {2, FinalExit}) = f[FinalExit] + f[2]
    BY <1>1, <1>2, <1>3, SumOfTwo, Zenon
  <2> QED BY <1>1, <1>3, <2>1, Zenon
<1>4. CASE ~Partial
  <2>1. SumFunctionOnSet(f, {FinalExit}) = f[FinalExit]
    BY <1>2, SumOfOne, Zenon
  <2> QED BY <1>1, <1>4, <2>1, Zenon
<1> QED BY <1>3, <1>4

LEMMA SumOverFills ==
  ASSUME TypeOK, Story, Details, position = "FLAT", NEW f, \A i \in Fills : f[i] \in Int
  PROVE  SumFunctionOnSet(f, Fills) = IF Partial THEN f[FinalExit] + (f[2] + f[1])
                                      ELSE f[FinalExit] + f[1]
<1>1. /\ Fills = (IF Partial THEN {1, 2, FinalExit} ELSE {1, FinalExit})
      /\ 1 # 2 /\ 1 # FinalExit /\ (Partial => 2 # FinalExit)
  BY FillsOfClosed, ClosedLog
<1>2. f[1] \in Int /\ f[FinalExit] \in Int /\ (Partial => f[2] \in Int)
  BY <1>1
<1>3. CASE Partial
  <2>1. SumFunctionOnSet(f, {1, 2, FinalExit}) = f[FinalExit] + (f[2] + f[1])
    BY <1>1, <1>2, <1>3, SumOfThree, Zenon
  <2> QED BY <1>1, <1>3, <2>1, Zenon
<1>4. CASE ~Partial
  <2>1. SumFunctionOnSet(f, {1, FinalExit}) = f[FinalExit] + f[1]
    BY <1>1, <1>2, SumOfTwo, Zenon
  <2> QED BY <1>1, <1>4, <2>1, Zenon
<1> QED BY <1>3, <1>4

\* What one fill adds to each sum of the ledger.
LEMMA FillNumbers ==
  ASSUME TypeOK, NEW i \in Log
  PROVE  LET e == events[i]
         IN  /\ e.price \in Nat /\ e.fraction \in Int /\ e.time \in Nat
             /\ SlippageCost(e) \in Int /\ Fee(e) \in Int
             /\ Cashflow(e, e.price) \in Int /\ Cashflow(e, SimulatedPrice(e)) \in Int
             /\ SlippageCost(e) = Cashflow(e, e.price) * RateUnit - Cashflow(e, SimulatedPrice(e))
<1> DEFINE e == events[i]
<1>1. e.price \in Nat /\ e.fraction \in Int /\ e.time \in Nat
  BY LogLength DEF EventRecord
<1>2. /\ RateUnit \in Nat /\ SlippageRate \in Nat /\ FeeRate \in Nat /\ RateUnit - SlippageRate \in Nat
      /\ SlippageRate < RateUnit
  BY RateAssumption
<1> DEFINE m == IF Buys(e) THEN RateUnit + SlippageRate ELSE RateUnit - SlippageRate
           p == e.price
           q == e.fraction
<1>3. m \in Nat /\ SimulatedPrice(e) = p * m /\ p \in Nat /\ q \in Int
  BY <1>1, <1>2 DEF SimulatedPrice
<1>4. p * m \in Nat /\ p * RateUnit \in Nat /\ p * SlippageRate \in Nat
  BY <1>2, <1>3
<1>5. Distance(p * m, p * RateUnit) = p * SlippageRate
  <2>1. CASE Buys(e)
    <3>1. p * m = p * RateUnit + p * SlippageRate
      BY <1>2, <1>3, <2>1
    <3> HIDE DEF m, p
    <3> QED BY <1>4, <3>1 DEF Distance
  <2>2. CASE ~Buys(e)
    <3>1. p * m = p * RateUnit - p * SlippageRate
      BY <1>2, <1>3, <2>2
    <3> HIDE DEF m, p
    <3> QED BY <1>4, <3>1 DEF Distance
  <2> QED BY <2>1, <2>2
<1>6. SlippageCost(e) = p * SlippageRate * q
  BY <1>3, <1>5 DEF SlippageCost
<1>7. SlippageCost(e) = Cashflow(e, p) * RateUnit - Cashflow(e, p * m)
  <2>1. CASE Buys(e)
    <3>0. m = RateUnit + SlippageRate
      BY <2>1
    <3> HIDE DEF m
    <3>1. Cashflow(e, p) = -(p * q) /\ Cashflow(e, p * m) = -(p * (RateUnit + SlippageRate) * q)
      BY <2>1, <3>0 DEF Cashflow
    <3>2. (-(p * q)) * RateUnit - (-(p * (RateUnit + SlippageRate) * q)) = p * SlippageRate * q
      <4> HIDE DEF p, q
      <4> QED BY <1>2, <1>3
    <3> QED BY <1>6, <3>1, <3>2, Zenon
  <2>2. CASE ~Buys(e)
    <3>0. m = RateUnit - SlippageRate
      BY <2>2
    <3> HIDE DEF m
    <3>1. Cashflow(e, p) = p * q /\ Cashflow(e, p * m) = p * (RateUnit - SlippageRate) * q
      BY <2>2, <3>0 DEF Cashflow
    <3>2. (p * q) * RateUnit - p * (RateUnit - SlippageRate) * q = p * SlippageRate * q
      <4> HIDE DEF p, q
      <4> QED BY <1>2, <1>3
    <3> QED BY <1>6, <3>1, <3>2, Zenon
  <2> QED BY <2>1, <2>2
<1>8. Fee(e) = p * m * q * FeeRate
  BY <1>3 DEF Fee
<1>9. /\ p * SlippageRate * q \in Int /\ p * m * q * FeeRate \in Int
      /\ p * q \in Int /\ -(p * q) \in Int /\ p * m * q \in Int /\ -(p * m * q) \in Int
  <2> HIDE DEF m, p, q
  <2> QED BY <1>2, <1>3
<1>10. Cashflow(e, p) \in Int /\ Cashflow(e, p * m) \in Int
  BY <1>9 DEF Cashflow
<1> HIDE DEF m
<1> QED BY <1>1, <1>3, <1>6, <1>7, <1>8, <1>9, <1>10

LEMMA LedgerBalances ==
  ASSUME TypeOK, Story, Details, position = "FLAT"
  PROVE  /\ ~LedgerRaises
         /\ TotalSlippage = GrossPnl * RateUnit - SimulatedPnl
         /\ TotalSlippage \in Int /\ GrossPnl \in Int /\ SimulatedPnl \in Int /\ TotalFee \in Int
<1> DEFINE S == [i \in Fills |-> SlippageCost(events[i])]
           G == [i \in Fills |-> Cashflow(events[i], events[i].price)]
           P == [i \in Fills |-> Cashflow(events[i], SimulatedPrice(events[i]))]
           F == [i \in Fills |-> Fee(events[i])]
           Q == [i \in Exits |-> events[i].fraction]
<1>1. Fills \subseteq Log /\ Exits \subseteq Fills
  BY DEF Fills, Exits
<1>2. /\ TotalSlippage = SumFunctionOnSet(S, Fills) /\ GrossPnl = SumFunctionOnSet(G, Fills)
      /\ SimulatedPnl = SumFunctionOnSet(P, Fills) /\ TotalFee = SumFunctionOnSet(F, Fills)
  BY DEF TotalSlippage, GrossPnl, SimulatedPnl, TotalFee, SumOver, SumFunction
<1>3. \A i \in Fills : /\ S[i] \in Int /\ G[i] \in Int /\ P[i] \in Int /\ F[i] \in Int
                       /\ S[i] = G[i] * RateUnit - P[i]
  BY <1>1, FillNumbers
<1>4. \A i \in Exits : Q[i] \in Int /\ Q[i] = events[i].fraction
  BY <1>1, FillNumbers
<1>5. 1 \in Fills /\ FinalExit \in Fills /\ (Partial => 2 \in Fills) /\ RateUnit \in Nat
      /\ FinalExit \in Exits /\ (Partial => 2 \in Exits)
  BY FillsOfClosed, ClosedLog, RateAssumption
<1>6. SumOver(LAMBDA fill : fill.fraction, Exits) = SumFunctionOnSet(Q, Exits)
  BY DEF SumOver, SumFunction
<1> HIDE DEF S, G, P, F, Q
<1>7. SumFunctionOnSet(Q, Exits) = Full
  <2>1. SumFunctionOnSet(Q, Exits) = IF Partial THEN Q[FinalExit] + Q[2] ELSE Q[FinalExit]
    BY <1>4, SumOverExits
  <2>2. /\ events[FinalExit].fraction = IF Partial THEN Half ELSE Full
        /\ Partial => events[2].fraction = Half
    BY ClosedLog
  <2> QED BY <1>4, <1>5, <2>1, <2>2 DEF Full, Half
<1>8. ~LedgerRaises
  <2>1. SumOver(LAMBDA fill : fill.fraction, Exits) = Full
    BY <1>6, <1>7
  <2>2. /\ ~(Cardinality(Fills) < 2) /\ events[Min(Fills)].type = "ENTRY_FILL"
        /\ events[Min(Fills)].fraction = Full
    BY FillsOfClosed, ClosedLog
  <2> QED BY <2>1, <2>2, Zenon DEF LedgerRaises
<1>9. /\ SumFunctionOnSet(S, Fills) = IF Partial THEN S[FinalExit] + (S[2] + S[1]) ELSE S[FinalExit] + S[1]
      /\ SumFunctionOnSet(G, Fills) = IF Partial THEN G[FinalExit] + (G[2] + G[1]) ELSE G[FinalExit] + G[1]
      /\ SumFunctionOnSet(P, Fills) = IF Partial THEN P[FinalExit] + (P[2] + P[1]) ELSE P[FinalExit] + P[1]
      /\ SumFunctionOnSet(F, Fills) = IF Partial THEN F[FinalExit] + (F[2] + F[1]) ELSE F[FinalExit] + F[1]
  BY <1>3, SumOverFills
<1>10. ASSUME NEW a \in Int, NEW b \in Int, NEW c \in Int, NEW x \in Int, NEW y \in Int, NEW z \in Int
       PROVE  /\ (a * RateUnit - x) + (b * RateUnit - y) = (a + b) * RateUnit - (x + y)
              /\ (a * RateUnit - x) + ((b * RateUnit - y) + (c * RateUnit - z))
                   = (a + (b + c)) * RateUnit - (x + (y + z))
  BY <1>5
<1>11. TotalSlippage = GrossPnl * RateUnit - SimulatedPnl
  <2>1. CASE Partial
    BY <1>2, <1>3, <1>5, <1>9, <1>10, <2>1
  <2>2. CASE ~Partial
    BY <1>2, <1>3, <1>5, <1>9, <1>10, <2>2
  <2> QED BY <2>1, <2>2
<1>12. TotalSlippage \in Int /\ GrossPnl \in Int /\ SimulatedPnl \in Int /\ TotalFee \in Int
  BY <1>2, <1>3, <1>5, <1>9
<1> QED BY <1>8, <1>11, <1>12

-----------------------------------------------------------------------------
(* The quantity that pays funding *)

\* The quantity that is open before time t.
OpenBefore(t) == IF Partial /\ events[2].time < t THEN Half ELSE Full

LEMMA OpenFractionIsOpen ==
  ASSUME TypeOK, Story, Details, position = "FLAT", NEW t \in Int, EntryTime < t, t < ExitTime
  PROVE  OpenFractionAt(t) = OpenBefore(t)
<1> DEFINE S == {i \in Exits : \A j \in 1 .. i : events[j].time < t}
           f == [i \in S |-> events[i].fraction]
<1>1. /\ Exits = (IF Partial THEN {2, FinalExit} ELSE {FinalExit})
      /\ FinalExit \in 2..4 /\ (Partial => FinalExit # 2) /\ events[1].time < t
      /\ events[FinalExit].time \in Nat /\ ~(events[FinalExit].time < t)
      /\ Partial => events[2].fraction = Half
  <2>1. \A i \in Log : events[i].time \in Nat
    BY FillNumbers
  <2>2. events[FinalExit].time \in Nat /\ ExitTime = events[FinalExit].time
    BY <2>1, ClosedLog, FillsOfClosed
  <2>3. ~(events[FinalExit].time < t)
    BY <2>2
  <2>4. events[1].time < t
    BY ClosedLog DEF EntryTime
  <2> QED BY <2>2, <2>3, <2>4, ClosedLog, FillsOfClosed
<1>2. FinalExit \notin S
  BY <1>1
<1>3. 2 \in S <=> Partial /\ events[2].time < t
  <2>1. 1..2 = {1, 2}
    OBVIOUS
  <2> QED BY <1>1, <1>2, <2>1
<1>4. S = IF Partial /\ events[2].time < t THEN {2} ELSE {}
  <2>1. S \subseteq {2}
    BY <1>1, <1>2
  <2> QED BY <1>3, <2>1
<1>5. OpenFractionAt(t) = Full - SumFunctionOnSet(f, S)
  BY DEF OpenFractionAt, SumOver, SumFunction
<1>6. 2 \in S => f[2] = events[2].fraction
  OBVIOUS
<1> HIDE DEF f, S
<1>7. CASE Partial /\ events[2].time < t
  <2>1. f[2] = Half /\ Half \in Int
    BY <1>1, <1>3, <1>6, <1>7 DEF Half
  <2>2. SumFunctionOnSet(f, {2}) = Half
    BY <2>1, SumOfOne
  <2> QED BY <1>4, <1>5, <1>7, <2>2 DEF OpenBefore, Full, Half
<1>8. CASE ~(Partial /\ events[2].time < t)
  BY <1>4, <1>5, <1>8, SumOfNothing DEF OpenBefore, Full, Half
<1> QED BY <1>7, <1>8

\* The fold that reads the log up to t.
HeldReduces(t, b, it) ==
  it = [S \in SUBSET DOMAIN b |->
          IF S = {} THEN Fresh
          ELSE IF b[Max(S)].time < t THEN Apply(it[S \ {Max(S)}], b[Max(S)]) ELSE it[S \ {Max(S)}]]

LEMMA HeldIsFold ==
  ASSUME NEW t, NEW it, HeldReduces(t, events, it)
  PROVE  \E jt : HeldReduces(t, events, jt) /\ HeldUntil(t) = jt[DOMAIN events].openFraction
BY DEF HeldUntil, FoldLeft, MapThenFoldSet, HeldReduces

LEMMA HeldSteps ==
  ASSUME NEW t, events \in Seq(Reported)
  PROVE  \E g : /\ g[0] = Fresh
                /\ \A i \in 1..Len(events) :
                     g[i] = IF events[i].time < t THEN Apply(g[i - 1], events[i]) ELSE g[i - 1]
                /\ HeldUntil(t) = g[Len(events)].openFraction
<1> DEFINE n == Len(events)
           Next1(v, i) == IF events[i].time < t THEN Apply(v, events[i]) ELSE v
           H == [i \in 1..n |-> [v \in Reductions |-> Next1(v, i)]]
<1>1. n \in Nat /\ DOMAIN events = 1..n /\ \A i \in 1..n : events[i] \in Reported
  BY LenProperties, ElementOfSeq
<1>2. \A i \in 1..n, v \in Reductions : H[i][v] = Next1(v, i) /\ H[i][v] \in Reductions
  <2>1. \A i \in 1..n, v \in Reductions : Next1(v, i) \in Reductions
    BY <1>1, ApplyType
  <2> HIDE DEF n, Next1
  <2> QED BY <2>1
<1> HIDE DEF H, n, Next1
<1>3. PICK it : it \in [SUBSET (1..n) -> Reductions] /\ IsFold(1..n, Fresh, H, it)
  BY <1>1, <1>2, FreshType, FoldSteps
<1>4. HeldReduces(t, events, it)
  <2>1. \A S \in SUBSET (1..n) : S # {} =>
           H[Max(S)][it[S \ {Max(S)}]] = Next1(it[S \ {Max(S)}], Max(S))
    <3>1. \A S \in SUBSET (1..n) : S # {} => Max(S) \in 1..n /\ S \ {Max(S)} \in SUBSET (1..n)
      BY <1>1, FirstMembers
    <3> QED BY <1>2, <1>3, <3>1
  <2>2. it = [S \in SUBSET (1..n) |-> IF S = {} THEN Fresh ELSE Next1(it[S \ {Max(S)}], Max(S))]
    BY <1>3, <2>1 DEF IsFold
  <2> QED BY <1>1, <2>2 DEF HeldReduces, Next1
<1>5. PICK jt : HeldReduces(t, events, jt) /\ HeldUntil(t) = jt[DOMAIN events].openFraction
  BY <1>4, HeldIsFold
<1> DEFINE g == [i \in 0..n |-> jt[1..i]]
<1>0. jt = [S \in SUBSET (1..n) |-> IF S = {} THEN Fresh ELSE Next1(jt[S \ {Max(S)}], Max(S))]
  BY <1>1, <1>5 DEF HeldReduces, Next1
<1>6. g[0] = Fresh
  <2>1. jt[{}] = Fresh
    BY <1>0, <1>1, FirstMembers
  <2> QED BY <1>1, <2>1, FirstMembers
<1>7. ASSUME NEW i \in 1..n PROVE g[i] = Next1(g[i - 1], i)
  <2>1. jt[1..i] = Next1(jt[(1..i) \ {Max(1..i)}], Max(1..i))
    BY <1>0, <1>1, FirstMembers
  <2>2. jt[1..i] = Next1(jt[1..(i - 1)], i)
    BY <1>1, <2>1, FirstMembers
  <2> QED BY <1>1, <2>2
<1>8. HeldUntil(t) = g[n].openFraction
  BY <1>1, <1>5
<1> HIDE DEF g
<1> QED BY <1>6, <1>7, <1>8 DEF n, Next1

\* A log in order, read up to t, tells what its events before t tell.
LEMMA HeldIsTold ==
  ASSUME Tells(events), InOrder(events, Len(events)), NEW t, NEW k \in 0..Len(events),
         \A i \in 1..Len(events) : events[i].time < t <=> i <= k
  PROVE  HeldUntil(t) = Told(events, k).openFraction
<1> DEFINE n == Len(events)
<1>1. events \in Seq(Reported) /\ n \in Nat /\ k \in Nat /\ k <= n
  BY LenProperties DEF Tells
<1>2. PICK g : /\ g[0] = Fresh
               /\ \A i \in 1..n : g[i] = IF events[i].time < t THEN Apply(g[i - 1], events[i]) ELSE g[i - 1]
               /\ HeldUntil(t) = g[n].openFraction
  BY <1>1, HeldSteps
<1> DEFINE I == {i \in Nat : i <= n => g[i] = Told(events, IF i <= k THEN i ELSE k)}
<1>3. 0 \in I
  BY <1>1, <1>2 DEF Told
<1>4. ASSUME NEW i \in I PROVE i + 1 \in I
  <2> SUFFICES ASSUME i + 1 <= n PROVE g[i + 1] = Told(events, IF i + 1 <= k THEN i + 1 ELSE k)
    BY <1>4
  <2>1. i \in Nat /\ i \in 0..n /\ i + 1 \in 1..n /\ (i + 1) - 1 = i
        /\ g[i] = Told(events, IF i <= k THEN i ELSE k)
    BY <1>1, <1>4
  <2>2. CASE i + 1 <= k
    <3>1. g[i] = Told(events, i) /\ g[i + 1] = Apply(Told(events, i), events[i + 1])
      BY <1>1, <1>2, <2>1, <2>2
    <3>2. ~Late(events, i)
      <4>1. i >= 1 => events[i].time <= events[i + 1].time
        BY <2>1 DEF InOrder
      <4>2. i >= 1 => events[i] \in Reported /\ events[i + 1] \in Reported
        BY <1>1, <2>1, ElementOfSeq
      <4>3. i >= 1 => events[i].time \in Nat /\ events[i + 1].time \in Nat
        BY <4>2 DEF Reported
      <4> QED BY <4>1, <4>3 DEF Late
    <3>3. Apply(Told(events, i), events[i + 1]) = Told(events, i + 1)
      <4> DEFINE j == i + 1
      <4>1. j \in 1..n /\ j = i + 1
        BY <2>1
      <4> HIDE DEF j
      <4>2. Apply(Told(events, i), events[j]) = Told(events, i + 1)
        BY <2>1, <3>2, <4>1, ToldStep
      <4> QED BY <4>1, <4>2
    <3> QED BY <2>2, <3>1, <3>3
  <2>3. CASE ~(i + 1 <= k)
    <3>1. g[i + 1] = g[i]
      BY <1>2, <2>1, <2>3
    <3>2. (IF i <= k THEN i ELSE k) = k
      BY <1>1, <2>1, <2>3
    <3> QED BY <2>1, <2>3, <3>1, <3>2
  <2> QED BY <2>2, <2>3
<1>5. n \in I
  <2> HIDE DEF I
  <2>1. I \in SUBSET Nat
    BY DEF I
  <2> QED BY <1>1, <1>3, <1>4, <2>1, AllNumbers
<1>6. g[n] = Told(events, k)
  BY <1>1, <1>5
<1> QED BY <1>2, <1>6

LEMMA HeldIsOpen ==
  ASSUME TypeOK, Story, Details, position = "FLAT", stage = "RETURNED",
         NEW t \in Int, EntryTime < t, t < ExitTime
  PROVE  HeldUntil(t) = OpenBefore(t)
<1> DEFINE n == Len(events)
<1>1. /\ n \in 3..5 /\ n \in Nat /\ Log = 1..n /\ FinalExit = n - 1
      /\ events[1].type = "ENTRY_FILL" /\ events[1].time = EntryTime
      /\ events[FinalExit].time = ExitTime /\ FinalExit \in Log /\ 2 \in Log
      /\ IF Partial THEN n > 3 /\ events[2].type = "TP1_FILL" ELSE n = 3
      /\ \A i \in Log : events[i].time \in Nat
  <2>1. \A i \in Log : events[i].time \in Nat
    BY FillNumbers
  <2> QED BY <2>1, ClosedLog, FillsOfClosed DEF EntryTime, FinalExit, Partial
<1>2. Tells(events)
  <2>1. signal = "TRIGGERED"
    BY DEF Story
  <2> QED BY <2>1, TradeTells
<1>3. LogOrdered
  BY StoryGivesOrder
<1>4. InOrder(events, n)
  BY <1>1, <1>3 DEF InOrder, LogOrdered
<1>5. \A i, j \in Log : i < j => events[i].time <= events[j].time
  BY <1>3 DEF LogOrdered
<1>6. events[1].time < t /\ \A i \in Log : i >= n - 1 => ~(events[i].time < t)
  <2>1. \A i \in Log : i >= n - 1 => events[n - 1].time <= events[i].time
    BY <1>1, <1>5
  <2> QED BY <1>1, <2>1
<1> DEFINE ReadTo == \E k \in 1..n - 2 : /\ \A i \in 1..n : events[i].time < t <=> i <= k
                                         /\ k >= 2 <=> Partial /\ events[2].time < t
<1>7. ReadTo
  <2>1. CASE ~Partial
    <3>1. n = 3 /\ 1 \in 1..n - 2 /\ \A i \in 1..n : i >= 2 \/ i = 1
      BY <1>1, <2>1
    <3> QED BY <1>1, <1>6, <2>1, <3>1
  <2>2. CASE Partial /\ ~(events[2].time < t)
    <3>1. \A i \in Log : i >= 2 => ~(events[i].time < t)
      BY <1>1, <1>5, <2>2
    <3>2. 1 \in 1..n - 2 /\ \A i \in 1..n : i >= 2 \/ i = 1
      BY <1>1
    <3>3. \A i \in 1..n : events[i].time < t <=> i <= 1
      BY <1>1, <1>6, <3>1, <3>2
    <3> QED BY <2>2, <3>2, <3>3
  <2>3. CASE Partial /\ events[2].time < t /\ (n = 4 \/ ~(events[3].time < t))
    <3>1. \A i \in Log : i >= 3 => ~(events[i].time < t)
      <4>1. CASE n = 4
        BY <1>6, <4>1
      <4>2. CASE n = 5
        <5>1. 3 \in Log
          BY <1>1, <4>2
        <5> QED BY <1>1, <1>5, <2>3, <4>2, <5>1
      <4> QED BY <1>1, <2>3, <4>1, <4>2
    <3>2. 2 \in 1..n - 2 /\ \A i \in 1..n : i >= 3 \/ i = 1 \/ i = 2
      BY <1>1, <2>3
    <3>3. \A i \in 1..n : events[i].time < t <=> i <= 2
      BY <1>1, <1>6, <2>3, <3>1, <3>2
    <3>4. 2 >= 2 <=> Partial /\ events[2].time < t
      BY <2>3
    <3>5. 2 \in 1..n - 2
      BY <3>2
    <3> QED BY <3>3, <3>4, <3>5, Zenon
  <2>4. CASE Partial /\ events[2].time < t /\ n = 5 /\ events[3].time < t
    <3>1. 3 \in 1..n - 2 /\ \A i \in 1..n : i >= n - 1 \/ i = 1 \/ i = 2 \/ i = 3
      BY <2>4
    <3>2. \A i \in 1..n : events[i].time < t <=> i <= 3
      BY <1>1, <1>6, <2>4, <3>1
    <3> QED BY <2>4, <3>1, <3>2
  <2>5. (n = 3 \/ n = 4 \/ n = 5) /\ (Partial => n # 3)
    <3>1. n \in 3..5 /\ (Partial <=> n > 3)
      BY <1>1 DEF Partial
    <3> HIDE DEF n
    <3> QED BY <3>1
  <2> HIDE DEF ReadTo, n
  <2> QED BY <2>1, <2>2, <2>3, <2>4, <2>5
<1>8. PICK k \in 1..n - 2 : /\ \A i \in 1..n : events[i].time < t <=> i <= k
                            /\ k >= 2 <=> Partial /\ events[2].time < t
  BY <1>7
<1>9. k \in Nat /\ k \in 0..n /\ k \in 1..n /\ k \in Log /\ k < FinalExit
  BY <1>1, <1>8
<1>10. HeldUntil(t) = Told(events, k).openFraction
  BY <1>2, <1>4, <1>8, <1>9, HeldIsTold
<1>11. ~EndedBy(events, k)
  <2>1. k = 1 \/ k = 2 \/ (k = 3 /\ n = 5)
    <3> HIDE DEF n
    <3>1. k \in 1..n - 2 /\ (n = 3 \/ n = 4 \/ n = 5)
      BY <1>1, <1>8
    <3> QED BY <3>1
  <2>2. k = 2 => events[2].type = "TP1_FILL"
    BY <1>1, <1>8
  <2>3. k = 3 => events[k].type = "BREAKEVEN_ACTIVATED"
    <3>1. k = 3 /\ n = 5 => IsActivation(events[3])
      BY FlatLog
    <3> QED BY <2>1, <3>1 DEF IsActivation
  <2> QED BY <1>1, <2>1, <2>2, <2>3 DEF EndedBy, IsTerminal
<1>12. Told(events, k).openFraction = IF k >= 2 /\ events[2].type = "TP1_FILL" THEN Half ELSE Full
  BY <1>1, <1>9, <1>11, OpenTold
<1> QED BY <1>1, <1>8, <1>10, <1>12 DEF OpenBefore

\* The funding of one settlement, leg by leg.
FundingSign == IF Long THEN -1 ELSE 1

LEMMA FundingIsCarried ==
  ASSUME TypeOK, Story, Details, position = "FLAT", NEW d, Dataset(d), Missing(d) = {}
  PROVE  /\ Funding(d) = SumOver(LAMBDA exit : CarriedBy(exit, d), Exits)
         /\ Funding(d) \in Int
<1> DEFINE T == Settlements(d)
           F == [t \in T |-> FundingAt(d, t)]
           Leg(e) == [t \in T |-> IF t <= e.time THEN FundingSign * d.observed[t] * e.fraction ELSE 0]
           C == [i \in Exits |-> CarriedBy(events[i], d)]
<1>1. /\ IsFiniteSet(T) /\ \A t \in T : /\ t \in Int /\ d.observed[t] \in Int
                                        /\ EntryTime < t /\ t < ExitTime
  <2>1. T \subseteq d.start .. d.end - 1 /\ d.start \in Nat /\ d.end \in Nat
    BY DEF Dataset, Settlements
  <2>2. IsFiniteSet(T)
    <3>1. d.end - 1 \in Int /\ d.start \in Int
      BY <2>1
    <3>2. IsFiniteSet(d.start .. (d.end - 1))
      BY <3>1, FS_Interval, Zenon
    <3> HIDE DEF T
    <3> QED BY <2>1, <3>2, FS_Subset, Zenon
  <2>3. T \subseteq DOMAIN d.observed
    BY DEF Missing
  <2> QED BY <2>1, <2>2, <2>3 DEF Dataset, Settlements
<1>2. Funding(d) = SumFunctionOnSet(F, T)
  <2>1. T \ Missing(d) = T
    OBVIOUS
  <2> QED BY <2>1 DEF Funding, SumFunction
<1>3. \A i \in Exits : C[i] = SumFunctionOnSet(Leg(events[i]), T)
  BY DEF CarriedBy, SumFunction, FundingSign
<1>4. SumOver(LAMBDA exit : CarriedBy(exit, d), Exits) = SumFunctionOnSet(C, Exits)
  BY DEF SumOver, SumFunction
<1>5. /\ FinalExit \in Exits /\ (Partial => 2 \in Exits /\ events[2].fraction = Half)
      /\ events[FinalExit].time = ExitTime /\ ExitTime \in Nat /\ events[2].time \in Nat
      /\ events[FinalExit].fraction = IF Partial THEN Half ELSE Full
  <2>1. events[FinalExit].time \in Nat /\ events[2].time \in Nat
    BY ClosedLog, FillNumbers
  <2> QED BY <2>1, FillsOfClosed, ClosedLog
<1>6. FundingSign \in Int
  BY DEF FundingSign
<1>7. \A t \in T : F[t] = FundingSign * d.observed[t] * OpenBefore(t) /\ F[t] \in Int
  <2>1. \A t \in T : OpenFractionAt(t) = OpenBefore(t)
    BY <1>1, OpenFractionIsOpen
  <2>2. \A t \in T : OpenBefore(t) \in Int
    BY DEF OpenBefore, Half, Full
  <2>3. \A t \in T : F[t] = FundingSign * d.observed[t] * OpenBefore(t)
    BY <2>1 DEF FundingAt, FundingSign
  <2> HIDE DEF F, T
  <2> QED BY <1>1, <1>6, <2>2, <2>3
<1>8. \A i \in Exits : \A t \in T :
         /\ Leg(events[i])[t] = IF t <= events[i].time THEN FundingSign * d.observed[t] * events[i].fraction
                                ELSE 0
         /\ Leg(events[i])[t] \in Int
  <2>1. \A i \in Exits : events[i].fraction \in Int
    BY FillNumbers DEF Exits, Fills
  <2> HIDE DEF T
  <2>2. \A i \in Exits : \A t \in T : FundingSign * d.observed[t] * events[i].fraction \in Int
    BY <1>1, <1>6, <2>1
  <2> QED BY <2>2
<1> HIDE DEF T, F, Leg, C
<1>9. \A i \in Exits : C[i] \in Int
  <2>1. \A i \in Exits : SumFunctionOnSet(Leg(events[i]), T) \in Int
    BY <1>1, <1>8, SumIsInteger
  <2> QED BY <1>3, <2>1
<1>10. SumFunctionOnSet(C, Exits) = IF Partial THEN C[FinalExit] + C[2] ELSE C[FinalExit]
  BY <1>9, SumOverExits
<1>11. SumFunctionOnSet(F, T) = SumFunctionOnSet(C, Exits)
  <2>1. CASE Partial
    <3> DEFINE f == Leg(events[FinalExit])
               g == Leg(events[2])
    <3>1. \A t \in T : f[t] \in Int /\ g[t] \in Int /\ F[t] = f[t] + g[t]
      <4> TAKE t \in T
      <4> DEFINE m == FundingSign * d.observed[t]
      <4>1. m \in Int /\ t \in Int /\ t <= ExitTime
        BY <1>1, <1>5, <1>6
      <4>2. f[t] = m * Half /\ f[t] \in Int
        BY <1>5, <1>8, <2>1, <4>1
      <4>3. g[t] = (IF t <= events[2].time THEN m * Half ELSE 0) /\ g[t] \in Int
        BY <1>5, <1>8, <2>1
      <4>4. F[t] = m * (IF events[2].time < t THEN Half ELSE Full)
        BY <1>7, <2>1 DEF OpenBefore
      <4> HIDE DEF m, f, g
      <4> QED BY <1>5, <4>1, <4>2, <4>3, <4>4 DEF Half, Full
    <3>2. SumFunctionOnSet(F, T) = SumFunctionOnSet(f, T) + SumFunctionOnSet(g, T)
      <4> HIDE DEF f, g
      <4> QED BY <1>1, <3>1, SumOfSums
    <3> QED BY <1>3, <1>5, <1>10, <2>1, <3>2
  <2>2. CASE ~Partial
    <3> DEFINE f == Leg(events[FinalExit])
    <3>1. \A t \in T : F[t] = f[t]
      <4> TAKE t \in T
      <4>1. t <= ExitTime
        BY <1>1, <1>5
      <4> QED BY <1>5, <1>7, <1>8, <2>2, <4>1 DEF OpenBefore
    <3>2. SumFunctionOnSet(F, T) = SumFunctionOnSet(f, T)
      <4> HIDE DEF f
      <4> QED BY <1>1, <3>1, SumsAgree
    <3> QED BY <1>3, <1>5, <1>10, <2>2, <3>2
  <2> QED BY <2>1, <2>2
<1>12. SumFunctionOnSet(F, T) \in Int
  BY <1>1, <1>7, SumIsInteger
<1> QED BY <1>2, <1>4, <1>11, <1>12

\* Nothing of a log is listed twice.
LEMMA SummaryIsWritten ==
  ASSUME ReplayKnown, stage = "RETURNED"
  PROVE  ~SummaryRaises
<1>1. Tells(events) /\ Len(events) \in Nat
  BY ReturnedTells, LenProperties DEF Tells
<1> DEFINE n == Len(events)
<1>2. Cardinality(Told(events, n).applied) = n
  <2>1. n \in 0..n
    BY <1>1
  <2> QED BY <1>1, <2>1, AppliedCount
<1>3. Told(events, n).applied = {EventId(events[i]) : i \in 1..n}
  BY <1>1, ToldFields
<1>4. Log = 1..n
  BY <1>1 DEF Tells, Log
<1>5. {EventId(events[i]) : i \in Log} = {EventId(events[i]) : i \in 1..n}
  BY <1>4, Zenon
<1> QED BY <1>2, <1>3, <1>5, Zenon DEF SummaryRaises

\* What a dataset makes of a closed trade.
LEMMA FundingIsApplied ==
  ASSUME TypeOK, Story, Details, TradeClosed, NEW d \in Datasets \cup {NoDataset}
  PROVE  LET r == ApplyFunding(d)
         IN  /\ r.eligible <=> NoCosts \/ (Covered(d) /\ Missing(d) = {})
             /\ r.eligible /\ ~NoCosts =>
                  /\ Covered(d) /\ Missing(d) = {}
                  /\ r.cashFlow = Funding(d)
                  /\ r.net = NetBeforeFunding + Funding(d) * RateUnit
<1>1. CASE NoCosts
  BY <1>1 DEF ApplyFunding, Adjusted
<1>2. CASE ~NoCosts /\ ~Covered(d)
  BY <1>2 DEF ApplyFunding, Adjusted
<1>3. CASE ~NoCosts /\ Covered(d) /\ Missing(d) # {}
  BY <1>3 DEF ApplyFunding, Adjusted
<1>4. CASE ~NoCosts /\ Covered(d) /\ Missing(d) = {}
  BY <1>4 DEF ApplyFunding, Adjusted
<1> QED BY <1>1, <1>2, <1>3, <1>4

LEMMA NetBothWays ==
  ASSUME NEW a \in Int, NEW b \in Int, NEW c \in Int, NEW e \in Int, NEW f \in Int,
         NEW u \in Int, a = b * u - c
  PROVE  (c * u - e) + f * u = (b * u - a + f) * u - e
<1> DEFINE p == b * u
<1>1. p \in Int
  OBVIOUS
<1>2. p - a = c
  <2> HIDE DEF p
  <2> QED BY <1>1 DEF p
<1>3. (c + f) * u = c * u + f * u
  OBVIOUS
<1> DEFINE x == c * u
           y == f * u
<1>4. x \in Int /\ y \in Int
  OBVIOUS
<1>5. (x - e) + y = (x + y) - e
  <2> HIDE DEF x, y
  <2> QED BY <1>4
<1> QED BY <1>2, <1>3, <1>5

\* The quantities of a closed trade, held against what a dataset makes of them.
LEMMA FundingIsKnown ==
  ASSUME RecoveryInv
  PROVE  FundingChargesThePosition
<1> SUFFICES ASSUME stage = "RETURNED" PROVE FundingChargesThePosition
  BY DEF FundingChargesThePosition
<1>1. ~SummaryRaises
  BY SummaryIsWritten DEF RecoveryInv
<1> SUFFICES ASSUME TradeClosed PROVE FundingChargesThePosition
  BY <1>1 DEF FundingChargesThePosition
<1>2. TypeOK /\ Story /\ Details /\ position = "FLAT"
  BY DEF TradeClosed, RecoveryInv, ReplayKnown, Endings
<1>3. /\ ~LedgerRaises /\ TotalSlippage = GrossPnl * RateUnit - SimulatedPnl
      /\ TotalSlippage \in Int /\ GrossPnl \in Int /\ SimulatedPnl \in Int /\ TotalFee \in Int
  BY <1>2, LedgerBalances
<1>4. ASSUME NEW d \in Datasets \cup {NoDataset}
      PROVE  LET r == ApplyFunding(d)
             IN  /\ \A t \in Settlements(d) :
                      OpenFractionAt(t) = HeldUntil(t) /\ OpenFractionAt(t) \in Half .. Full
                 /\ r.eligible <=> NoCosts \/ (Covered(d) /\ Missing(d) = {})
                 /\ r.eligible /\ ~NoCosts =>
                      /\ r.cashFlow = SumOver(LAMBDA exit : CarriedBy(exit, d), Exits)
                      /\ r.net = (GrossPnl * RateUnit - TotalSlippage + r.cashFlow) * RateUnit
                                   - TotalFee
  <2> DEFINE r == ApplyFunding(d)
             carried == SumOver(LAMBDA exit : CarriedBy(exit, d), Exits)
  <2>1. ASSUME NEW t \in Settlements(d)
        PROVE  OpenFractionAt(t) = HeldUntil(t) /\ OpenFractionAt(t) \in Half .. Full
    <3>1. d # NoDataset /\ Dataset(d)
      BY <2>1, DatasetAssumption DEF Settlements, NoDataset
    <3>2. t \in Int /\ EntryTime < t /\ t < ExitTime
      BY <3>1 DEF Settlements, Dataset
    <3>3. OpenFractionAt(t) = OpenBefore(t) /\ HeldUntil(t) = OpenBefore(t)
      BY <1>2, <3>2, OpenFractionIsOpen, HeldIsOpen
    <3>4. OpenBefore(t) \in Half .. Full
      BY DEF OpenBefore, Half, Full
    <3> QED BY <3>3, <3>4
  <2>2. r.eligible <=> NoCosts \/ (Covered(d) /\ Missing(d) = {})
    BY <1>2, FundingIsApplied
  <2>3. ASSUME r.eligible, ~NoCosts
        PROVE  /\ r.cashFlow = carried
               /\ r.net = (GrossPnl * RateUnit - TotalSlippage + r.cashFlow) * RateUnit - TotalFee
    <3>1. /\ Covered(d) /\ Missing(d) = {} /\ r.cashFlow = Funding(d)
          /\ r.net = NetBeforeFunding + Funding(d) * RateUnit
      BY <1>2, <2>3, FundingIsApplied
    <3>2. Dataset(d)
      BY <3>1, DatasetAssumption DEF Covered
    <3>3. Funding(d) = carried /\ Funding(d) \in Int
      BY <1>2, <3>1, <3>2, FundingIsCarried
    <3>4. NetBeforeFunding = SimulatedPnl * RateUnit - TotalFee
      BY DEF NetBeforeFunding
    <3>6. RateUnit \in Int
      BY RateAssumption
    <3> HIDE DEF r, carried
    <3>7. (SimulatedPnl * RateUnit - TotalFee) + Funding(d) * RateUnit
            = (GrossPnl * RateUnit - TotalSlippage + Funding(d)) * RateUnit - TotalFee
      <4>1. /\ TotalSlippage \in Int /\ GrossPnl \in Int /\ SimulatedPnl \in Int
            /\ TotalFee \in Int /\ Funding(d) \in Int
            /\ TotalSlippage = GrossPnl * RateUnit - SimulatedPnl
        BY <1>3, <3>3
      <4>2. \A a, b, c, e, f, u \in Int : a = b * u - c =>
               (c * u - e) + f * u = (b * u - a + f) * u - e
        BY NetBothWays
      <4>3. PICK a \in Int : a = TotalSlippage
        BY <4>1
      <4>4. PICK b \in Int : b = GrossPnl
        BY <4>1
      <4>5. PICK c \in Int : c = SimulatedPnl
        BY <4>1
      <4>6. PICK e \in Int : e = TotalFee
        BY <4>1
      <4>7. PICK f \in Int : f = Funding(d)
        BY <4>1
      <4>8. PICK u \in Int : u = RateUnit
        BY <3>6
      <4>9. a = b * u - c
        BY <4>1, <4>3, <4>4, <4>5, <4>8, Zenon
      <4>10. (c * u - e) + f * u = (b * u - a + f) * u - e
        BY <4>9, NetBothWays
      <4> QED BY <4>3, <4>4, <4>5, <4>6, <4>7, <4>8, <4>10, Zenon
    <3> QED BY <3>1, <3>3, <3>4, <3>7, Zenon
  <2> QED BY <2>1, <2>2, <2>3
<1> QED BY <1>1, <1>3, <1>4 DEF FundingChargesThePosition

\* A closed trade pays funding for exactly what it held, leg by leg, whatever the
\* settlements of the dataset; the ledger of its fills balances, and its summary can be
\* written (apply_funding, replay_with_costs, build_canonical_summary).
THEOREM FundingIsCharged == RecoverySpec => []FundingChargesThePosition
BY CheckpointIsInTheLog, FundingIsKnown, PTL
=============================================================================
