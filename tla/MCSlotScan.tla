----------------------------- MODULE MCSlotScan -----------------------------
(* Small markets for SlotScan: every window of the code scaled down, the 15m *)
(* or the hourly stream enumerated from a few candle shapes, and each market *)
(* also reflected, so that LONG and SHORT are both explored.                 *)
EXTENDS SlotScan

MCSmaWindow == [sma30 |-> 2, sma60 |-> 2, sma90 |-> 3, sma180 |-> 3]

Candle(low, high, open, close, vol) ==
    [low |-> low, high |-> high, open |-> open, close |-> close, vol |-> vol]
At(s, t0, step) == [i \in DOMAIN s |-> s[i] @@ [t |-> t0 + (i - 1) * step]]

(* 15m shapes: quiet, dip, break-out, sweep and reclaim, high, half reclaim *)
Quiet == Candle(96, 104, 100, 98, 4)
Dip == Candle(90, 100, 98, 92, 2)
BreakOut == Candle(92, 112, 94, 110, 8)
Sweep == Candle(84, 116, 92, 114, 16)
Peak == Candle(100, 124, 110, 104, 4)
Hesitant == Candle(92, 118, 94, 106, 8)
Shapes15 == {Quiet, Dip, BreakOut, Sweep, Peak}

(* Hourly shapes over the averages 100 > 96 > 92 > 80 *)
Above == Candle(108, 132, 110, 114, 2)
Rally == Candle(108, 156, 112, 120, 2)
Summit == Candle(108, 180, 112, 116, 2)
Shallow == Candle(98, 104, 100, 102, 2)
Standard == Candle(94, 100, 94, 98, 2)
Falling == Candle(97, 110, 108, 98, 20)
Damaged == Candle(86, 94, 94, 90, 2)
HourRow(warm) ==
    [sma |-> [sma30 |-> 100, sma60 |-> 96, sma90 |-> 92, sma180 |-> IF warm THEN 80 ELSE NaN],
     atr |-> 12, tr |-> 6]
HourTr(k) == k.high - k.low
Hours(s, warmFrom) ==
    [c |-> At(s, -5 * HourStep, HourStep),
     f |-> [i \in DOMAIN s |-> [HourRow(i >= warmFrom) EXCEPT !.tr = HourTr(s[i])]]]

(* The longer intervals: one rising trend, and ways it fails to be one. *)
Rising(n, slope, first) ==
    [c |-> At([i \in 1..n |-> Candle(130, 140, 132, 136, 1)], -FourHourStep * n, FourHourStep),
     f |-> [i \in 1..n |->
              [sma |-> [sma30 |-> 120, sma60 |-> 110, sma90 |-> 100, sma180 |-> first + slope * i],
               atr |-> 10, tr |-> 10]]]
Unordered(s) ==
    [s EXCEPT !.f = [i \in DOMAIN @ |->
                        [@[i] EXCEPT !.sma = [@ EXCEPT !["sma60"] = 130]]]]
Squeezed(s) == [s EXCEPT !.f = [i \in DOMAIN @ |-> [@[i] EXCEPT !.atr = 60]]]
FlatAt(s, i) == [s EXCEPT !.f[i].atr = 0]
Bull == Rising(5, 4, 60)
Blocking(s) ==
    [s EXCEPT !.f = [i \in DOMAIN @ |->
        [@[i] EXCEPT !.sma = [sma30 |-> 60, sma60 |-> 70, sma90 |-> 80, sma180 |-> 120 - 4 * i]]]]

Usual == << Above, Above, Summit, Above, Rally, Shallow, Shallow, Shallow, Shallow >>

Market(s15, hours, four, day, tick) ==
    [c15 |-> At(s15, 0, 1), hour |-> hours, four |-> four, day |-> day,
     rule |-> [tick |-> tick, from |-> 0, to |-> 100]]

ByCandles ==
    {Market(<< Quiet, Dip, Quiet >> \o s, Hours(Usual, 1), Bull, Bull, 4) :
        s \in [1..4 -> Shapes15]}
ByHours ==
    {Market(<< Quiet, Dip, Quiet, Quiet, Dip, Quiet, BreakOut >>,
            Hours(<< Above, Summit, Above, Shallow >> \o s, 1), Bull, Bull, 2) :
        s \in [1..4 -> {Above, Standard, Falling, Damaged}]}
ByTick ==
    {Market(<< Quiet, Dip, Quiet, Dip >> \o s, Hours(Usual, warm), Bull, Bull, tick) :
        s \in [1..3 -> {Dip, BreakOut, Peak, Hesitant}], tick \in {2, 10}, warm \in {1, 6}}
ByTrend ==
    {Market(<< Quiet, Quiet, Quiet, Quiet, Dip, Quiet, BreakOut >>, Hours(Usual, 1), four, day, 4) :
        four \in {Bull, Rising(5, 0, 60), Squeezed(Bull), Unordered(Bull), Rising(3, 4, 60),
                  FlatAt(Bull, 5)},
        day \in {Bull, Unordered(Bull), Blocking(Bull), Rising(2, 4, 60)}}
ByFlatHour ==
    {Market(<< Quiet, Quiet, Quiet, Quiet, Dip, Quiet, BreakOut >>, FlatAt(Hours(Usual, 1), i),
            Bull, Bull, 4) : i \in {5, 7, 8}}

LongMarkets == ByCandles \cup ByHours \cup ByTick \cup ByTrend \cup ByFlatHour
MCMarkets == LongMarkets \cup {MirrorMarket(m) : m \in LongMarkets}
=============================================================================
