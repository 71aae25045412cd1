--------------------------- MODULE MCEventReplay ---------------------------
(* Candles for model checking EventReplay: every OHLC shape over a few prices *)
(* and every candle reproduced by up to three trades.                         *)
EXTENDS EventReplay, FiniteSetsExt

OhlcOver(prices) ==
  {[open |-> o, high |-> h, low |-> l, complete |-> FALSE, trades |-> << >>] :
     <<o, h, l>> \in {t \in prices \X prices \X prices : t[3] <= t[1] /\ t[1] <= t[2]}}

FromTrades(ts) ==
  LET prices == {ts[i].price : i \in DOMAIN ts}
  IN  [open |-> ts[1].price, high |-> Max(prices), low |-> Min(prices),
       complete |-> TRUE, trades |-> ts]

TradeSeqs(prices, n) ==
  {ts \in [1 .. n -> [at : 0 .. Minute - 1, price : prices]] :
     \A i \in 1 .. n - 1 : ts[i].at <= ts[i + 1].at}

EmptyBatch(p) == [open |-> p, high |-> p, low |-> p, complete |-> TRUE, trades |-> << >>]

CandlesOver(ohlc, trades) ==
  OhlcOver(ohlc)
    \cup {FromTrades(ts) : ts \in UNION {TradeSeqs(trades, n) : n \in 1 .. 3}}
    \cup {EmptyBatch(p) : p \in trades}

LongCandles == CandlesOver({12, 15, 20, 30, 33, 34, 48, 66}, {12, 20, 30, 48, 66})
                 \cup {FromTrades(ts) : ts \in UNION {TradeSeqs({15, 30, 33, 34}, n) : n \in 1 .. 2}}
\* Around an entry of 60 with targets so near that the breakeven may lie outside.
ShortCandles == OhlcOver({78, 75, 70, 60, 59, 58, 57})
                  \cup {FromTrades(ts) : ts \in UNION {TradeSeqs({78, 60, 59, 57}, n) : n \in 1 .. 2}}
=============================================================================
