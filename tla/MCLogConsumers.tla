--------------------------- MODULE MCLogConsumers ---------------------------
(***************************************************************************)
(* Everything that happens to the result of a replay: late entries are     *)
(* appended to it, a consumer reduces its log from checkpoints, and the    *)
(* ledger, the funding and the summary are computed from it. On a small    *)
(* market with a few late reports and funding data.                        *)
(***************************************************************************)
EXTENDS ReplayRecovery, FundingLedger, TLC

Ohlc(o, h, l) == [open |-> o, high |-> h, low |-> l, complete |-> FALSE, trades |-> << >>]
Traded(o, h, l, ts) == [open |-> o, high |-> h, low |-> l, complete |-> TRUE, trades |-> ts]

ConsumerCandles ==
  {Ohlc(20, 20, 20), Ohlc(20, 30, 20), Ohlc(20, 20, 15), Ohlc(33, 33, 15), Ohlc(34, 34, 34),
   Ohlc(33, 48, 33), Ohlc(33, 66, 33), Ohlc(33, 33, 12), Ohlc(48, 66, 30),
   Traded(20, 20, 15, << [at |-> 0, price |-> 20], [at |-> 1, price |-> 15] >>),
   Traded(20, 48, 20, << [at |-> 0, price |-> 20], [at |-> 0, price |-> 30],
                         [at |-> 1, price |-> 48] >>),
   Traded(20, 48, 12, << [at |-> 0, price |-> 20], [at |-> 1, price |-> 48],
                         [at |-> 1, price |-> 12] >>),
   Traded(20, 20, 12, << [at |-> 0, price |-> 20], [at |-> 1, price |-> 12] >>),
   Traded(33, 66, 33, << [at |-> 1, price |-> 33], [at |-> 1, price |-> 66] >>)}

\* Schedules of two settlements with any of their observations missing, and
\* a coverage that begins or ends inside the trades.
Observed(t) == (t % 5) - 2
Covering(from, to) ==
  {[start |-> from, end |-> to, expected |-> expected, observed |-> [t \in known |-> Observed(t)]] :
     <<expected, known>> \in {p \in kSubset(2, from .. to - 1) \X SUBSET (from .. to - 1) :
                                 p[2] \subseteq p[1]}}
ConsumerDatasets ==
  {d \in Covering(2, 10) : d.expected = DOMAIN d.observed \/ 4 \in d.expected}
    \cup Covering(3, 6)
=============================================================================
